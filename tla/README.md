# Megatron-DeepSpeed: models, checks and proofs

TLA+ models of the parts of Megatron-DeepSpeed whose correctness is a matter of
*control*: which stage exchanges which tensor when, which rank enters which
collective, what is on disk when a rank dies. Numerics (attention, kernels,
optimizer arithmetic) are abstracted to what identifies a result: a tensor is the
number of its microbatch, the weights of a rank are the history of the training
steps they have gone through.

Paths below are relative to the repository (`megatron/...`).

## Inventory

| Part | State it keeps | Operations | Interacts with | What is hard | What makes it correct |
|---|---|---|---|---|---|
| **Pipeline schedules** `core/pipeline_parallel/schedules.py` | per stage: saved input and output tensors, loop counters, no_sync context; with interleaving, all of it per model chunk | `forward_backward_no_pipelining`, `..._without_interleaving` (1F1B), `..._with_interleaving` | p2p communication, DDP reductions, the data iterator | every stage runs its own program; nothing but the order of untagged messages ties microbatches together; with interleaving every stage computes by itself which chunk a message is for | every microbatch once, in order, on every stage and chunk; outputs and gradients paired; one reduction; memory bound; all stages return |
| **p2p communication** `core/pipeline_parallel/p2p_communication.py` | outstanding requests | `send/recv_forward/backward` and their fusions | `torch.distributed` | rendezvous, order of posting | no deadlock, with and without transport buffering |
| **Zero-bubble schedule** `deepspeed_zbh1_schedule.py`, `deepspeed_zbh1_engine.py`, `tensor_parallel/weight_grad_store.py` | instruction stream, queue of deferred weight gradients | B and W passes | DeepSpeed engine | deferred work run once, at the right instruction | every weight gradient applied once |
| **Training loop** `training.py`, `dist_signal_handler.py` | `args.iteration`, `args.consumed_train_samples`, `saved_checkpoint`, signal flag | `pretrain`, `train`, `train_step` | schedules, optimizer, checkpointing, samplers, the operating system | decisions taken per rank around collectives; SIGTERM, clocks, kill switch | ranks stay in the same collective; nothing trained is lost by an exit; samples used once |
| **Checkpointing** `checkpointing.py`, `save/load_parameter_state` of `optimizer/distrib_optimizer.py` | files per iteration and shard, the tracker file | `save_checkpoint`, `load_checkpoint`, `read_metadata` | training loop, file system | crashes between any two writes; in-place writes | a job resumes exactly the last published state or refuses to start |
| **Optimizer step, loss scaling** `optimizer/optimizer.py`, `grad_scaler.py`, `clip_grads.py` | main parameters and gradients, loss scale, growth and hysteresis trackers, `found_inf` | `reduce_model_grads`, `step`, `update`, `gather_model_params`, `state_dict` | local DDP, model-parallel and embedding groups | agreement on overflow; long counter sequences; copies of one parameter on two ranks | all ranks skip or none; the scale follows its rules; all ranks hold what one optimizer would have computed |
| **Distributed optimizer** `optimizer/distrib_optimizer.py` | ranges of parameters in gradient-buffer shards | range maps, reduce-scatter, all-gather, gather and scatter of checkpoints | local DDP | interval arithmetic at shard boundaries; one buffer for gradients and updated parameters | the shards of a parameter partition it, in every collective and checkpoint |
| **Local DDP** `model/distributed.py` | contiguous gradient buffer | accumulation, `zero_grad_buffer`, all-reduce | optimizers | the layout is computed once and read by the optimizer's ranges | see the optimizer |
| **Parallel groups** `core/parallel_state.py` | process groups | `initialize_model_parallel` | everything | rank arithmetic | groups partition the ranks, meet in one rank |
| **Microbatch calculator** `microbatches.py` | current global batch size | `update` | training loop, samplers | division, ramp boundary | batch size grows to its target, always divisible |
| **Data samplers** `data/data_samplers.py` | consumed samples | `__iter__` | training loop, every loader by itself | slices per data-parallel rank, epochs, restarts in the middle of one | ranks partition every batch; a restart repeats the batches |
| **Datasets** `data/gpt_dataset.py`, `blendable_dataset.py`, `dataset_utils.py`, `helpers.cpp` | cached index files; document, sample and shuffle index; blending index | `_build_index_mappings`, `build_sample_idx`, `build_blending_indices`, `__getitem__` | file system, data-parallel and pipeline groups | epochs cut off, samples over several documents, C++ without bound checks; rank 0 writes what all ranks read; disks that fill up | samples tile the token stream; every blended sample exists; ranks fail together |
| **Tensor parallelism** `core/tensor_parallel/layers.py`, `mappings.py`, `cross_entropy.py`; the GPT model `model/transformer.py`, `language_model.py`, `gpt_model.py` | hidden states, global memory buffer, asynchronous reductions | column- and row-parallel layers, vocabulary embedding, cross entropy, `allreduce_layernorm_grads` | tensor-parallel group, get_batch | the same buffer reused, collectives overlapped with GEMMs, sequence cut and gathered | every token once in every gradient; the same collectives on every rank |
| **Random states and recomputation** `core/tensor_parallel/random.py`, dropouts of the model | two CUDA generators per rank | `fork`, `CheckpointFunction`, `get_rng_state` | checkpointing, schedules | recomputation in the middle of other passes; a restart | the backward pass sees the masks of its forward pass; ranks draw alike where they must and only there |
| Learning-rate scheduler, fused kernels, tokenizers, text generation, arguments, timers, retrieval and vision models, the older `p2p_communication.py`, tasks and tools | | | | numerics, I/O, or sequential code | not modelled, see below and `PROJECT.json` |

How they interact: `pretrain()` initializes the groups, builds model and optimizer,
calls `load_checkpoint`, builds the data iterators at the position it restored, and
runs `train()`. Every iteration sets the batch size, calls `train_step`, which calls a
pipeline schedule and then the optimizer, and then goes through the save and the
exits. All ranks execute the same program; they meet in collectives.

## Modules

| Module | Models |
|---|---|
| `PipelineFlush` | what a pipeline schedule promises: every microbatch forward once per stage in stage order, backward in the reverse order, with bounded outstanding activations |
| `OneFOneB`, `MCOneFOneB` | the 1F1B schedule on every stage, with every p2p request; refines `PipelineFlush` |
| `OneFOneB_proofs` | theorems about `OneFOneB` |
| `Interleaved`, `MCInterleaved` | the schedule with several model chunks per stage; refines `PipelineFlush` over virtual stages |
| `Interleaved_proofs` | theorems about `Interleaved` |
| `ZeroBubble`, `MCZeroBubble` | the ZB-H1 instruction stream of every stage and its execution, with `WeightGradStore`; refines `PipelineFlush` |
| `ZeroBubble_proofs` | theorems about `ZeroBubble` |
| `DurableTraining` | what `pretrain()` with `--save` and `--load` promises whoever submits the job |
| `Checkpoint` | `save_checkpoint`, `load_checkpoint`, files and tracker |
| `Training`, `MCTraining` | `pretrain()` and `train()` on every rank, over crashes and relaunches; extends `Checkpoint`, refines `DurableTraining` |
| `Training_proofs` | theorems about `Training` and `Checkpoint`, the refinement of `DurableTraining` among them |
| `SynchronousOptimizer` | what an optimizer promises the training loop: one decision for the whole world, one model |
| `LossScaler` | the loss scalers, and what their comments say as a function of the history |
| `ShardRanges` | the ranges of the distributed optimizer: shards of the gradient buffer, parts of parameters in them |
| `ParallelGroups` | the groups of `initialize_model_parallel` and what a rank reads off them |
| `Optimizer`, `MCOptimizer` | a training step from `zero_grad_buffer` to `gather_model_params` on every rank, with either optimizer, saving and loading; extends `LossScaler`, `ShardRanges` and `ParallelGroups`, refines `SynchronousOptimizer` |
| `Optimizer_proofs` | theorems about `ParallelGroups`, `ShardRanges`, `LossScaler` and `Optimizer`, the refinement of `SynchronousOptimizer` among them |
| `SampleStream` | what loaders, microbatch calculator and `update_train_iters` promise together |
| `DataFeed`, `MCDataFeed` | the batch samplers of every loader, batch sizes, the accounting over crashes and restarts; refines `SampleStream` |
| `DataFeed_proofs` | theorems about `DataFeed` |
| `DatasetIndex` | the indices of a GPT dataset and of a blend, as functions |
| `DatasetCache`, `MCDatasetCache` | building, writing and loading them on every rank, over full disks and relaunches; extends `DatasetIndex` |
| `Dataset_proofs` | theorems about `DatasetIndex` and `DatasetCache` |
| `TensorParallel`, `MCTensorParallel` | the collectives of a transformer's forward and backward pass |
| `DropoutMasks` | what recomputation and saved generators promise |
| `Recomputation`, `MCRecomputation` | generators, dropouts, activation checkpointing, restarts; refines `DropoutMasks` |
| `TensorParallel_proofs` | theorems about `Recomputation`, the refinement of `DropoutMasks` among them, and about `TensorParallel` |

### OneFOneB

An action of a stage is the code between two p2p calls. `pc[s]` names the place;
the loop counters `i` of the code are not separate variables because they equal the
number of forward or backward passes done (`Len(fwd[s])`, `Len(main_grad[s])`); the
comments before the actions say which. `reqs[s]` holds the requests of the last call
that have not completed; `At(s, l)` requires it to be empty, which is the
`req.wait()` loop of `_communicate`. `tensor_send` and `tensor_recv` are the local
variables `output_tensor`, `input_tensor_grad`, `input_tensor`, `output_tensor_grad`.

The transport is `torch.distributed`, modelled from how the code uses it. With
`batch_p2p_comm` the requests of a call progress in any order. Without it, requests
to one peer are served in the order `_p2p_ops` posts them. A link buffers up to
`send_buffer` tensors; with 0, a send completes only together with its receive, so
that a schedule that needs buffering deadlocks.

`Gradient` and `InputGrad` yield `Garbage` when the tensors of a backward pass do
not belong to one microbatch. A backward pass outside the no_sync context launches a
reduction; `reductions[s]` records how many passes each covers.

Not in the model: `variable_seq_lengths` (shapes are exchanged in the same pattern
before each call), ring exchange, the encoder-decoder split (several tensors per
call), `deallocate_pipeline_outputs`, `param_sync_func`.

### ZeroBubble

`ZeroBubbleH1Pipeline.steps()` is a generator; `forward[s]`, `backward[s]` and
`weight[s]` are its counters, and since each of its loops runs until a counter reaches a
bound, the counters alone say in which section it is (`InF` warmup, `InFB`, `InFBW`,
`InBW`, `InW`, `AtEnd`). `Yield` puts the instructions of the next step into `cmds[s]`;
the engine executes them one by one, an action for each instruction.

Instructions this repository defines are translated from it: `BackwardOnlyPass` and
`WeightPass` from `deepspeed_zbh1_engine.py`, with `put`, `flush` and `pop` of
`WeightGradStore`. The others are DeepSpeed's and external: they are modelled by what
the schedule and `_exec_backward_only_pass` (which is DeepSpeed's backward pass with
the split put in) show of them. `pipe_buffers[s][b]` is `self.pipe_buffers` of the engine;
`acts` and `grads` are the tensors in transit, at most `send_buffer` of them on a link,
and with 0 a send returns together with its receive.

Gradients are sequences of microbatches in the order of their accumulation, those of
the weights of linear layers (which a W computes) apart from all `other`. `lp_grad` is
`param.grad`; with the bf16 optimizer every pass clears it and adds it to `hp_grad`
(`clear_lp_grads`, `update_hp_grads`).

Not in the model: partitioned activations, tied weights (`ReduceTiedGrads` is in no
conflict with anything modelled), evaluation batches, a batch after the first (that
nothing is left over for it is part of `GradsComplete`).

### Checkpoint and Training

A rank runs by itself from one collective to the next. `pc[r]` is where it stands,
`ret[r]` where `save_checkpoint` returns to. A collective completes when every rank has
entered it; barriers are all alike, so that ranks waiting in *different* barriers let
each other go, as `torch.distributed` would. `train_step` and the `all_reduce`s and
the `all_gather` are told apart: ranks in different ones hang.

`state[r]` is what rank r holds: the steps its weights and its optimizer state have
gone through, `iteration`, `consumed` and `consumed_valid`
(`args.consumed_train_samples`, `args.consumed_valid_samples`) and `num_steps`
of the learning-rate scheduler. A step is the interval of samples it used and whether
the optimizer applied it; this is what tells apart a shard of one save from a shard
of another. `files[i][shard][kind]` is what is on disk for iteration i: absent,
partial (opened, not closed) or complete. `kind` is `model_optim_rng.pt` or, with the
distributed optimizer, `distrib_optim.pt`. `tracker` is
`latest_checkpointed_iteration.txt`: missing, empty (just truncated) or an iteration.
`saved` is a history variable: the state of rank 0 when the tracker was last written.

A crash stops one rank at any label while the others go on until they wait for it;
the launcher then starts all ranks again (`Restart`), from `Fresh`, and what is on
disk stays. `Resubmit` launches a job that has ended. SIGTERM sets the flag of one
rank at a time. Data-parallel rank and shard follow the numbering of
`parallel_state.py` for tensor-parallel size 1.

`GlobalBatchSize` is the ramp-up calculator with the quotient
`int(consumed / (ramup_samples / num_increments))` taken exactly. `Config` excludes
`start = global` (the code divides by zero there) and a ramp-up of 0 samples. A
constant batch size is a job past its ramp-up and is not an instance of its own.

`data_iterator` and `valid_iterator` are what the iterators have really delivered, apart
from the counters in `args`. An evaluation is one collective action: it draws
`eval_iters` batches of the size the last training step has set (`batch_size`), after every
`eval_interval`-th iteration before that iteration's save, and on the validation and the test
data once training is done, after the last save. `evaluate()` counts the test samples, too,
as validation samples; nothing is saved after that.

Assumed of the job: `--save` and `--load` name one directory on a file system all
ranks share, with write-through in program order; `--save-interval` is set;
`args.deepspeed` is off. Not in the model: logging, `train_tokens`,
autoresume, release checkpoints, `--finetune`, `--reset-iteration`,
`--exit-on-missing-checkpoint`; rng states are in `Recomputation`. When `load_parameter_state` fails on the
first rank of a data-parallel group, the others of the group hang in the scatter;
the model lets them fail too, and treats one failed rank as a refused job either way.

### Interleaved

`forward_backward_pipelining_with_interleaving`, on a ring: chunk c of stage s is the virtual
stage `c * P + s`, and the last stage sends to the first. An action is one iteration of a
loop of the code: it starts when all requests of the previous p2p call have completed,
and ends by posting the next. Which chunk is next, whether the neighbours send, and in
which list the placeholder of a receive is put are computed from the iteration number as the
code does (`Chunk`, `dest`). A tensor carries its microbatch *and* the virtual stage that made it,
so that one that ends up in another chunk's list is seen. The gradients of a chunk
are reduced by its last backward pass or, with `grad_sync_func`, P - 1 - s passes later;
`synchronized` is `synchronized_model_chunks`. Partial checkpointing is a constant of a pass
and not in this module (it is in `OneFOneB`).

`overlap_p2p_comm` is left out: its steady state (lines 738-740) names variables that do not
exist and raises `NameError`. The shape check for `decoder_seq_length` uses
`tensor_shape` before it is assigned, and sequence parallelism assigns into a tuple;
neither path is modelled. `param_sync_func` is called as the code does, for iterations compared with
`num_microbatches` although they count the microbatches of all chunks (line 531).

### ParallelGroups, ShardRanges, LossScaler and Optimizer

`ParallelGroups` and `ShardRanges` are functions, translated operator by operator from
`initialize_model_parallel` and from `build_model_gbuf_param_range_map` and its callers.
`Optimizer` uses them for its collectives and copies. An action of a rank is the code between
two collectives; a collective is one action of its group, enabled when all members have come to
it. Pipeline stages or tensor-parallel ranks are `Positions`; there are two, and one parameter
has a copy on both: the word embeddings of the first and the last stage, or a
layer norm under sequence parallelism.

A cell of the contiguous buffer holds nothing, the gradient of one element or the value of
one, since the parameter buffer of the distributed optimizer is the memory of the gradient
buffer (one cell per element; the two have views of different width on it). A gradient is
the element it is for, the ranks whose passes are in it, by what it is divided and scaled, and
whether it is infinite; sums of what does not belong together are `Garbage`. A value is the number of
steps applied to its element, and becomes `Wrong` when a step is taken with anything but
the gradient of the whole batch, or when the norm for clipping counts an element twice or not at all.
Scales are exponents of two. The distributed optimizer's `state_dict` is the
concatenation of the shards; a restart may have another number of replicas if the slices
of the file can be scattered to them.

Not in the model: bf16 without a scaler and `clip_grad` 0 (each leaves out one of the steps modelled),
parameters kept in fp32 (copied alike), several gradient dtypes, position embeddings of an
encoder-decoder split (reduced like the word embeddings), the local DDP without contiguous buffers,
torch's and DeepSpeed's DDP, a save of the distributed optimizer before its first step, which
raises (`distrib_optimizer.py:621`). `ParallelGroups` leaves out FP8 groups and the
position-embedding group; virtual ranks are in `Interleaved`.

### DataFeed

Every loader computes its slice of the data by itself: one for the inputs on the first stage and
one for the labels on the last, for each data-parallel rank. `queue` is what its iterator has still to give in
this pass, `sampler` is `consumed_samples` of its sampler (which the sequential sampler never changes and
the random one advances as it yields), `taken` what it has given to this step. A pass is
a function of the number of consumed samples, as in `__iter__`. `torch.randperm` is an arbitrary
permutation, the same for every loader that seeds it with the same epoch. `drawn`
is a history variable: what each iteration trained on. `TrainIters` and `GlobalBatchSize`
are `update_train_iters` and the calculators of `microbatches.py`, quotients exact where the
code rounds a float.

`JobsAssumption` names what a job needs and the code asserts or silently presumes:
batch sizes are multiples of a round; a ramp-up has increments (with `start = global` or a
ramp-up of 0 samples the constructor divides by zero, `microbatches.py:120`) and ends within the
training samples (not checked by the code); `dataloader_type` is one of two (`training.py:1647`); a random order is for one
layout; and with `--no-data-sharding` the dataset divides into rounds - otherwise ranks
run out of samples at different times (`data_samplers.py:173`). Loading ahead by workers does not change
what is given. `RandomSeedDataset`, whose `set_epoch` reaches no worker that has
been forked already (`data_samplers.py:159`), is not modelled. Nor is the sequential sampler's assertion that a sample is
left (`data_samplers.py:68`): it refuses a restart from a checkpoint that has consumed every one of `total_samples`,
with nothing left to train, where the model goes on to `done`. The totals of the run leave a rest. `PermutationsAssumption` says what `torch.randperm` is: a
permutation of the bucket for each epoch a pass may begin, the one past the last sample included.

### DatasetIndex and DatasetCache

`DatasetIndex` has the functions: how many epochs, which documents in which order, the sample index
built by the two loops of `build_sample_idx` (one turn of the inner loop is a step, as the compiled
code reads `doc_idx` without bound checks), `__getitem__`, and the greedy loop of `build_blending_indices`.
What numpy shuffles is any permutation that `_build_doc_idx` and `_build_shuffle_idx` may
return. A corpus carries its shuffled documents, and sums of its terms, as given data with the
predicates (`IsDocIdx`, `IsShuffleIdx`, `IsStart`, `AreSums`) that say what they are: this keeps
recursion out of the module.

`DatasetCache` runs them on the ranks with tensor-parallel rank 0: rank 0 looks for the files of each
dataset, builds and writes what is missing, all ranks meet in two reductions and load. A file is absent, partial
or whole. A disk may fail at any open or write, and the job may die anywhere and be launched
again over what it left. What the code really does then is in the model: a file
left partial as the *last* one of an index is found by every later launch, not built
again, and fails to load until somebody deletes it (`gpt_dataset.py:471`); the property
is that all ranks then fail together and none trains on it. The samples of a blend past
`num_samples`, up to the sum of the numbers its corpora were asked for, need not exist, though
`dataset_utils.py:63` adds half a percent so that "we still have samples left to feed to the network";
`BlendableDataset` looks at the last one only.

Not in the model: the corpora's split in train, valid and test, `train_data_exact_num_epochs`, two cache
directories, changed corpora under the same description hash, weights of 0 (such a dataset would be drawn from
on ties), and the followers of tensor-parallel rank 0, which wait in a broadcast that never comes
when the builders exit after a failed write (`training.py:1624`).

### TensorParallel

A tensor is the sequence of its entries along the first dimension, an entry a sum of *shares*: what rank r
computes for token t with its slice of a weight. A row-parallel layer's output is complete when
all shares of its token are in it, and an entry of a gathered or split tensor is the token it is correct for. The
collectives are those of `mappings.py` and `layers.py` in the order the layers call
them, among them the all-gather into the global memory buffer that a later layer overwrites, and the
reduction or reduce-scatter of the input gradient that runs while the weight gradient is
computed. A rank may be ahead of another until the next collective. One reduction stands for the three of
the cross entropy. The gradient of a parameter is how often each token has
contributed to it.

The arguments (`Model`) say which program runs. `"gpt"` is `pretrain_gpt` with `get_batch`, `"gpt_pipe"` is
`pretrain_gpt` as DeepSpeed's pipeline with `get_batch_pipe`, and `"gpt_core"` is `pretrain_gpt_core`, whose layers call the
same collectives and set the same attribute on layer norms (`core/fusions/fused_layer_norm.py:58`) and
biases. With sequence parallelism `get_batch` cuts the tokens to the rank's
part (lines 132-149) and the embedding cuts them again (`language_model.py:260`): either what is left is not divisible
(`mappings.py:57`), or the loss cannot be computed. `get_batch_pipe` and `pretrain_gpt_core` do not cut; with
`get_batch_pipe` learned positions fail, since `SequenceParallelPositionEmbedding` has the rank's part of the rows
only. That part is of the table, which may be longer than the sequence; then the positions of `get_batch` fail too
(`PositionsExist`). A rank that fails (`pc` is `"error"`) ends the job. `TPTypeOK` says that these are the only ways
to fail, and the instance has all of them. `ModelsAssumption` excludes sequences that the ranks do not divide, on which
`get_batch` fails at once (line 138) and the other programs in the embedding.

The gradients of layer norms and of biases of row-parallel layers are summed over the ranks by `allreduce_layernorm_grads`, which
`train_step` reaches only without DeepSpeed (`Reduces`). With sequence parallelism and DeepSpeed the ranks end with the contributions
of their own tokens, and `GradientsComplete` says so. The sequence-parallel programs that
do reduce and reach the end are those of `pretrain_gpt_core`; without sequence parallelism there is nothing to sum.

Not in the model: the DeepSpeed engine's own reductions, `gather_output`, mixture of experts, DeepSpeed's sequence parallelism and FPDT, and
the layout of query, key and value, which differs under sequence parallelism in
`transformer.py:737`.

### Recomputation

A generator is a seed and the number of draws from it, a dropout mask the state it was drawn
with. The tracker swaps its state with the device's (`Fork`, `Join`); under sequence
parallelism there is a fork around all layers, otherwise one around each core attention. Layers are grouped in
`Units`, which are recomputed wholly, in their attention, or not. The passes of microbatches come in any order a
pipeline schedule may have; `graph` holds what the outstanding ones left for their backward
pass. `rng_state` is what the rank with data-parallel rank 0 writes. Ranks share no generator
and run the same program, so a step is a step of every rank.

Not in the model: the CPU generator, `drop_path`, experts, `distribute_saved_activations`, the checkpoint
functions of DeepSpeed and Transformer Engine, evaluation, and a restart with another
layout (which has other seeds). "uniform" with a number that does not divide the layers runs past the last one
and is excluded by `ConfigsAssumption`. With ten replicas and `data_parallel_random_init` the seeds of
one stage coincide with those of the next (10 per replica, 100 per stage).

## Runs

| Run | Instance | Question |
|---|---|---|
| `one_f_one_b` | 4 stages; 1, 3 and 5 microbatches; training and forward only; batched or not; buffer 0 or 1; with and without `grad_sync_func` | does the schedule terminate, keep order, bound memory, reduce once, and implement `PipelineFlush`? |
| `one_f_one_b_grad_sync` | 2 stages, no `grad_sync_func` | are gradients reduced on *every* stage? No: finding 1 |
| `interleaved` | 3 stages with 3 chunks; 3, 6 and 9 microbatches; forward only, batched, buffer, `grad_sync_func` | the same questions for virtual stages |
| `zero_bubble` | 4 stages; 2 and 5 microbatches; default and exact semantics, buffer 0 or 1, bf16 or not, any two of the three switches in every combination | do the instruction streams fit together, is every deferred gradient applied once, is it 1F1B in memory and (exact) in order? |
| `training` | 2 ranks, 3 iterations, save and evaluation every 2nd and after the last; 2 relaunches; model-parallel with and without the distributed optimizer, and data-parallel with exit interval, SIGTERM or duration; 1 rank with every exit at once, the kill switch included | does a crash anywhere leave a job that resumes exactly, or refuses? do ranks leave together and lose nothing? |
| `training_final_save` | 2 model-parallel ranks, 2 iterations | does the tracker always name a loadable checkpoint? No: finding 2 |
| `training_kill_switch` | 2 model-parallel ranks, kill switch | does the kill switch end the job? No: finding 3 |
| `optimizer` | 2 positions on 2 or 3 replicas, 3 steps, 1 restart (with another number of replicas); either optimizer; shared embeddings or layer norm | does the world decide together, does every rank hold the model of one optimizer, does the scale follow its rules? |
| `data_feed` | sequential and random orders, ramp-up, up to 2 data-parallel ranks with both loaders, 1 crash and restart | is the model trained evenly, on the same batches after a restart, and as long as asked for? |
| `recomputation` | 2 tensor-parallel ranks, 1 or 2 replicas, 2 layers, 2 microbatches, 2 iterations, 1 crash; every way to recompute; with and without sequence parallelism and embedding | are gradients computed with the masks of their forward pass, alike after a restart, and masks independent? |
| `tensor_parallel` | 1 to 3 ranks, 1 or 2 layers, 2 to 4 tokens; copied, overlapped or sequence-parallel, with and without DeepSpeed | do ranks meet in the same collectives, and which tokens count in which gradient? |
| `dataset_cache` | 2 ranks, 2 relaunches; a corpus of 2 or 4 documents in every order, over 1 to 3 epochs; blends of 2 and 3 corpora | does a rank that trains read every sample of the stream once, do the samples of a blend exist, do ranks end alike? |

Bounds. Four stages are the smallest pipeline with two stages that are neither first nor
last, one of them even and one odd (requests are posted in an order that depends on
the parity of the rank); 1, 3 and 5 microbatches are fewer than the deepest warmup,
exactly as many, and enough for a steady state on every stage. For ZB-H1, 2 microbatches
are fewer than the stages (warmup and FB sections are cut short), and 5 reach every section
on every stage, with a `W` section whose length differs between stages. Interleaving needs more than two
stages; three chunks are the fewest of which one is neither first nor last; one group of
microbatches is all warmup, two reach the steady state, three have a group that is
neither first nor last.

Three iterations with
a save interval of 2 contain an iteration saved by the interval, one saved only at
the end, and a crash between them; the ramp-up changes the batch size within them. Two relaunches
allow a crash during the first launch, another during recovery, and a third launch
that must cope with what both left. `restarts` is the only counter that is cut off
(`MaxRestarts`); `Crash` needs a launch to be left, since a job nobody starts again
has nothing to show.

In `optimizer` the slices of three replicas cut through parameters, leave padding at the end of the
buffer and, with the layer norm, an empty slice; three steps with a growth interval and a hysteresis of 2 let
the scale grow, shrink and reach its minimum. In `data_feed` the totals leave a rest in every
layout and batches cross epochs. In `recomputation`, two microbatches have backward passes between forward
passes. In `tensor_parallel`, two layers use the shared buffer four times; two and three ranks split a sequence with and without
the reduction, and a table of positions is as long as the sequence, or half as long or twice as long again. In `dataset_cache`, samples end with a
document, inside one, and run over several, one of them empty, and the last epoch is shuffled both with the others
and apart; the blends have just enough samples in one case and more than enough in the others.

What the properties say:

- `PassesInOrder` (1F1B and interleaved): the k-th pass of each stage, or chunk, is the k-th
  microbatch, and every backward pass combines an output with its own gradient.
- `PartialCheckpointWindow`: the modulus and offset of
  `checkpoint_activations_microbatch` keep a stage from storing the full activations of
  more than n microbatches, across the boundary of warmup and steady state.
- `GradsReduced`: one reduction, of all microbatches, at the end. For 1F1B it is restricted
  to stages with a cooldown phase or a `grad_sync_func`, see finding 1.
- `PassesInOrder` (zero-bubble): a pipe buffer is never filled again while its microbatch is
  outstanding, `grad_layer`, of which there is one, always belongs to the next outputs, and no `WeightPass` comes
  before its `W` (the assertion in `WeightGradStore.pop`). `GradsComplete`: at the
  optimizer step each microbatch is in the gradients of all parameters exactly once,
  and the store is empty; and what `examples_deepspeed/zero_bubble_pp/README.md` promises of
  `--enable-zbh1-exact-semantics`: weight gradients accumulate in the order of 1F1B.
  `MemoryAs1F1B`: activations and deferred `W`s together are at most P.
- `CollectivesMatch`: ranks never wait in two different collectives. `RanksAgree`:
  ranks that train together have weights and optimizer state of the same steps.
  `Accounting`: over all launches every sample is used once and in order, evaluations draw
  the same validation samples in every launch, and never more than the dataset was asked for.
  `LatestCheckpointWhole`: as long as there is training left, the iteration
  the tracker names can be loaded whole.
- `ImplementsDurableTraining`: a relaunched job goes on from exactly the last
  published state, or refuses to start; a crash loses at most `save_interval` steps;
  a job that stops by itself loses none.
- `ImplementsSynchronous`: every step is applied or skipped by all ranks, and whatever the shards and copies, after k
  steps a rank has the parameters with the applied ones among them, each with the gradient of the whole batch, also
  after a restart. `ScalerFollowsHistory`: the trackers of `DynamicGradScaler`, which react to one step at a
  time, amount to what the comments say about sequences of steps.
- `ImplementsStream`: no sample is used again before all others; the batches after a restart are those of before; less than a
  batch of the samples asked for is left over. `TrainItersExact`: the iterations computed before the start are those the loaders
  have samples for.
- `MasksIndependent`: two dropouts share random numbers if and only if they are the same one on ranks that hold the
  same activations. `ImplementsDropoutMasks`: gradients use the masks of their forward pass, and a restart draws them again.
- `GradientsComplete`: every token counts once in the gradient of every parameter, on every rank.
- `EverySampleOnce`: a rank that trains reads sample i as the tokens from i times the sequence length on, every
  sample once, a last epoch that is shuffled apart last. `BlendedSamplesExist`: the first `num_samples` samples of a blend exist
  in their corpora. `RanksEndAlike`: a launch ends with all ranks training, all leaving, or all failing.

Fairness. Stages and ranks are processes of their own: weak fairness on each. The
transport and collectives make progress once everybody is there: weak fairness on
`Transfer` and `Collective`. In `Optimizer`, `TensorParallel` and `DatasetCache` weak fairness of the whole step
is enough, because every rank is stopped by the next collective after finitely many steps. The launcher restarts a job with a dead rank: weak
fairness on `Restart` (`DataFeed`, `Training`); elsewhere nothing is assumed of relaunches. Nothing is assumed of crashes, failing disks, overflows, signals, the
kill-switch file, clocks or resubmission. `CHECK_DEADLOCK FALSE` stands only in `TrainingKillSwitch.cfg`, whose
subject is a job that stands still.

## Findings

1. `schedules.py:1165`: without `grad_sync_func` the last stage (no cooldown) never
   leaves the no_sync context for a backward pass, and gradients are not reduced there,
   against the comments in lines 1160 and 1179.
2. `training.py:245`: the final save rewrites in place the checkpoint the tracker
   names when the interval has just saved it, or when a finished job is submitted
   again. A crash then leaves a tracker whose checkpoint cannot be loaded, against
   `checkpointing.py:154`. While training is not done this cannot happen
   (`LatestCheckpointWhole`).
3. `training.py:1375`: ranks look for the kill-switch file without agreeing on what they
   saw, and a job can hang, against `arguments.py:685`. A job of one rank is fine
   (the one-rank jobs of `training`).

With DeepSpeed `train_step` does not call `allreduce_layernorm_grads` (`training.py:731`; a pipeline has returned in line
686). The comment in `optimizer.py:260` says that layer norms are all-reduced when sequence parallelism is used; on that path the
copies of a layer norm, and of the bias of a row-parallel layer, end the backward pass with gradients of different
tokens (`IsPartial` in `GradientsComplete`), and nothing else in this repository sums them. The DeepSpeed engine
is not part of it, so this is no finding about a whole job.

Other facts the models took from the code and that a maintainer may want to know are in the sections above: the
sequence cut twice (`TensorParallel`), samples of a blend that do not exist and index files left unfinished
(`DatasetCache`), what a job must look like for its loaders to agree (`DataFeed`), paths of the interleaved
schedule that cannot run (`Interleaved`).

## Proofs

### The 1F1B schedule

`OneFOneB_proofs` proves, for every number of stages P > 1 and every set of calls (any
number of microbatches, any buffering, either request mode), the assumptions being
`PAssumption` and `CallsAssumption` alone:

- `TypeCorrect`, `PassesAlwaysInOrder`, `ReducedOnceAtTheEnd` and
  `CheckpointWindow`: the four safety invariants of the run `one_f_one_b`;
- `ImplementsFlushSafety`: the refinement of `PipelineFlush`: initial states map to
  initial states and every step to a forward pass, a backward pass or a stutter.

The argument. That the k-th pass is the k-th microbatch is not inductive: it depends on
which tensors are in flight. The inductive invariant `IInv` adds:

- `CountInv`: how many passes a stage has done at each label;
- `LinkInv`: a link holds, in order, exactly the numbers between what its receiver has
  taken and what its sender has sent. Both ends are *computed* from labels, pass
  counts and outstanding requests (`Sent`, `Received`), which needs no history of
  messages: it is the heart of the proof;
- `ReqInv`, `ValueInv`: who may have a receive outstanding, and which microbatch is in
  each local variable;
- `SavedInv`: saved tensors are those of the outstanding microbatches, in order, so
  that `pop(0)` yields the one whose gradient arrives;
- `SyncInv`: when gradient synchronization is on and what has been reduced.

A step of a stage leaves the links of others alone and changes only one end of its
own (`Frame`, `LocalStep`); a transfer moves one number over one link (`BufferStep`,
`ReceiveStep`, `HandoverStep`). `CheckpointWindow` counts residues: the outstanding
microbatches are at most `MaxOutstanding` consecutive numbers, so those with a
residue below n are at most n. The refinement uses the same invariant: a stage that
runs microbatch k forward has received it, so its predecessor has run it (`PeerAhead`).

### The zero-bubble schedule

`ZeroBubble_proofs` proves, for every number of stages P > 1 and every set of batches (any number of microbatches, any buffering, exact
semantics or not, fp16 or bf16), from `PAssumption` and `CallsAssumption` alone:

- `TypeCorrect`, `PassesAlwaysInOrder`, `MemoryAlwaysAs1F1B` and `GradsAlwaysComplete`: the four safety invariants of the run `zero_bubble`;
- `ImplementsFlushSafety`: the refinement of `PipelineFlush` with the limit P - s on the activations of stage s.

The engine only executes what `steps()` has handed out, so everything hangs on what instructions are *left* of a step and on the three
counters, which a yield has already advanced. `IInv` says:

- `CmdsInv`: what is left is in the order of `Position`, every instruction at most once, and on the buffer of the microbatch that the
  counters say. This is what makes the sets below enough: what is executed next is the first of `Left(s)` (`HeadFirst`);
- `LeftInv`: which instructions are left together. A pass has its exchange of tensors after it and the receives before it, but they may be
  done already; a step never has two backward passes;
- `CountInv`: the sections of `steps()` as inequalities between the three counters. `steps()` has no other state: `Sections` shows that a
  stage is in exactly one loop, and every yield stays within the inequalities or goes on to the next section;
- `PassInv`: the passes made are those counted except for the one that is left (`Pending`), in order;
- `BufferInv`: what is in the buffers of the microbatches outstanding. Buffers are reused modulo P - s; that no two of these microbatches
  share one is arithmetic of `CountInv` (`Buffers`);
- `GradInv`: what is accumulated and what is queued are together every microbatch once. With exact semantics both are consecutive. Without, a
  `BackwardPass` adds its own weight gradients *before* those that are in the queue, so that only `Whole`, a statement about sets,
  is preserved;
- `LinkInv`: as in 1F1B, what is in transit are the numbers between what its receiver has taken and its sender has sent, both
  computed from counters and instructions left.

`StepWhole` relates a yield to the invariants: the instructions of each of the six kinds of steps. `ForwardStep`, `BackwardStep` etc. then
take one instruction from a stage whose invariants hold, and `SendStep`, `ReceiveStep`, `HandoverStep` one tensor from one link to a stage.
Before the proof TLC checked `IInv` on the batches of the run `zero_bubble`, for P = 3 and 4.

### The interleaved schedule

`Interleaved_proofs` proves, for every number of stages P > 2 and of chunks V > 1 and every set of calls (any number of groups of
P microbatches, training or forward only, any buffering, either way to reduce gradients), from `PAssumption`, `VAssumption` and
`CallsAssumption` alone:

- `TypeCorrect`, `PassesAlwaysInOrder` and `GradsAlwaysReduced`: the three safety invariants of the run `interleaved`;
- `ImplementsFlushSafety`: the refinement of `PipelineFlush` over the P * V virtual stages.

A tensor carries no tag and nobody tells a stage what comes next: the two ends of a link compute it, each from the number of its own
iteration. So the proof begins with what such a number means. Iteration k is on microbatch `Off(k)` of group `Group(k)` and the chunk of
position `Pos(k)`, and after k iterations that chunk has done `Done(k, j)` microbatches: the digits of k in the bases P and V. On a link
inside the row every pass of one end is one of the other (`Closes` is false). On the link that closes the ring the last stage sends in all iterations
but those of its last chunk, and the first receives in all but those of its first, P iterations apart (`Source`). `Outs` and `Ins` count them;
`SenderIs`, `SourceIs` and `Delivered` show that the n-th tensor sent is the one the n-th receive is for, chunk and microbatch.

Then the inductive invariant. `View(s)` is the state of one stage, and all of `IInv` but the links is a statement about one view:

- `CountOK`: how many passes a stage has done at each label;
- `OrderOK`: the passes of a chunk are 1, 2, ..., `Done`; this is `PassesInOrder`, and by itself not inductive;
- `ReqOK`: a receive that is outstanding is for the chunk its iteration computes, and what is being sent is the product of the pass just done. A
  stage posts both before it knows whether its neighbour will answer;
- `InputOK`, `OutputOK`, `GradOK`: each list of a chunk holds the tensors of the microbatches between those it has passed backward and those that
  have come (`Holds`). The inputs of the first virtual stage and the gradients of the last are `None`s that are appended before a pass or after
  one, and at the end of a call one may be left over (`Begins`);
- `SyncOK`: which chunks have been reduced is a function of the number of backward passes, with `grad_sync_func` of the one s iterations ago;
- `LinkOK`: what is in transit are the tensors `Got` to `Put - 1` of the sequence `Sent`, which no step changes. Both ends are computed
  from the views, as in 1F1B.

A step of a stage (`StartOK`, `WarmupOK`, ... `FinishOK`) keeps the invariant of its view and, by `StepOK`, both ends of its links; a request that
completes (`BufferOK`, `ReceiveOK`, `HandoverOK`) moves one end by one tensor. The `...Frame` lemmas read the actions once, so that everything
after them is about two views. Before the proof TLC checked `IInv` with three stages of three chunks and with four of two.

The refinement needs two more facts. `PeerAhead`: a stage about to run a pass has its tensor, so the neighbour's counter is past the
iteration that sent it, which by `SourceIs` is the same microbatch on the neighbouring virtual stage. `Window`: a stage is at most its warmup
ahead of its own backward passes, so a chunk has done fewer forward passes than `ActivationLimit` beyond its backward ones. Forward passes
begin with the first chunk and backward passes with the last: the bound comes from the digits of the two counters, as a case distinction on how far the chunk
is from the last.

### Training and checkpoints

`Training_proofs` proves, for every number of ranks, iterations and relaunches and every set of configurations
(`TrainItersAssumption`, `ConfigsAssumption`, `MaxRestartsAssumption`):

- `TypeCorrect`, `CollectivesAlwaysMatch`, `RanksAlwaysAgree`, `AlwaysAccounted` and `LatestCheckpointAlwaysWhole`: the five invariants
  of the run `training`;
- `Refinement`: `Spec => ImplementsDurableTraining`, all of it, since `DurableTraining` promises no liveness.

One hypothesis is more than an assumption of the module: `KillSwitchAlone`, a job of several ranks has no `--kill-switch-file`. It is
what finding 3 is about: ranks look for that file at different times, and the run `training_kill_switch` shows that they part. A job of
one rank may have it. All other exits (signal, duration, interval, end of training) are in.

`CollectivesMatch` says where ranks *wait*; between two collectives each runs on by itself, so it is not inductive, and neither are the
others. `IInv` adds:

- `PairInv`. `Future(r)` computes the collective rank r is going to enter next, the `ret` it has then and its `saved_checkpoint`, by
  running its program ahead from the label it is at (`FromLoop`, `FromExits`, `FromCheckpoint`). All ranks have the same future,
  except when one has refused to start; then no other is past loading. A step of one rank does not change its future (`Advances`), and
  a collective changes all in the same way. The tracker is the one thing a rank reads while another could write it: it is read only
  between `start_time` and `metadata` and written only between two barriers of the save, and the futures tell these apart.
- `TrainInv`: every counter is a function of the steps a rank has trained: `Tiled` intervals of samples, `Used`,
  `AppliedSamples`, `EvaluatedSamples`. So ranks with the same steps have the same state (`CountedUnique`), and agreement on `model`
  is all that `PairInv` has to carry. The sums are `Total`, a recursive function, and what they gain with a step is proved once
  (`TotalStep`). `EvalDue` bridges the one gap, between a training step and its evaluation. The bound of the validation data
  (`MostEvaluated`) is inductive only together with what `ConsumedValid` makes of an older checkpoint: a count of 0 past the first
  evaluation cannot be one of this job.
- `SaveInv`: how far a rank is past the last publication. `Lags` in the loop: it has published at the last multiple of the
  interval; `Unsaved` after a step, until a save or an exit makes it `Published`. This bounds what a crash loses, and is why `saved_checkpoint`
  may be trusted when an exit decides not to save again.
- `FileInv`: which of its files a rank has closed at each label of the save.
- `DiskInv`: a tracker with an iteration in it names the one of `saved`, and its files are whole as long as training is not done. The save
  after the last iteration writes the files of an iteration that may be published already *in place*, so for that one `DiskInv` only says
  that every file is either whole or partial: whoever loads then gets `saved` or refuses. That `TrackerNamesCheckpoint` fails there is finding 2.

`OpenTracker`, where rank 0 is past the barrier, needs all of it: by `PairInv` every other rank is at `save_done`, by `FileInv` each has
closed its files, and by `CountedUnique` they hold rank 0's state.

The refinement follows from the invariant. While a rank is loading, what has been trained is what was published; `TrainedIs` shows that
afterwards `Disagreement` is never the value. `TrainStep` is a `Step` (the bound on what is lost is `BehindASave`), `CloseTracker` is
`Publish`, a launch is `Relaunch`. Every other step is *gentle* to every rank (`Gentle`: it neither starts nor ends loading, keeps what is trained, and
refuses only while loading), or a barrier of ranks that have just published; those stutter, `Stop` or `Refuse` (`StutterStopRefuse`).

Before the proof TLC checked `IInv` on the configurations of the run `training` and the beginning of the state space of four ranks.

### Groups, shards, the optimizer and the data

Every module of proofs begins with the facts about numbers it uses and the provers do not know: existence, uniqueness and monotonicity of quotients and
remainders, the numbers below a product as pairs, runs of consecutive numbers (`IsRun`: what appending to a queue, taking from it and the set of
its elements are), and induction over the numbers (`SetInduction`: a *set* of numbers
that has 0 and with every number the next one). The last is derived from the well-foundedness of strict inclusion of finite sets, since the induction
theorems of the library take an operator as a parameter.

`Optimizer_proofs`, for every world, pipeline and tensor size that
`initialize_model_parallel` accepts (sequence size 1): `GroupsPartitionWorld`, `RanksAreCoordinates`,
`PipelineIsRing` and `ReplicasMeetDataParallelGroups`. The argument writes a rank as
stage, replica and slice (`Coordinate`), shows that each kind of group fixes two of the three and that the place in the group is the third.

And for every buffer, number of ranks and parameter range: `ShardsPartitionBuffer` and
`ElementsOwnedOnce`; intervals, with the quotient by the shard size as the owner.

It also has `ScalersAlwaysFollowHistory`, the property `ScalerFollowsHistory` of the run `optimizer`, for every initial and least scale,
growth interval and hysteresis (`ScalerAssumption`) and all configurations (`ConfigsAssumption`). Most of it is about histories: `ScalerStep`,
one more step changes what the comments of `update()` describe the way `update()` changes the three counters. What the comments count is
defined over the whole history, with recursive functions; `Iterates` and `StepwiseEqual` show by induction that such a function
exists and is the only one, the prefix lemmas that it does not look ahead. A scaler takes in a good step before the step is among the results,
so the invariant (`ScalersInv`) speaks of the history a rank has `Seen` in each phase, and of the one in the checkpoint.

And for all models (`ConfigsAssumption`: every position has parameters, each once and not empty), numbers of replicas, steps and
restarts (`BoundsAssumption`):

- `TypeCorrect`: the types of the run `optimizer`, with the part that is more than types: the optimizers of a data-parallel group
  together hold every element of the model;
- `Refinement`: `Spec => ImplementsSynchronous`, all of it, since `SynchronousOptimizer` has no fairness.

A collective is one action of its group, but the groups cross, and a rank may be collectives ahead of one it shares no group with.
So the invariant `SyncInv` does not compare ranks. It says that there is *one* sequence g of decisions such that what each rank holds is a
function of g, of the steps it has finished and of the phase it is in (`RankOK`):

- `HistoryOK`: its decisions are those of g, up to the step it is in or, once the group has agreed, with it;
- `BufferOK`: what each cell of the gradient buffer has. `Piece` and `From` say which ranks' passes are in the gradient of an element in a phase; for the
  distributed optimizer the reduction leaves that in the slice the rank owns, and after the step the new parameters of this slice only;
- `GradsOK`, `ParamsOK`, `MainOK`: main gradients, parameters and main parameters, each of the elements the rank has;
- `InStep`: the ranks of a group have been through its collective equally often. With `Number`, the place of a phase in the step, this is what makes a
  collective find all its members at the same step although other ranks are elsewhere;
- `DiskOK`: a checkpoint has the main parameters after the decisions saved with it, at their places in the buffer of as many ranks as have saved it.

The decisions not taken yet are open in g. An overflow in `ForwardBackward` and a restart change them, which is sound because no rank has
decided the step (`ForwardBackwardKeeps`, `RestartKeeps`); all other steps keep g. The sums of a collective are of gradients of
disjoint sets of ranks (`SumOfGrads`, by induction over the group), and that a slice has each element once is the
argument of `ElementsOwnedOnce`. For the refinement, the applied steps of the abstract optimizer are read off any rank, and `AdvancesIs`
tells the one step in which the first rank decides from those that stutter.

TLC checked `SyncInv` on the configurations of the run `optimizer` before the proof.

`DataFeed_proofs`, for every job with `JobsAssumption`: `RampUpStaysBelowTarget`, `SlicesSplitTheData` (the slices ranks
compute by themselves partition every round of a sequential pass) and `ResumedPassContinues`: the pass a loader
computes from the count it is restarted with is the rest of the pass that was interrupted, sequential or sharded.
It is what makes one `data_iterator` position in `Training` sound.

And of the whole job, with `PermutationsAssumption` and any number of crashes: `TypeCorrect` and `LoadersNeverRunDry`, the two
invariants of the run `data_feed`. The number of iterations is computed once, before the start, by a loop that only knows batch sizes; the
loaders know only the data and a count. What relates the two is `IInv`:

- `AccountsInv`: iterations and samples are on the `Schedule`, which is the loop of `update_train_iters` read from the other end:
  at a count within the ramp-up, the iterations made and those the loop has still ahead (`rest`) are all its iterations; past it, the samples are the
  end of the ramp-up and a whole number of batches. The checkpoint is on it too, so a restart comes back to it. `RampExists` is the
  induction that shows the recursive `rest` to be defined and to have its equation; `ScheduleStarts`,
  `ScheduleGoesOn` and `ScheduleEnds` are its first, next and last step. The count is a multiple of a round of *every* layout of the job,
  since the next start may have another;
- `LoadersInv`: a sampler that counts is ahead by what its loader has given to the step; one that does not has rounds left for all the data that is
  not consumed. `PassGiven` says that a pass of each of the three kinds consists of microbatches of the data, and that one in random order
  that is begun at such a count is not empty (for a strided one this is where the data must divide into rounds). So every `next()`
  finds a microbatch (`LoaderHas`);
- `DrawnInv`: the history is at least as long as what is trained and saved.

TLC checked `TrainItersExact` on the jobs of `data_feed` before the proof.

### The dataset indices and their cache

`Dataset_proofs`, for every corpus (`IsCorpus`, `IsIndexed`: documents of any lengths, empty ones included, in any order over any
number of epochs) and every blend (`IsBlend`):

- `LastEpochAsserts`: the assertions of `_build_index_mappings` about the samples of a last epoch that is cut off hold;
- `SamplesStart`, `SamplesGoOn`, `SamplesEnd`, `BuilderInBounds`, `SamplesEnough`: steps of `build_sample_idx` keep `BuildInv`, which
  relates where the builder is in `doc_idx` to the tokens before it and to the samples that are cut; while samples are missing, the builder is at
  an entry; there are at least as many samples as asked for;
- `BlendStarts`, `BlendGrows`, `DrawnExists`, `BlendLargeEnough`: all drawn samples add up to the number drawn, so some corpus is not ahead of its
  share (`SomeBehind`); the one drawn from has the largest error and is not ahead either (`LargestDrawn`). The sample drawn is therefore numbered
  at most the share its corpus has of all drawn before, and half a percent more than a share, rounded up, is beyond that.

And for every number of ranks and launches, the assumptions being `RanksAssumption` and `JobsAssumption`:
`EveryBlendedSampleExists` and `EverySampleReadOnce` (the properties `BlendedSamplesExist` and `EverySampleOnce` of the run),
`TrainedOnTiles` and `BuilderStaysInBounds`.
The invariant `IInv` says who may be where (`PlaceInv`: only rank 0 writes, and file 3 only after building), how far
what is built is (`BuiltInv`), and that whole files on the disk (`DiskInv`) and loaded indices (`LoadedInv`) were built to the end. It needs
`DiskInv` since what a rank loads may come from any earlier launch.

`EverySampleReadOnce` joins three facts: the sample index that was loaded tiles the stream (`TrainedOnTiles`), the two orders that were
loaded are those of the corpus (`OrdersGiven`, kept by the same steps), and through such an index sample i is a part of the stream
(`SampleOfStream`). The last one compares two flattened sequences, the pieces of a sample and all documents. `Flattened` says where
`FlattenSeq` puts each element, from the sums of the lengths: its recursive function exists (`Concatenation`) and has every element in place, both by
induction over the number of sequences. `PieceFacts` and `PiecesLaid` say that the pieces between two places of the index have the
lengths their places in the stream give them, also when a sample ends with a document, runs over several, or begins in an empty one.

### Random states and recomputation

`TensorParallel_proofs`, for every job with `ConfigsAssumption`: any number of layers, microbatches and iterations, every way to recompute, every
order of the passes, any number of restarts. `TypeCorrect`, `MasksAlwaysIndependent`, and `RefinesDropoutMasks`,
which is the whole refinement: `DropoutMasks` has no fairness.

The random numbers are deterministic, so the invariant `IInv` is a closed form. Where every generator is follows from the number of forward passes: `Base`
between passes, `InLayers` behind the embedding and the fork, `After` k layers from there. So do the masks
(`EmbeddingMasks`, `LayerMasks`, `PassMasks`). The invariant says of the number n of forward passes, b of backward passes and
the unit u of the pass under way:

- the generators are those of n and, in a forward pass, u; with sequence parallelism `fork` is the default generator of n;
- the masks drawn so far are those before u, or in a backward pass those from u on of pass b;
- `graph` is what passes b + 1 to n have left (`Outstanding`): for every unit the generators it began with and what autograd keeps of it;
- `drawn` and `applied` are the masks of the first passes, and a checkpoint has the generators of its iteration.

The numbers are bound by an existential quantifier, so that every state function in the invariant has constant arguments; `NextAt` is
what a step has to show, and `SameJob` that these functions depend on `args` alone. A layer is computed once, with its forks (`LayerRun`), any number of layers by
induction (`LayersRun`), and `UnitAgain` is the fact about recomputation: what was kept and what is drawn again with the generators kept
are the masks of the unit. Independence of the masks is then arithmetic: each pass makes `CudaDraws` and `TrackerDraws` draws, a mask's
place in them (`CudaPlace`, `TrackerPlace`) is its own, and the seeds of one replica differ (`Seeds`).

TLC checked `IInv` on the configurations of the run `recomputation`, with the values of its bound numbers given, before the proof.

### Tensor parallelism

`TensorParallel_proofs` also has `TensorParallelTypeCorrect` and `GradientsAlwaysComplete`, the invariants `TPTypeOK` and
`GradientsComplete` of the run `tensor_parallel`, for every group size, sequence length and number of layers, each of the three ways to
communicate, each of the three programs, with and without DeepSpeed and learned positions, and tables of any length. The assumption is `ModelsAssumption`: what `validate_args` lets through.
The definitions of `TensorParallel` have names of their own (`TPInit`, `TPSpec`, `model` for the arguments) since this module extends it and `Recomputation`.

Ranks run by themselves between collectives, and a collective only asks that all have launched one of its kind. That they have launched
the *same* one is what has to be shown. The invariant `TPInv` relates each rank to its place alone, and the ranks by one number:

- `Place`, `Calls`: which label goes with which block, and the collective `KindAt` a rank has launched there, if it is not over;
- `Clock`: how many collectives are over for a rank, a function of label, block and whether the one launched is over. It is the same
  for all ranks, since a step of one rank does not change it (`RankStep`) and a collective adds one to all (`CollectiveStep`). Two ranks with a
  collective launched after the same number of others have launched the same kind (`SameKind`), so kinds match: the last conjunct of `TPTypeOK`;
- `Values`: the tensors, and how often each token is in each gradient, as functions of the place. Hidden states are complete for the rank's `Part`
  of the sequence; the buffer has all of the sequence exactly while it is needed (`Gotten`), although every layer overwrites it; what is
  given to a collective is the rank's share of it (`Given`). `Accumulates` says which gradients a rank has got so far;
- `CutValues`, for a batch that is cut twice: only the lengths of the tensors and what is given to collectives, up to the loss that is not computed.

The values speak of single ranks, so a collective has to be computed: `ReducedShares`, `GatheredSlices` and the other lemmas about `Reduced`,
`Gathered` and `Split` show that adding the shares of all ranks makes each entry complete, by induction over the group, and that the slices of
the ranks make up the sequence. `CoalescedFacts` is what the code relies on in `allreduce_layernorm_grads`: the coalesced parameters are exactly the
replicated ones, in an order that depends on nothing but the model. Their list is a recursive function of the blocks, by induction
`Upto`. If the reduction is not called, `DoneGradients` follows from `Accumulates` alone: a rank has its own tokens in those gradients.

The second way to fail, learned positions with a batch that is whole, was found by the proof: `EmbeddingForward` did not keep the invariant without it.

### Only model-checked

`Termination`, `Stops`, `RanksEndAlike` and the fairness parts of the refinements: the prover does not treat liveness under fairness or
`ENABLED`. `KillSwitchExits`, `TrackerNamesCheckpoint` and the other properties the code violates.
Of `DataFeed` the refinement of `SampleStream`, which counts the uses of each sample over the epochs. No invariant of a passing run is only model-checked.

## Plan

Done: the three pipeline schedules, checkpointing and the training loop, the optimizer step, data loading from the index
files to the microbatches, tensor parallelism, random states and recomputation, with their checks; the proofs about the three schedules, about
groups, shards and slices, about the accounting of samples, about loss scalers and the optimizers' steps, about the dataset indices and their cache, about training and checkpoints, about random states and recomputation, and about tensor parallelism.

Left, in this order:

1. A proof that `DataFeed` implements the safety of `SampleStream`.
2. `--finetune` and `--reset-iteration` in `Checkpoint`: a job that begins on the checkpoint of another, in another directory
   (`checkpointing.py:638` overwrites the iteration that was reset, with the distributed optimizer).

## Not modelled

- Learning-rate scheduler: real-valued curves; its step counter is part of a checkpoint in `Checkpoint`.
- Fused kernels, the arithmetic of layers and of Adam: numerics.
- Tokenizers, indexed-dataset formats, preprocessing, logging, timers: input, output and wording.
- Arguments and initialization: parsing; the checks a model relies on are assumptions of its constants.
- Text generation: scoring, beam search and generation over several stages use the tuple that `GPTModel.forward` returns as if it were a
  tensor, so only generation on one stage can run, and there is no protocol to check.
- Retrieval, biencoder and vision models, tasks: research code on the same training loop.
- `p2p_communication.py` at the top of `megatron/`: an older copy of the one modelled.
- DeepSpeed's engine, its ZeRO optimizers and its checkpoint format are another repository's; with `args.deepspeed` the training loop
  hands them the step and the save. Only the zero-bubble engine, which is code of this repository, is modelled.
- Most of the repository by size is of these kinds: layers, vision models, argument parsing and tools have little control in them. The
  models cover what ranks, stages and restarts can get wrong.
