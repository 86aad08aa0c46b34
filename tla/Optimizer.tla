------------------------------ MODULE Optimizer ------------------------------
(***************************************************************************)
(* One training step after another, from zero_grad_buffer to               *)
(* gather_model_params (train_step in megatron/training.py), with either   *)
(* optimizer of megatron/optimizer/: Float16OptimizerWithFloat16Params,    *)
(* which replicates its state over data-parallel ranks, and                *)
(* DistributedOptimizer, which shards it by slices of the gradient buffer  *)
(* that cut through parameters, and sends updated parameters through the   *)
(* same buffer.                                                            *)
(*                                                                         *)
(* A rank is its data-parallel rank and its position in the model, a       *)
(* pipeline stage or a tensor-parallel rank.  Two positions hold copies of *)
(* one parameter: the word embeddings of the first and the last stage, or  *)
(* a layer norm under sequence parallelism.  A gradient is known by the    *)
(* element of a parameter it is for and the ranks whose passes are in it,  *)
(* a parameter element by the number of steps applied to it.               *)
(*                                                                         *)
(* A collective is one action of its group, enabled when every member has  *)
(* come to it.                                                             *)
(***************************************************************************)
EXTENDS LossScaler, ShardRanges, ParallelGroups, FiniteSetsExt

CONSTANTS Configs,      \* the configurations of a run
          MaxSteps,     \* bound: training steps
          MaxRestarts   \* bound: restarts

Positions == {0, 1}
Last == 1     \* the last pipeline stage

\* dp_sizes: the numbers of data-parallel replicas a launch may have.
\* distributed: use_distributed_optimizer.  dynamic: the scaler is a
\* DynamicGradScaler, not a ConstantGradScaler.  shared: the all-reduce
\* that keeps the copies of the shared parameter alike; "embedding" for
\* pipeline stages, "layernorm" for tensor-parallel ranks.
\* names[m]: the parameters of position m in the order of the model, which
\* has each of them once; size: their elements.  overflow: the rank and
\* the parameter whose gradient may be infinite.
ASSUME ConfigsAssumption == \A c \in Configs :
  /\ c.dp_sizes # {} /\ c.dp_sizes \subseteq Nat \ {0}
  /\ c.distributed \in BOOLEAN /\ c.dynamic \in BOOLEAN
  /\ c.shared \in {"embedding", "layernorm"}
  /\ \A m \in Positions :
       /\ c.names[m] \in Seq(DOMAIN c.size) /\ c.names[m] # <<>>
       /\ \A j, k \in DOMAIN c.names[m] : c.names[m][j] = c.names[m][k] => j = k
       /\ \A k \in DOMAIN c.names[m] : c.size[c.names[m][k]] \in Nat \ {0}

ASSUME BoundsAssumption == MaxSteps \in Nat /\ MaxRestarts \in Nat

VARIABLES
  config,       \* the same on every rank
  dp,           \* data-parallel size of this launch
  pc,           \* pc[r]: what rank r does next
  buffer,       \* buffer[r]: the gradient buffer, parameter buffer included
  params,       \* params[r]: the model's parameters, by element
  main_params,  \* main_params[r]: the optimizer's, those it owns
  main_grads,   \* main_grads[r]: the gradients of main_params
  scaler,       \* scaler[r]: the loss scaler
  results,      \* results[r]: update_successful of every step
  disk,         \* the last checkpoint
  restarts

vars == <<config, dp, pc, buffer, params, main_params, main_grads, scaler, results,
          disk, restarts>>

RanksOf(n) == (0 .. n-1) \X Positions
Ranks == RanksOf(dp)

\* The arguments of initialize_model_parallel for n replicas.
Sizes(c, n) ==
  [world |-> n * Cardinality(Positions), sequence |-> 1,
   tensor |-> IF c.shared = "layernorm" THEN Cardinality(Positions) ELSE 1,
   pipeline |-> IF c.shared = "embedding" THEN Cardinality(Positions) ELSE 1]

\* The ranks in torch.distributed's group `ranks`.
Group(s, ranks) ==
  {<<DataParallelRank(s, g), IF s.pipeline > 1 THEN PipelineRank(s, g) ELSE TensorParallelRank(s, g)>> :
     g \in Members(ranks)}

\* The data-parallel group of each position; the model-parallel group of
\* each replica and the group that shares a parameter in it.
Groups ==
  [c \in Configs |-> [n \in c.dp_sizes |->
     LET s == Sizes(c, n)
     IN [data |-> [m \in Positions |-> Group(s, DataParallelGroups(s)[m + 1])],
         model |-> [d \in 0 .. n-1 |-> Group(s, ModelParallelGroups(s)[d + 1])],
         shared |-> [d \in 0 .. n-1 |->
            Group(s, IF c.shared = "embedding"
                     THEN EmbeddingRanks(PipelineGroups(s)[d + 1], NoSplit)
                     ELSE TensorParallelGroups(s)[d + 1])]]]]
DataParallel(m) == Groups[config][dp].data[m]
Replica(d) == Groups[config][dp].model[d]
Sharing(d) == Groups[config][dp].shared[d]

-----------------------------------------------------------------------------
\* What the constructors compute from the model c and the number n of
\* replicas.  The layout of the buffer: parameters from its end, in the
\* order of the model ("assume the back prop order is reverse the params
\* order").

Names(c, m) == {c.names[m][k] : k \in DOMAIN c.names[m]}

\* The elements of the parameters after the k-th of position m.
After(c, m) ==
  LET names == c.names[m]
      rest[k \in 0 .. Len(names)] ==
        IF k = Len(names) THEN 0 ELSE rest[k + 1] + c.size[names[k + 1]]
  IN rest
Numel(c, m) == After(c, m)[0]

\* _grad_buffer_param_index_map
Index(c, m, name) ==
  LET k == CHOOSE k \in DOMAIN c.names[m] : c.names[m][k] = name
  IN Span(After(c, m)[k], After(c, m)[k] + c.size[name])

\* An element of a parameter is its name and its number.
ElementsOf(c, m) == UNION {{name} \X (0 .. c.size[name] - 1) : name \in Names(c, m)}
Layout == [c \in Configs |-> [m \in Positions |-> [e \in ElementsOf(c, m) |->
             Index(c, m, e[1]).start + e[2]]]]

\* Which elements the optimizer of rank r owns: with the distributed
\* optimizer those in its slice.
OwnedBy(c, n, r) ==
  {e \in ElementsOf(c, r[2]) :
     LET index == Index(c, r[2], e[1])
         world == WorldRange(Numel(c, r[2]), n, r[1])
     IN c.distributed => Owns(index, world) /\ e[2] \in In(SubParam(index, world))}

\* Where in a range of rank r that stands for it an owned element lies:
\* GbufWorld for the parameter buffer, LocalRange for the rank's own slice.
PlaceIn(c, n, r, e, range(_, _)) ==
  LET index == Index(c, r[2], e[1])
      world == WorldRange(Numel(c, r[2]), n, r[1])
  IN range(index, world).start + e[2] - SubParam(index, world).start

\* param_range_map of every rank: for each owned element its cell in the
\* parameter buffer and in the slice.
RangeMap ==
  [c \in Configs |-> [n \in c.dp_sizes |-> [r \in RanksOf(n) |-> [e \in OwnedBy(c, n, r) |->
     IF c.distributed THEN [gbuf_world |-> PlaceIn(c, n, r, e, GbufWorld),
                            gbuf_local |-> PlaceIn(c, n, r, e, LocalRange)]
     ELSE [gbuf_world |-> Layout[c][r[2]][e], gbuf_local |-> 0]]]]]

Shard(m, n) == ShardSize(Numel(config, m), n)
CellsOf(m, n) == 0 .. NumelPadded(Numel(config, m), n) - 1
Cells(m) == CellsOf(m, dp)
Elements(m) == DOMAIN Layout[config][m]
CellOf(m, e) == Layout[config][m][e]
Owned(r) == DOMAIN RangeMap[config][dp][r]
OwnedCell(r, e) == RangeMap[config][dp][r][e].gbuf_world

-----------------------------------------------------------------------------
\* What a cell of the buffer may hold.

Zero == [kind |-> "zero"]
Garbage == [kind |-> "garbage"]
Wrong == -1
Value(e, n) == [kind |-> "param", of |-> e, steps |-> n]
Grad(e, from, scale, inf) ==
  [kind |-> "grad", of |-> e, from |-> from, divided |-> 0, scale |-> scale, inf |-> inf]

\* Gradients of one element add up, when they have been divided and scaled
\* alike and no pass is counted twice.
Add(a, b) ==
  IF a = Zero THEN b
  ELSE IF b = Zero THEN a
  ELSE IF /\ a.kind = "grad" /\ b.kind = "grad"
          /\ a.of = b.of /\ a.divided = b.divided /\ a.scale = b.scale
          /\ a.from \cap b.from = {}
  THEN [kind |-> "grad", of |-> a.of, from |-> a.from \cup b.from,
        divided |-> a.divided, scale |-> a.scale, inf |-> a.inf \/ b.inf]
  ELSE Garbage

\* buffer.data /= data_parallel_world_size
Divided(cell) ==
  CASE cell.kind = "grad" -> [cell EXCEPT !.divided = @ + 1]
    [] cell.kind = "zero" -> Zero
    [] OTHER -> Garbage

Sum(cells) ==
  MapThenFoldSet(Add, Zero, LAMBDA x : cells[x], LAMBDA T : CHOOSE t \in T : TRUE, DOMAIN cells)

-----------------------------------------------------------------------------
\* train_step

\* Mutant: reduce-scatter first, as the plain optimizer does.
ReductionsGradsFirst(m) ==
  IF config.distributed THEN <<"scatter", config.shared>>
  ELSE IF config.shared = "layernorm" THEN <<"layernorm", "allreduce">>
  ELSE <<"allreduce", "embedding">>

\* reduce_model_grads: the order of the reductions.
Reductions(m) ==
  IF config.distributed THEN <<config.shared, "scatter">>
  ELSE IF config.shared = "layernorm" THEN <<"layernorm", "allreduce">>
  ELSE <<"allreduce", "embedding">>

AfterReduction(m, p) == IF p = Reductions(m)[1] THEN Reductions(m)[2] ELSE "unscale"

Goto(R, p) == pc' = [r \in Ranks |-> IF r \in R THEN p ELSE pc[r]]
GotoAfter(R, p) ==
  pc' = [r \in Ranks |-> IF r \in R THEN AfterReduction(r[2], p) ELSE pc[r]]
At(R, p) == \A r \in R : pc[r] = p

\* zero_grad_buffer
ZeroGradBuffer(r) == [j \in Cells(r[2]) |-> Zero]

\* The scale of the loss: the last stage computes it.
LossScale(r) ==
  scaler[IF config.shared = "embedding" THEN <<r[1], Last>> ELSE r].scale

\* Zero the buffer and run the schedule: every parameter's gradient is
\* added to its place in the buffer.
ForwardBackward(r, inf) ==
  /\ pc[r] = "train" /\ Len(results[r]) < MaxSteps
  /\ inf => config.overflow.dp = r[1] /\ config.overflow.position = r[2]
  /\ buffer' = [buffer EXCEPT ![r] =
       LET zeroed == ZeroGradBuffer(r)
           grad(e) == Grad(e, {r}, LossScale(r), inf /\ config.overflow.name = e[1])
       IN [j \in Cells(r[2]) |->
             Add(zeroed[j], Sum([e \in {e \in Elements(r[2]) : CellOf(r[2], e) = j} |-> grad(e)]))]]
  /\ Goto({r}, Reductions(r[2])[1])
  /\ UNCHANGED <<config, dp, params, main_params, main_grads, scaler, results, disk, restarts>>

\* allreduce_word_embedding_grads, or allreduce_layernorm_grads: over the
\* positions that hold a copy of the shared parameter.
SharedNames == Names(config, 0) \cap Names(config, Last)

AllreduceShared(d) ==
  /\ At(Sharing(d), config.shared)
  /\ buffer' = [r \in Ranks |->
       IF r \notin Sharing(d) THEN buffer[r]
       ELSE [j \in Cells(r[2]) |->
              LET of == {e \in Elements(r[2]) : e[1] \in SharedNames /\ CellOf(r[2], e) = j}
              IN IF of = {} THEN buffer[r][j]
                 ELSE LET e == CHOOSE e \in of : TRUE
                      IN Sum([q \in Sharing(d) |-> buffer[q][CellOf(q[2], e)]])]]
  /\ GotoAfter(Sharing(d), config.shared)
  /\ UNCHANGED <<config, dp, params, main_params, main_grads, scaler, results, disk, restarts>>

ReducedCell(m, j) == Sum([r \in DataParallel(m) |-> Divided(buffer[r][j])])

\* allreduce_gradients of the local DistributedDataParallel.
AllreduceGradients(m) ==
  /\ At(DataParallel(m), "allreduce")
  /\ buffer' = [r \in Ranks |->
       IF r \notin DataParallel(m) THEN buffer[r] ELSE [j \in Cells(m) |-> ReducedCell(m, j)]]
  /\ GotoAfter(DataParallel(m), "allreduce")
  /\ UNCHANGED <<config, dp, params, main_params, main_grads, scaler, results, disk, restarts>>

\* get_model_buffer_dp_views: the view of data-parallel rank d.
ViewOf(m, j) == j \div (NumelPadded(Numel(config, m), dp) \div dp)

\* The reduce-scatter: every rank has the sums in its own view, and what
\* it had, divided, in the others.
ReduceScatter(m) ==
  /\ At(DataParallel(m), "scatter")
  /\ buffer' = [r \in Ranks |->
       IF r \notin DataParallel(m) THEN buffer[r]
       ELSE [j \in Cells(m) |->
              IF ViewOf(m, j) = r[1] THEN ReducedCell(m, j) ELSE Divided(buffer[r][j])]]
  /\ GotoAfter(DataParallel(m), "scatter")
  /\ UNCHANGED <<config, dp, params, main_params, main_grads, scaler, results, disk, restarts>>

\* _copy_model_grads_to_main_grads, and the unscaling of
\* _unscale_main_grads_and_check_for_nan.
Unscaled(r, cell) ==
  IF cell.kind = "grad" THEN [cell EXCEPT !.scale = @ - scaler[r].scale] ELSE cell

Unscale(r) ==
  /\ pc[r] = "unscale"
  /\ main_grads' = [main_grads EXCEPT ![r] =
       [e \in Owned(r) |-> Unscaled(r, buffer[r][CellOf(r[2], e)])]]
  /\ Goto({r}, "found_inf")
  /\ UNCHANGED <<config, dp, buffer, params, main_params, scaler, results, disk, restarts>>

\* Mutant: the distributed optimizer does not override it.
ModelParallelGroupPlain(r) == Replica(r[1])
\* get_model_parallel_group: "the entire world" with the distributed
\* optimizer.
ModelParallelGroup(r) == IF config.distributed THEN Ranks ELSE Replica(r[1])

IsInf(r) == \E e \in DOMAIN main_grads[r] :
  main_grads[r][e].kind = "grad" /\ main_grads[r][e].inf

\* The all-reduce of found_inf, the update of the scalers and the early
\* return when the step is skipped.
FoundInf(G) ==
  LET found_inf == \E r \in G : IsInf(r)
  IN /\ At(G, "found_inf")
     /\ scaler' = [r \in Ranks |->
          IF r \in G /\ config.dynamic THEN Update(scaler[r], found_inf) ELSE scaler[r]]
     /\ Goto(G, IF found_inf THEN "train" ELSE "clip")
     /\ results' = [r \in Ranks |->
          IF r \in G /\ found_inf THEN Append(results[r], FALSE) ELSE results[r]]
     /\ UNCHANGED <<config, dp, buffer, params, main_params, main_grads, disk, restarts>>

\* get_main_grads_for_grad_norm: the embedding of the last stage is marked
\* `shared`, and what is not sharded counts on tensor-parallel rank 0.
InNorm(r, e) == e[1] \in SharedNames => r[2] = 0

\* clip_grad_norm_fp32: the norm summed over group G is that of the
\* gradients of the model when every element is counted once.
NormOfModel(G) ==
  \A e \in Elements(0) \cup Elements(Last) :
    Cardinality({r \in G : e \in Owned(r) /\ InNorm(r, e)}) = 1

\* The gradient of the whole batch.
Contributors(e) == {r \in Ranks : e \in Elements(r[2])}
BatchGradient(e) == [Grad(e, Contributors(e), 0, FALSE) EXCEPT !.divided = 1]

\* The optimizer's step on one element.
Updated(r, e, norm_ok) ==
  LET v == main_params[r][e]
  IN Value(e, IF norm_ok /\ main_grads[r][e] = BatchGradient(e) /\ v.of = e /\ v.steps # Wrong
              THEN v.steps + 1 ELSE Wrong)

\* Clip, step, and copy the main parameters: to the model's parameters, or
\* to the parameter buffer, which is the gradient buffer.
ClipAndStep(G) ==
  LET norm_ok == NormOfModel(G)
      updated(r) == [e \in Owned(r) |-> Updated(r, e, norm_ok)]
  IN /\ At(G, "clip")
     /\ main_params' = [r \in Ranks |-> IF r \in G THEN updated(r) ELSE main_params[r]]
     /\ IF config.distributed
        THEN /\ buffer' = [r \in Ranks |->
                  IF r \notin G THEN buffer[r]
                  ELSE [j \in Cells(r[2]) |->
                    LET of == {e \in Owned(r) : OwnedCell(r, e) = j}
                    IN IF of = {} THEN buffer[r][j]
                       ELSE updated(r)[CHOOSE e \in of : TRUE]]]
             /\ Goto(G, "gather")
             /\ UNCHANGED <<params, results>>
        ELSE /\ params' = [r \in Ranks |-> IF r \in G THEN updated(r) ELSE params[r]]
             /\ results' = [r \in Ranks |->
                  IF r \in G THEN Append(results[r], TRUE) ELSE results[r]]
             /\ Goto(G, "train")
             /\ UNCHANGED buffer
     /\ UNCHANGED <<config, dp, main_grads, scaler, disk, restarts>>

\* gather_model_params: all-gather the views of the parameter buffer and
\* copy it to the parameters.
AllGather(m) ==
  LET gathered == [j \in Cells(m) |-> buffer[<<ViewOf(m, j), m>>][j]]
  IN /\ At(DataParallel(m), "gather")
     /\ buffer' = [r \in Ranks |-> IF r \in DataParallel(m) THEN gathered ELSE buffer[r]]
     /\ params' = [r \in Ranks |->
          IF r \in DataParallel(m) THEN [e \in Elements(m) |-> gathered[CellOf(m, e)]] ELSE params[r]]
     /\ results' = [r \in Ranks |->
          IF r \in DataParallel(m) THEN Append(results[r], TRUE) ELSE results[r]]
     /\ Goto(DataParallel(m), "train")
     /\ UNCHANGED <<config, dp, main_params, main_grads, scaler, disk, restarts>>

-----------------------------------------------------------------------------
\* Checkpoints.

NoCheckpoint == [results |-> <<>>]

\* save_parameter_state: the contiguous shard of rank r.  What no
\* parameter covers is uninitialized.
LocalShard(r) ==
  [k \in 0 .. Shard(r[2], dp) - 1 |->
     LET of == {e \in Owned(r) : RangeMap[config][dp][r][e].gbuf_local = k}
     IN IF of = {} THEN Garbage ELSE main_params[r][CHOOSE e \in of : TRUE]]

\* ... gathered on data-parallel rank 0 and concatenated.
WorldTensor(m) ==
  LET local == Shard(m, dp)
  IN [j \in Cells(m) |-> LocalShard(<<j \div local, m>>)[j % local]]

\* All ranks save after the same step.
Save ==
  /\ At(Ranks, "train")
  /\ \A r, q \in Ranks : results[r] = results[q]
  /\ results[<<0, 0>>] # disk.results
  /\ disk' = [results |-> results[<<0, 0>>],
              params |-> [m \in Positions |-> params[<<0, m>>]],
              scaler |-> [m \in Positions |-> scaler[<<0, m>>]],
              main |-> [m \in Positions |->
                 IF config.distributed THEN WorldTensor(m) ELSE main_params[<<0, m>>]]]
  /\ UNCHANGED <<config, dp, pc, buffer, params, main_params, main_grads, scaler, results,
                 restarts>>

\* load_parameter_state: what rank r of n reads for an element, through
\* the slice of the file scattered to it.
Loaded(r, n, e) ==
  IF config.distributed
  THEN disk.main[r[2]][r[1] * Shard(r[2], n) + RangeMap[config][n][r][e].gbuf_local]
  ELSE disk.main[r[2]][e]

\* A launch from the checkpoint, whatever the job was doing, with any
\* number of replicas for which the slices of the file can be scattered.
Restart(n) ==
  /\ restarts < MaxRestarts
  /\ disk # NoCheckpoint
  /\ config.distributed =>
       \A m \in Positions : CellsOf(m, n) \subseteq DOMAIN disk.main[m]
  /\ dp' = n
  /\ pc' = [r \in RanksOf(n) |-> "train"]
  /\ buffer' = [r \in RanksOf(n) |-> [j \in CellsOf(r[2], n) |-> Zero]]
  /\ params' = [r \in RanksOf(n) |-> disk.params[r[2]]]
  /\ main_params' = [r \in RanksOf(n) |->
       [e \in DOMAIN RangeMap[config][n][r] |-> Loaded(r, n, e)]]
  /\ main_grads' = [r \in RanksOf(n) |-> <<>>]
  /\ scaler' = [r \in RanksOf(n) |-> disk.scaler[r[2]]]
  /\ results' = [r \in RanksOf(n) |-> disk.results]
  /\ restarts' = restarts + 1
  /\ UNCHANGED <<config, disk>>

Init ==
  /\ config \in Configs
  /\ dp \in config.dp_sizes
  /\ pc = [r \in Ranks |-> "train"]
  /\ buffer = [r \in Ranks |-> [j \in Cells(r[2]) |-> Zero]]
  /\ params = [r \in Ranks |-> [e \in Elements(r[2]) |-> Value(e, 0)]]
  /\ main_params = [r \in Ranks |-> [e \in Owned(r) |-> Value(e, 0)]]
  /\ main_grads = [r \in Ranks |-> <<>>]
  /\ scaler = [r \in Ranks |-> NewScaler]
  /\ results = [r \in Ranks |-> <<>>]
  /\ disk = NoCheckpoint
  /\ restarts = 0

Step ==
  \/ \E r \in Ranks : Unscale(r) \/ \E inf \in BOOLEAN : ForwardBackward(r, inf)
  \/ \E d \in 0 .. dp-1 : AllreduceShared(d)
  \/ \E m \in Positions : AllreduceGradients(m) \/ ReduceScatter(m) \/ AllGather(m)
  \/ \E r \in Ranks : LET G == ModelParallelGroup(r) IN FoundInf(G) \/ ClipAndStep(G)

Trained == (\A r \in Ranks : pc[r] = "train" /\ Len(results[r]) = MaxSteps) /\ UNCHANGED vars

Next == Step \/ Save \/ (\E n \in config.dp_sizes : Restart(n)) \/ Trained

\* Every rank runs on its own device and the collectives complete.
Fairness == WF_vars(Step)

Spec == Init /\ [][Next]_vars /\ Fairness

-----------------------------------------------------------------------------
\* The types of the variables.  What an optimizer owns, over the ranks of
\* a data-parallel group, is every element of the model, once when it is
\* distributed.
TypeOK ==
  /\ config \in Configs /\ dp \in config.dp_sizes
  /\ pc \in [Ranks -> {"train", "layernorm", "embedding", "allreduce", "scatter",
                       "unscale", "found_inf", "clip", "gather"}]
  /\ DOMAIN buffer = Ranks /\ \A r \in Ranks : DOMAIN buffer[r] = Cells(r[2])
  /\ DOMAIN params = Ranks /\ \A r \in Ranks : DOMAIN params[r] = Elements(r[2])
  /\ DOMAIN main_params = Ranks
  /\ \A r \in Ranks : \A e \in DOMAIN main_params[r] :
       main_params[r][e] \in {Value(e, n) : n \in 0 .. MaxSteps}
  /\ \A m \in Positions : \A e \in Elements(m) :
       LET owners == {r \in DataParallel(m) : e \in DOMAIN main_params[r]}
       IN IF config.distributed THEN Cardinality(owners) = 1 ELSE owners = DataParallel(m)
  /\ scaler \in [Ranks -> [scale : Int, growth : 0 .. GrowthInterval - 1, hysteresis : Int]]
  /\ results \in [Ranks -> Seq(BOOLEAN)]
  /\ restarts \in 0 .. MaxRestarts

\* The loss scaler of every rank is the one the comments of update()
\* describe, after the steps the rank has seen, restarts included.
ScalerFollowsHistory ==
  \A r \in Ranks : pc[r] = "train" =>
    scaler[r] = (IF config.dynamic THEN ScalerAfter(results[r]) ELSE NewScaler)

\* Every launch ends with all steps done: no rank waits for one that went
\* on to the next step.
Termination == <>[](\A r \in Ranks : pc[r] = "train" /\ Len(results[r]) = MaxSteps)

\* Both optimizers are one optimizer for the whole world.
Longest == CHOOSE h \in {results[r] : r \in Ranks} :
             \A r \in Ranks : Len(results[r]) <= Len(h)
StepsApplied(r) ==
  IF \E n \in 0 .. MaxSteps : params[r] = [e \in Elements(r[2]) |-> Value(e, n)]
  THEN params[r][CHOOSE e \in Elements(r[2]) : TRUE].steps ELSE Wrong

Synchronous == INSTANCE SynchronousOptimizer WITH
  Worlds <- {RanksOf(n) : n \in UNION {c.dp_sizes : c \in Configs}},
  decisions <- Longest,
  done <- [r \in Ranks |-> Len(results[r])],
  parameters <- [r \in Ranks |-> StepsApplied(r)],
  saved <- Len(disk.results)

ImplementsSynchronous == Synchronous!Spec
=============================================================================
