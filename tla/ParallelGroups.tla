---------------------------- MODULE ParallelGroups ----------------------------
(***************************************************************************)
(* The process groups of megatron/core/parallel_state.py: which ranks      *)
(* initialize_model_parallel puts into the data-, tensor-, pipeline- and   *)
(* model-parallel groups and into the groups of the embeddings, and what a *)
(* rank finds out about itself from them.  A group is the list of its      *)
(* ranks; sizes are the arguments of initialize_model_parallel and the     *)
(* size of the world.                                                      *)
(***************************************************************************)
EXTENDS Integers, Sequences

\* What initialize_model_parallel accepts.
Accepted(s) ==
  /\ s.world % (s.tensor * s.pipeline) = 0
  /\ s.sequence > 1 => s.tensor = 1 /\ s.pipeline = 1 /\ s.world % s.sequence = 0

\* list(range(start, end, step))
Every(step, start, end) ==
  [k \in 1 .. (end - start + step - 1) \div step |-> start + (k - 1) * step]
Members(group) == {group[k] : k \in DOMAIN group}

DataParallelSize(s) == s.world \div (s.tensor * s.pipeline * s.sequence)
\* num_pipeline_model_parallel_groups: the ranks of a pipeline stage.
PerStage(s) == s.world \div s.pipeline
\* tp_or_sp_size: the ranks that share a batch.
PerBatch(s) == IF s.sequence > 1 THEN s.sequence ELSE s.tensor

\* The data-parallel group of the j-th ranks of the batches of stage i.
DataParallelGroup(s, i, j) ==
  Every(PerBatch(s), i * PerStage(s) + j, (i + 1) * PerStage(s))
\* all_data_parallel_group_ranks
DataParallelGroups(s) ==
  [n \in 1 .. s.pipeline * PerBatch(s) |->
     DataParallelGroup(s, (n - 1) \div PerBatch(s), (n - 1) % PerBatch(s))]

\* The data-parallel groups, or the whole world under DeepSpeed's sequence
\* parallelism.
SequenceDataParallelGroups(s) ==
  IF s.sequence > 1
  THEN LET size == s.sequence * DataParallelSize(s)
       IN [n \in 1 .. (s.world \div s.sequence) \div DataParallelSize(s) |->
             Every(1, (n - 1) * size, n * size)]
  ELSE DataParallelGroups(s)

\* The d-th rank of all of them holds one copy of the model.
ModelParallelGroups(s) ==
  LET groups == SequenceDataParallelGroups(s)
  IN [d \in 1 .. s.sequence * DataParallelSize(s) |-> [n \in DOMAIN groups |-> groups[n][d]]]

TensorParallelGroups(s) ==
  [n \in 1 .. s.world \div s.tensor |-> Every(1, (n - 1) * s.tensor, n * s.tensor)]

PipelineGroups(s) == [n \in 1 .. PerStage(s) |-> Every(PerStage(s), n - 1, s.world)]

\* The stages of a pipeline that hold word embeddings: the first, the last
\* and, with an encoder and a decoder, the first of the decoder.
NoSplit == -1
EmbeddingRanks(ranks, split) ==
  IF Len(ranks) = 1 THEN ranks
  ELSE IF split \in {NoSplit, 0, Len(ranks) - 1} THEN <<ranks[1], ranks[Len(ranks)]>>
  ELSE <<ranks[1], ranks[split + 1], ranks[Len(ranks)]>>

-----------------------------------------------------------------------------
\* What rank r finds out.

GroupOf(groups, r) == groups[CHOOSE n \in DOMAIN groups : r \in Members(groups[n])]
\* get_rank in a group
RankIn(group, r) == (CHOOSE k \in DOMAIN group : group[k] = r) - 1

DataParallelRank(s, r) == RankIn(GroupOf(DataParallelGroups(s), r), r)
TensorParallelRank(s, r) == RankIn(GroupOf(TensorParallelGroups(s), r), r)
PipelineRank(s, r) == RankIn(GroupOf(PipelineGroups(s), r), r)

\* get_pipeline_model_parallel_next_rank and ..._prev_rank
Following(s, r, step) ==
  LET ranks == GroupOf(PipelineGroups(s), r)
  IN ranks[((RankIn(ranks, r) + step) % Len(ranks)) + 1]
NextRank(s, r) == Following(s, r, 1)
PrevRank(s, r) == Following(s, r, -1)
=============================================================================
