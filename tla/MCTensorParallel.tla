-------------------------- MODULE MCTensorParallel --------------------------
\* Instances of TensorParallel for TLC.
EXTENDS TensorParallel

MCModel(p, n, layers) ==
  [tensor_model_parallel_size |-> p, sequence_parallel |-> FALSE,
   async_tensor_model_parallel_allreduce |-> FALSE, add_position_embedding |-> TRUE,
   pretrain |-> "gpt", deepspeed |-> FALSE, max_position_embeddings |-> n, seq_length |-> n,
   num_layers |-> layers]

\* The same, split along the sequence.
MCSplit(p, n, layers, pretrain, deepspeed) ==
  [MCModel(p, n, layers) EXCEPT !.sequence_parallel = TRUE, !.pretrain = pretrain,
     !.deepspeed = deepspeed, !.add_position_embedding = pretrain # "gpt_pipe"]

\* One, two and three ranks: the input of a layer copied, reduced while the
\* weight gradient is computed, or split along the sequence.  The last five
\* fail: batches cut twice, with a position each, not divisible or with more
\* rows than positions, and positions that are not cut, with fewer rows on a
\* rank than tokens and with as many.
MCModels ==
  UNION {{m, [m EXCEPT !.async_tensor_model_parallel_allreduce = TRUE]} :
           m \in {MCModel(1, 2, 1), MCModel(2, 2, 2), MCModel(3, 2, 1)}}
  \cup {MCSplit(2, 2, 2, "gpt_pipe", TRUE), MCSplit(2, 4, 1, "gpt_core", FALSE),
        MCSplit(3, 3, 1, "gpt_core", FALSE), MCSplit(2, 2, 1, "gpt_core", TRUE)}
  \cup {MCSplit(2, 4, 1, "gpt", FALSE), MCSplit(2, 2, 1, "gpt", TRUE),
        [MCSplit(2, 4, 1, "gpt", FALSE) EXCEPT !.max_position_embeddings = 6]}
  \cup {[MCSplit(2, 2, 1, "gpt_pipe", TRUE) EXCEPT !.add_position_embedding = TRUE,
                                                  !.max_position_embeddings = m] : m \in {2, 4}}
=============================================================================
