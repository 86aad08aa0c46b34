-------------------------- MODULE MCRecomputation --------------------------
\* Instances of Recomputation for TLC.
EXTENDS Recomputation

MCStage(recompute, n) ==
  [data_parallel_size |-> 1, tensor_model_parallel_size |-> 2, pipeline_rank |-> 1,
   data_parallel_random_init |-> FALSE, sequence_parallel |-> FALSE,
   pre_process |-> FALSE, num_layers |-> 2, recompute |-> recompute,
   recompute_num_layers |-> n, num_microbatches |-> 2]

\* Every way to recompute, on a stage with two layers in the middle of the
\* pipeline, with and without sequence parallelism; and stages with the
\* embedding, of two replicas, seeded alike or differently.
MCConfigs ==
  LET stages == {MCStage("none", 1), MCStage("selective", 1), MCStage("uniform", 2),
                 MCStage("uniform", 1), MCStage("block", 1)}
  IN UNION {{c, [c EXCEPT !.sequence_parallel = TRUE],
             [c EXCEPT !.pre_process = TRUE, !.pipeline_rank = 0, !.data_parallel_size = 2],
             [c EXCEPT !.pre_process = TRUE, !.pipeline_rank = 0, !.data_parallel_size = 2,
                       !.data_parallel_random_init = TRUE, !.sequence_parallel = TRUE]}
            : c \in stages}
=============================================================================
