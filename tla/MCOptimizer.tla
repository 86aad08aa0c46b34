----------------------------- MODULE MCOptimizer -----------------------------
EXTENDS Optimizer

\* Word embeddings and one more parameter on the first stage, one
\* parameter and the embeddings on the last: the shared parameter lies in
\* different places of the two buffers, and slices cut through parameters.
Embedding == [distributed |-> TRUE, dp_sizes |-> {2, 3}, shared |-> "embedding",
              names |-> <<<<"emb", "w0">>, <<"w1", "emb">>>>]
\* Two tensor-parallel ranks; of three slices one is empty.
LayerNorm == [distributed |-> TRUE, dp_sizes |-> {3}, shared |-> "layernorm",
              names |-> <<<<"w0", "ln">>, <<"w1", "ln">>>>]
Replicated(kind) == [kind EXCEPT !.distributed = FALSE, !.dp_sizes = {2}]

MCConfigs ==
  {[dp_sizes |-> k.dp_sizes, distributed |-> k.distributed, dynamic |-> k # Replicated(LayerNorm), shared |-> k.shared,
    names |-> [m \in {0, 1} |-> k.names[m + 1]],
    size |-> [emb |-> 2, w0 |-> 3, w1 |-> 3, ln |-> 1],
    overflow |-> [dp |-> 0, position |-> 1, name |-> "w1"]] :
     k \in {Embedding, LayerNorm, Replicated(Embedding), Replicated(LayerNorm)}}
=============================================================================
