--------------------------- MODULE TensorParallel ---------------------------
(***************************************************************************)
(* A forward and a backward pass of a transformer on the ranks of a tensor-*)
(* parallel group: the collectives of megatron/core/tensor_parallel        *)
(* (mappings.py, layers.py, cross_entropy.py) as the layers call them      *)
(* (megatron/model), and the reduction of the gradients of replicated      *)
(* parameters (optimizer.py).                                              *)
(*                                                                         *)
(* A tensor is the sequence of its entries along the first dimension, one  *)
(* per token.  An entry of a hidden state, or of a gradient of one, is a   *)
(* sum of shares: the share of rank r for token t is what r computes with  *)
(* its slice of a weight.  An entry of a tensor that is split over the     *)
(* heads or the vocabulary is the token it is correct for.  The gradient of*)
(* a parameter is how often each token has contributed to it.              *)
(*                                                                         *)
(* No name is one of Recomputation, which models the rest of the package.  *)
(***************************************************************************)
EXTENDS Integers, Sequences, FiniteSets, FiniteSetsExt

CONSTANT Models \* the arguments the model may be run with

Model == [tensor_model_parallel_size : Nat \ {0},
           sequence_parallel : BOOLEAN,
           async_tensor_model_parallel_allreduce : BOOLEAN,
           add_position_embedding : BOOLEAN,
           pretrain : {"gpt", "gpt_pipe", "gpt_core"},
           deepspeed : BOOLEAN,
           max_position_embeddings : Nat \ {0},
           seq_length : Nat \ {0},
           num_layers : Nat \ {0}]

\* validate_args, and what get_batch and SequenceParallelPositionEmbedding
\* assert.  "gpt" and "gpt_pipe" are pretrain_gpt, the latter as DeepSpeed's
\* pipeline with get_batch_pipe; "gpt_core" is pretrain_gpt_core, which
\* always has positions.
ASSUME ModelsAssumption ==
  /\ Models \subseteq Model
  /\ \A c \in Models :
       /\ c.sequence_parallel => /\ c.tensor_model_parallel_size > 1
                                 /\ ~c.async_tensor_model_parallel_allreduce
                                 /\ c.seq_length % c.tensor_model_parallel_size = 0
       /\ c.deepspeed => ~c.async_tensor_model_parallel_allreduce
       /\ c.pretrain = "gpt_pipe" => c.deepspeed
       /\ c.pretrain = "gpt_core" => c.add_position_embedding
       /\ c.max_position_embeddings >= c.seq_length
       /\ c.sequence_parallel /\ c.add_position_embedding =>
            c.max_position_embeddings % c.tensor_model_parallel_size = 0

VARIABLES
  model,
  pc,     \* pc[r]: where rank r is in the passes
  block,  \* block[r]: the block it is in
  hidden, \* hidden[r]: the hidden states between blocks, or their gradient
  branch, \* branch[r]: what it computes in the block: tokens of split tensors
  saved,  \* saved[r][b]: what block b left for the backward pass
  buffer, \* buffer[r]: the global memory buffer "mpu"
  comm,   \* comm[r]: the collective it has launched and not seen the end of
  out,    \* out[r]: the memory that collective writes to
  grads   \* grads[r][param][t]: contributions of token t

TPvars == <<model, pc, block, hidden, branch, saved, buffer, comm, out, grads>>

P == model.tensor_model_parallel_size
Group == 0 .. P - 1
Tokens == 0 .. model.seq_length - 1
NoToken == -1
InOrder == [i \in 1 .. model.seq_length |-> i - 1]

\* Block 0 is the embedding; attention and MLP alternate; the last one is
\* the final layer norm with the logits.
Logits == 2 * model.num_layers + 1
Blocks == 0 .. Logits
IsAttention(b) == b < Logits /\ b % 2 = 1

\* The parameters of a block: the row-parallel bias and the layer norm are
\* replicated, the others split.
Params == Blocks \X {"norm", "column", "row", "bias", "word", "position"}

-----------------------------------------------------------------------------
\* Entries and tensors.

Nothing == [x \in Tokens \X Group |-> 0]
Share(t, r) == [x \in Tokens \X Group |-> IF x = <<t, r>> THEN 1 ELSE 0]
Whole(t) == [x \in Tokens \X Group |-> IF x[1] = t THEN 1 ELSE 0]

\* The token an entry is correct for.
TokenOf(entry) ==
  IF \E t \in Tokens : entry = Whole(t) THEN CHOOSE t \in Tokens : entry = Whole(t) ELSE NoToken
TokensOf(tensor) == [i \in DOMAIN tensor |-> TokenOf(tensor[i])]
Shares(tokens, r) == [i \in DOMAIN tokens |-> Share(tokens[i], r)]

\* The sum of two branches; the product of two factors.
Sum2(a, b) ==
  [i \in DOMAIN a |-> IF i \in DOMAIN b /\ TokenOf(a[i]) = TokenOf(b[i]) THEN a[i] ELSE Nothing]
Matched(a, b) ==
  [i \in DOMAIN a |-> IF i \in DOMAIN b /\ a[i] = b[i] THEN a[i] ELSE NoToken]

Accumulated(r, b, param, tokens) ==
  [grads[r] EXCEPT ![<<b, param>>] =
     [t \in Tokens |-> @[t] + Cardinality({i \in DOMAIN tokens : tokens[i] = t})]]

\* _reduce, _gather_along_first_dim, _split_along_first_dim.
Reduced(x) ==
  [i \in DOMAIN x[0] |-> [e \in DOMAIN x[0][i] |-> MapThenSumSet(LAMBDA r : x[r][i][e], Group)]]
Gathered(x) ==
  LET n == Len(x[0]) IN [i \in 1 .. P * n |-> x[(i - 1) \div n][((i - 1) % n) + 1]]
Split(x, r) ==
  LET n == Len(x) \div P IN SubSeq(x, r * n + 1, (r + 1) * n)

-----------------------------------------------------------------------------
\* Collectives.

None == [kind |-> "none"]

\* An all-reduce is done in place; the other outputs are torch.empty.
Launch(r, kind, tensor) ==
  /\ comm' = [comm EXCEPT ![r] = [kind |-> kind, tensor |-> tensor]]
  /\ out' = [out EXCEPT ![r] = IF kind = "all_reduce" THEN tensor ELSE <<>>]
NoLaunch == UNCHANGED <<comm, out>>

\* handle.wait(), and the end of a call that is not asynchronous.
Over(r) == comm[r].kind = "none"

\* A collective runs when every rank has launched it; a group of one rank,
\* which calls none, gets what it gave.  "all_gather_mpu" is the one into
\* the global memory buffer.
Collective ==
  /\ \E kind \in {"all_reduce", "all_gather", "all_gather_mpu", "reduce_scatter"} :
       /\ \A r \in Group : comm[r].kind = kind
       /\ LET x == [r \in Group |-> comm[r].tensor]
              result(r) == CASE kind = "all_reduce" -> Reduced(x)
                             [] kind = "reduce_scatter" -> Split(Reduced(x), r)
                             [] OTHER -> Gathered(x)
          IN IF kind = "all_gather_mpu"
             THEN buffer' = [r \in Group |-> result(r)] /\ out' = out
             ELSE out' = [r \in Group |-> result(r)] /\ buffer' = buffer
  /\ comm' = [r \in Group |-> None]
  /\ UNCHANGED <<model, pc, block, hidden, branch, saved, grads>>

At(r, label) == pc[r] = label
Goto(r, label) == pc' = [pc EXCEPT ![r] = label]

-----------------------------------------------------------------------------
\* Forward.

\* The tokens of a rank: for sequence parallelism pretrain_gpt cuts them.
Batch(r) ==
  IF model.pretrain = "gpt" /\ model.sequence_parallel THEN Split(InOrder, r) ELSE InOrder

\* SequenceParallelPositionEmbedding has the rank's part of the rows.
Rows(r) ==
  LET local_sequence_length == model.max_position_embeddings \div P
      offset == local_sequence_length * r
  IN offset .. offset + local_sequence_length - 1
PositionsExist(r) ==
  model.add_position_embedding /\ model.sequence_parallel /\ model.pretrain # "gpt_core" =>
    \A i \in DOMAIN Batch(r) : Batch(r)[i] \in Rows(r)

\* What Embedding.forward and _split_along_first_dim do not fail of.
Embeds(r) == PositionsExist(r) /\ (model.sequence_parallel => Len(out[r]) % P = 0)

\* VocabParallelEmbedding: what is outside of the vocabulary slice is zero.
WordEmbeddings(r) ==
  /\ At(r, "word_embeddings")
  /\ Launch(r, "all_reduce", Shares(Batch(r), r))
  /\ Goto(r, "embedding")
  /\ UNCHANGED <<model, block, hidden, branch, saved, buffer, grads>>

\* Mutant: the scatter that a comment in Embedding.forward calls in doubt.
NotScattered(r) ==
  /\ At(r, "embedding") /\ Over(r)
  /\ IF Embeds(r)
     THEN /\ hidden' = [hidden EXCEPT ![r] = out[r]]
          /\ block' = [block EXCEPT ![r] = 1]
          /\ Goto(r, "column")
     ELSE UNCHANGED <<hidden, block>> /\ Goto(r, "error")
  /\ UNCHANGED <<model, branch, saved, buffer, comm, out, grads>>

\* Embedding.forward after the word embeddings.
EmbeddingForward(r) ==
  /\ At(r, "embedding") /\ Over(r)
  /\ IF Embeds(r)
     THEN /\ hidden' = [hidden EXCEPT ![r] = IF model.sequence_parallel
                                             THEN Split(out[r], r) ELSE out[r]]
          /\ block' = [block EXCEPT ![r] = 1]
          /\ Goto(r, "column")
     ELSE UNCHANGED <<hidden, block>> /\ Goto(r, "error")
  /\ UNCHANGED <<model, branch, saved, buffer, comm, out, grads>>

\* Layer norm, and what a column-parallel layer does before it multiplies.
Column(r) ==
  /\ At(r, "column")
  /\ saved' = [saved EXCEPT ![r][block[r]].input = hidden[r]]
  /\ IF model.sequence_parallel THEN Launch(r, "all_gather_mpu", hidden[r]) ELSE NoLaunch
  /\ Goto(r, IF block[r] = Logits THEN "logits" ELSE "row")
  /\ UNCHANGED <<model, block, hidden, branch, buffer, grads>>

TotalInput(r) == IF model.sequence_parallel THEN buffer[r] ELSE saved[r][block[r]].input

\* Heads attend to all tokens, an activation function to its own.
Local(b, tokens) ==
  IF IsAttention(b) /\ tokens # InOrder THEN [i \in DOMAIN tokens |-> NoToken] ELSE tokens

\* The matrix product, core attention or activation, and the row-parallel
\* layer up to its collective.
Row(r) ==
  /\ At(r, "row") /\ Over(r)
  /\ LET tokens == Local(block[r], TokensOf(TotalInput(r)))
     IN /\ saved' = [saved EXCEPT ![r][block[r]].context = tokens]
        /\ Launch(r, IF model.sequence_parallel THEN "reduce_scatter" ELSE "all_reduce",
                  Shares(tokens, r))
  /\ Goto(r, "residual")
  /\ UNCHANGED <<model, block, hidden, branch, buffer, grads>>

\* The bias and the residual connection.
Residual(r) ==
  /\ At(r, "residual") /\ Over(r)
  /\ hidden' = [hidden EXCEPT ![r] = Sum2(@, out[r])]
  /\ block' = [block EXCEPT ![r] = @ + 1]
  /\ Goto(r, "column")
  /\ UNCHANGED <<model, branch, saved, buffer, comm, out, grads>>

\* parallel_lm_logits; vocab_parallel_cross_entropy indexes the logits with
\* the labels of the whole sequence, and adds up what the ranks have of the
\* logits of the targets; its reductions of the largest logit and of the
\* sum of the exponentials are not told apart from that one.
CrossEntropy(r) ==
  /\ At(r, "logits") /\ Over(r)
  /\ LET tokens == TokensOf(TotalInput(r))
     IN IF Len(tokens) = model.seq_length
        THEN /\ Launch(r, "all_reduce", Shares(Matched(tokens, InOrder), r))
             /\ Goto(r, "loss")
        ELSE NoLaunch /\ Goto(r, "error")
  /\ UNCHANGED <<model, block, hidden, branch, saved, buffer, grads>>

\* Its backward pass: the gradient of the rank's slice of the logits.
Loss(r) ==
  /\ At(r, "loss") /\ Over(r)
  /\ branch' = [branch EXCEPT ![r] = TokensOf(out[r])]
  /\ Goto(r, "column_backward")
  /\ UNCHANGED <<model, block, hidden, saved, buffer, comm, out, grads>>

-----------------------------------------------------------------------------
\* Backward.

\* The gradient of the bias, and of the collective of the row-parallel
\* layer: none is needed for an all-reduce.
RowBackward(r) ==
  /\ At(r, "row_backward")
  /\ grads' = [grads EXCEPT ![r] = Accumulated(r, block[r], "bias", TokensOf(hidden[r]))]
  /\ IF model.sequence_parallel THEN Launch(r, "all_gather", hidden[r]) ELSE NoLaunch
  /\ Goto(r, "row_grads")
  /\ UNCHANGED <<model, block, hidden, branch, saved, buffer>>

\* Gradients of the row-parallel weight and, through the local operation,
\* of the output of the column-parallel layer.
RowGrads(r) ==
  /\ At(r, "row_grads") /\ Over(r)
  /\ LET grad_output == TokensOf(IF model.sequence_parallel THEN out[r] ELSE hidden[r])
         context == saved[r][block[r]].context
     IN /\ grads' = [grads EXCEPT ![r] =
                       Accumulated(r, block[r], "row", Matched(grad_output, context))]
        /\ branch' = [branch EXCEPT ![r] = Local(block[r], Matched(grad_output, context))]
  /\ Goto(r, "column_backward")
  /\ UNCHANGED <<model, block, hidden, saved, buffer, comm, out>>

\* LinearWithGradAccumulationAndAsyncCommunication.backward: the gather is
\* under way while the gradient of the input is computed.
ColumnBackward(r) ==
  /\ At(r, "column_backward")
  /\ IF model.sequence_parallel
     THEN Launch(r, "all_gather_mpu", saved[r][block[r]].input) ELSE NoLaunch
  /\ Goto(r, "grad_input")
  /\ UNCHANGED <<model, block, hidden, branch, saved, buffer, grads>>

\* The reduction is under way while the gradient of the weight is computed.
GradInput(r) ==
  /\ At(r, "grad_input")
  /\ model.sequence_parallel => Over(r)
  /\ LET grad_input == Shares(branch[r], r)
     IN CASE model.async_tensor_model_parallel_allreduce -> Launch(r, "all_reduce", grad_input)
          [] model.sequence_parallel -> Launch(r, "reduce_scatter", grad_input)
          [] OTHER -> NoLaunch
  /\ Goto(r, "grad_weight")
  /\ UNCHANGED <<model, block, hidden, branch, saved, buffer, grads>>

\* Without either, the input came from copy_to_tensor_model_parallel_region
\* whose backward pass reduces.
GradWeight(r) ==
  /\ At(r, "grad_weight")
  /\ grads' = [grads EXCEPT ![r] = Accumulated(r, block[r], "column",
                                     Matched(branch[r], TokensOf(TotalInput(r))))]
  /\ IF model.sequence_parallel \/ model.async_tensor_model_parallel_allreduce
     THEN NoLaunch ELSE Launch(r, "all_reduce", Shares(branch[r], r))
  /\ Goto(r, "norm_backward")
  /\ UNCHANGED <<model, block, hidden, branch, saved, buffer>>

\* The layer norm, and the gradient that came along the residual.
NormBackward(r) ==
  /\ At(r, "norm_backward") /\ Over(r)
  /\ grads' = [grads EXCEPT ![r] = Accumulated(r, block[r], "norm", TokensOf(out[r]))]
  /\ hidden' = [hidden EXCEPT ![r] = IF block[r] = Logits THEN out[r] ELSE Sum2(@, out[r])]
  /\ block' = [block EXCEPT ![r] = @ - 1]
  /\ Goto(r, IF block[r] = 1 THEN "scatter_backward" ELSE "row_backward")
  /\ UNCHANGED <<model, branch, saved, buffer, comm, out>>

ScatterBackward(r) ==
  /\ At(r, "scatter_backward")
  /\ IF model.sequence_parallel THEN Launch(r, "all_gather", hidden[r]) ELSE NoLaunch
  /\ Goto(r, "embedding_backward")
  /\ UNCHANGED <<model, block, hidden, branch, saved, buffer, grads>>

EmbeddingBackward(r) ==
  /\ At(r, "embedding_backward") /\ Over(r)
  /\ LET tokens == Matched(TokensOf(IF model.sequence_parallel THEN out[r] ELSE hidden[r]), Batch(r))
         positions == IF model.add_position_embedding THEN tokens ELSE <<>>
         words == [grads EXCEPT ![r] = Accumulated(r, 0, "word", tokens)]
     IN grads' = [words EXCEPT ![r][<<0, "position">>] =
                    Accumulated(r, 0, "position", positions)[<<0, "position">>]]
  /\ Goto(r, "reduce_model_grads")
  /\ UNCHANGED <<model, block, hidden, branch, saved, buffer, comm, out>>

-----------------------------------------------------------------------------
\* allreduce_layernorm_grads: the parameters with the sequence_parallel
\* attribute, in an order that all ranks agree on.

\* Mutant: the attribute is not set on the bias of the row-parallel layer.
NormsOnly(b) == <<<<b, "norm">>>>
SequenceParallelParams(b) ==
  IF b = Logits THEN <<<<b, "norm">>>> ELSE <<<<b, "norm">>, <<b, "bias">>>>

Coalesced ==
  LET upto[b \in Blocks] ==
        IF b = 0 THEN <<>> ELSE upto[b - 1] \o SequenceParallelParams(b)
  IN upto[Logits]

\* train_step leaves the gradients to DeepSpeed, if there is one.
Reduces == model.sequence_parallel /\ ~model.deepspeed

ReduceModelGrads(r) ==
  /\ At(r, "reduce_model_grads")
  /\ IF Reduces
     THEN Launch(r, "all_reduce", [i \in DOMAIN Coalesced |-> grads[r][Coalesced[i]]])
     ELSE NoLaunch
  /\ Goto(r, "synced")
  /\ UNCHANGED <<model, block, hidden, branch, saved, buffer, grads>>

Synced(r) ==
  /\ At(r, "synced") /\ Over(r)
  /\ grads' = IF ~Reduces THEN grads
              ELSE [grads EXCEPT ![r] = [p \in Params |->
                      IF \E i \in DOMAIN Coalesced : Coalesced[i] = p
                      THEN out[r][CHOOSE i \in DOMAIN Coalesced : Coalesced[i] = p]
                      ELSE @[p]]]
  /\ Goto(r, "done")
  /\ UNCHANGED <<model, block, hidden, branch, saved, buffer, comm, out>>

-----------------------------------------------------------------------------

TPInit ==
  /\ model \in Models
  /\ pc = [r \in Group |-> "word_embeddings"]
  /\ block = [r \in Group |-> 0]
  /\ hidden = [r \in Group |-> <<>>]
  /\ branch = [r \in Group |-> <<>>]
  /\ saved = [r \in Group |-> [b \in Blocks |-> [input |-> <<>>, context |-> <<>>]]]
  /\ buffer = [r \in Group |-> <<>>]
  /\ comm = [r \in Group |-> None]
  /\ out = [r \in Group |-> <<>>]
  /\ grads = [r \in Group |-> [p \in Params |-> [t \in Tokens |-> 0]]]

Forward(r) == \/ WordEmbeddings(r) \/ EmbeddingForward(r) \/ Column(r) \/ Row(r) \/ Residual(r)
              \/ CrossEntropy(r)
Backward(r) == \/ Loss(r) \/ RowBackward(r) \/ RowGrads(r) \/ ColumnBackward(r) \/ GradInput(r)
               \/ GradWeight(r) \/ NormBackward(r) \/ ScatterBackward(r) \/ EmbeddingBackward(r)
ReduceGrads(r) == ReduceModelGrads(r) \/ Synced(r)

\* A rank that fails ends the job, even if others wait for it.
TPEnded == (\A r \in Group : At(r, "done")) \/ (\E r \in Group : At(r, "error"))
Done == TPEnded /\ UNCHANGED TPvars

TPNext == Collective \/ (\E r \in Group : Forward(r) \/ Backward(r) \/ ReduceGrads(r)) \/ Done

\* The processes and the communication library go on.
TPSpec == TPInit /\ [][TPNext]_TPvars /\ WF_TPvars(TPNext)

-----------------------------------------------------------------------------

\* Types: with sequence parallelism a rank holds a part of its tokens
\* between blocks, without it all of them; collectives that ranks have
\* launched at the same time are the same.  A rank fails only with sequence
\* parallelism: if get_batch has cut the sequence before the embedding cuts
\* it again, or learned positions are cut and their table is too.
TPTypeOK ==
  /\ model \in Models
  /\ \A r \in Group :
       /\ block[r] \in Blocks
       /\ hidden[r] \in {<<>>} \cup
            [1 .. Len(Batch(r)) \div (IF model.sequence_parallel THEN P ELSE 1)
               -> [Tokens \X Group -> {0, 1}]]
       /\ pc[r] = "error" =>
            /\ model.sequence_parallel
            /\ model.pretrain = "gpt" \/ (model.pretrain = "gpt_pipe" /\ model.add_position_embedding)
       /\ \A q \in Group : Over(r) \/ Over(q) \/ comm[r].kind = comm[q].kind

\* The parameters a model has.
HasParam(p) ==
  CASE p[2] = "word" -> p[1] = 0
    [] p[2] = "position" -> p[1] = 0 /\ model.add_position_embedding
    [] p[2] \in {"norm", "column"} -> p[1] > 0
    [] p[2] \in {"row", "bias"} -> p[1] \in 1 .. Logits - 1

\* However the layers are split over the ranks and whichever communication
\* overlaps the computation: in the end every token has contributed to the
\* gradient of every parameter once, on every rank.  With sequence
\* parallelism and DeepSpeed nothing has summed those of replicated
\* parameters: each rank has its own tokens in them, once.  (No rank
\* waits for ever: the passes are finite, and a run looks for deadlocks.)
OwnTokens(r) == LET part == Split(InOrder, r) IN {part[i] : i \in DOMAIN part}
IsPartial(p) == model.sequence_parallel /\ model.deepspeed /\ p[2] \in {"norm", "bias"}
GradientsComplete ==
  \A r \in Group : At(r, "done") => \A p \in Params : \A t \in Tokens :
    grads[r][p][t] = IF HasParam(p) /\ (IsPartial(p) => t \in OwnTokens(r)) THEN 1 ELSE 0
=============================================================================
