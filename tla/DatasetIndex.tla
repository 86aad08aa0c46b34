---------------------------- MODULE DatasetIndex ----------------------------
(***************************************************************************)
(* The indices of the training data: how a GPT dataset cuts the documents  *)
(* of a corpus into samples (megatron/data/gpt_dataset.py, helpers.cpp),   *)
(* and how a blended dataset draws from several corpora                    *)
(* (blendable_dataset.py, dataset_utils.py, helpers.cpp).                  *)
(*                                                                         *)
(* A corpus c is a record of                                               *)
(*   sizes        the length of every document, numbered from 0            *)
(*   seq_length   and num_samples, what is asked for                       *)
(*   doc_idx      the documents of all epochs as numpy shuffles them, and  *)
(*   shuffle_idx  the order of the samples: fixed by the seed              *)
(*   start        how many tokens there are in doc_idx before each entry   *)
(*                                                                         *)
(* Random numbers are given, not computed, and quotients are exact where   *)
(* the code rounds a float.                                                *)
(***************************************************************************)
EXTENDS Integers, Sequences, FiniteSets, FiniteSetsExt, SequencesExt

\* sum[k] is the sum of the first k of n terms.
SumsUp(sum, n, term) ==
  /\ sum \in [0 .. n -> Nat]
  /\ sum[0] = 0
  /\ \A k \in 1 .. n : sum[k] = sum[k - 1] + term[k]

Documents(c) == DOMAIN c.sizes
TokensPerEpoch(c) == MapThenSumSet(LAMBDA d : c.sizes[d], Documents(c))

\* The first number of epochs _num_epochs comes to that has enough tokens.
NumEpochs(c) == (c.seq_length * c.num_samples) \div TokensPerEpoch(c) + 1

NumTokens(c) == NumEpochs(c) * TokensPerEpoch(c)
Entries(c) == NumEpochs(c) * Cardinality(Documents(c))
NumSamples(c) == (NumTokens(c) - 1) \div c.seq_length
Samples(c) == 0 .. NumSamples(c) - 1

-----------------------------------------------------------------------------
\* The last epoch is shuffled apart if less than 80% of it is needed.

SamplesFromEpochsMinusOne(c) ==
  ((NumEpochs(c) - 1) * TokensPerEpoch(c) - 1) \div c.seq_length
LastEpochNumSamples(c) == c.num_samples - SamplesFromEpochsMinusOne(c)
NumSamplesPerEpoch(c) == (TokensPerEpoch(c) - 1) \div c.seq_length

SeparateLastEpoch(c) ==
  NumEpochs(c) > 1 /\ LastEpochNumSamples(c) < (4 * NumSamplesPerEpoch(c)) \div 5

\* What _build_doc_idx may return: every document in every epoch.
IsDocIdx(c) ==
  LET times(d, from) == Cardinality({i \in from .. Entries(c) - 1 : c.doc_idx[i] = d})
  IN /\ c.doc_idx \in [0 .. Entries(c) - 1 -> Documents(c)]
     /\ \A d \in Documents(c) :
          /\ times(d, 0) = NumEpochs(c)
          /\ SeparateLastEpoch(c) => times(d, Entries(c) - Cardinality(Documents(c))) = 1

\* What _build_shuffle_idx may return.
ShuffledApart(c) ==
  IF SeparateLastEpoch(c) THEN SamplesFromEpochsMinusOne(c) ELSE NumSamples(c)

\* Mutant: one shuffle over all epochs.
IsOneShuffle(c) ==
  /\ c.shuffle_idx \in [Samples(c) -> Samples(c)]
  /\ \A i, j \in Samples(c) : c.shuffle_idx[i] = c.shuffle_idx[j] => i = j

IsShuffleIdx(c) ==
  /\ c.shuffle_idx \in [Samples(c) -> Samples(c)]
  /\ \A i, j \in Samples(c) :
       /\ c.shuffle_idx[i] = c.shuffle_idx[j] => i = j
       /\ i < ShuffledApart(c) <=> c.shuffle_idx[i] < ShuffledApart(c)

IsStart(c) ==
  /\ SumsUp(c.start, Entries(c), [k \in 1 .. Entries(c) |-> c.sizes[c.doc_idx[k - 1]]])
  /\ c.start[Entries(c)] = NumTokens(c)

-----------------------------------------------------------------------------
\* build_sample_idx: b is the state of its two loops.  Sample i begins at
\* the entry and offset recorded at sample_idx[i + 1], and ends at those of
\* the next one, whose first token it shares.

StartSamples(c) ==
  [sample_idx |-> <<[doc |-> 0, offset |-> 0]>>, doc_idx_index |-> 0, doc_offset |-> 0,
   remaining_seq_length |-> c.seq_length + 1]

MoreSamples(c, b) == Len(b.sample_idx) <= NumSamples(c)

DocLength(c, b) == c.sizes[c.doc_idx[b.doc_idx_index]] - b.doc_offset
Remaining(c, b) == b.remaining_seq_length - DocLength(c, b)

NextDocument(c, b) ==
  [b EXCEPT !.doc_idx_index = @ + 1, !.doc_offset = 0,
            !.remaining_seq_length = Remaining(c, b)]

EndSample(c, b) ==
  LET doc_offset == b.doc_offset + (Remaining(c, b) + DocLength(c, b) - 1)
  IN [b EXCEPT !.sample_idx = Append(@, [doc |-> b.doc_idx_index, offset |-> doc_offset]),
               !.doc_offset = doc_offset, !.remaining_seq_length = c.seq_length + 1]

\* GPTDataset.__getitem__ on an index as it was loaded: the tokens of the
\* first document from the offset on, the documents in between, and the
\* last one up to its offset.  A token is a document and a place in it.
Chunk(c, doc, from, to) == [o \in 1 .. to - from + 1 |-> <<doc, from + o - 1>>]

\* Mutant: the last document without the token at its offset.
LastTokenBefore(c, index, k, l) ==
  IF k = l.doc THEN l.offset - 1 ELSE c.sizes[index.doc_idx[k]] - 1

LastToken(c, index, k, l) ==
  IF k = l.doc THEN l.offset ELSE c.sizes[index.doc_idx[k]] - 1

GetItem(c, index, i) ==
  LET idx == index.shuffle_idx[i]
      f == index.sample_idx[idx + 1]
      l == index.sample_idx[idx + 2]
      part(k) == Chunk(c, index.doc_idx[k], IF k = f.doc THEN f.offset ELSE 0,
                       LastToken(c, index, k, l))
  IN FlattenSeq([k \in 1 .. l.doc - f.doc + 1 |-> part(f.doc + k - 1)])

\* The documents of all epochs, one after the other.
Stream(c) ==
  FlattenSeq([k \in 1 .. Entries(c) |->
                Chunk(c, c.doc_idx[k - 1], 0, c.sizes[c.doc_idx[k - 1]] - 1)])

-----------------------------------------------------------------------------
\* Blended datasets: job j has the weights of its corpora as numbers, their
\* sums in weight_sum, and the sums of the numbers of samples the corpora
\* are asked for in size_sum.

Weights(j) == DOMAIN j.weights
WeightSum(j) == j.weight_sum[Len(j.weights)]
BlendSize(j) == j.size_sum[Len(j.weights)]

\* Mutant: its share, rounded down.
ShareOfSamples(j, k) == (j.num_samples * j.weights[k]) \div WeightSum(j)

\* get_datasets_weights_and_num_samples: 0.5% more than its share.
DatasetNumSamples(j, k) ==
  (j.num_samples * j.weights[k] * 1005 + 1000 * WeightSum(j) - 1) \div (1000 * WeightSum(j))

AreSums(j) ==
  /\ SumsUp(j.weight_sum, Len(j.weights), j.weights)
  /\ SumsUp(j.size_sum, Len(j.weights), [k \in Weights(j) |-> DatasetNumSamples(j, k)])

\* build_blending_indices: b is what has been drawn so far.
StartBlend(j) == [drawn |-> [k \in Weights(j) |-> 0], index |-> <<>>]

Error(j, b, k) ==
  j.weights[k] * (IF b.index = <<>> THEN 1 ELSE Len(b.index)) - WeightSum(j) * b.drawn[k]

\* The first of those with the largest error.
MaxErrorIndex(j, b) ==
  CHOOSE k \in Weights(j) :
    \A i \in Weights(j) : /\ Error(j, b, i) <= Error(j, b, k)
                          /\ i < k => Error(j, b, i) < Error(j, b, k)

Draw(j, b) ==
  LET k == MaxErrorIndex(j, b)
  IN [drawn |-> [b.drawn EXCEPT ![k] = @ + 1],
      index |-> Append(b.index, [dataset |-> k, sample |-> b.drawn[k]])]
=============================================================================
