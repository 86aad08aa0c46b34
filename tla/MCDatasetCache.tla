--------------------------- MODULE MCDatasetCache ---------------------------
\* Instances of DatasetCache for TLC.
EXTENDS DatasetCache

Unshuffled(sizes, seq_length, num_samples) ==
  [sizes |-> sizes, seq_length |-> seq_length, num_samples |-> num_samples,
   doc_idx |-> <<>>, shuffle_idx |-> <<>>, start |-> <<>>]

\* Every order of the documents.
WithDocIdx(c) ==
  {x \in {[c EXCEPT !.doc_idx = d] :
            d \in [0 .. NumEpochs(c) * Cardinality(Documents(c)) - 1 -> Documents(c)]} : IsDocIdx(x)}

\* Samples in order, backwards, and backwards in two parts.
WithShuffleIdx(c) ==
  LET N == NumSamples(c)
      M == ShuffledApart(c)
  IN {x \in {[c EXCEPT !.shuffle_idx = s] :
               s \in {[i \in Samples(c) |-> i], [i \in Samples(c) |-> N - 1 - i],
                      [i \in Samples(c) |-> IF i < M THEN M - 1 - i ELSE N - 1 - (i - M)]}} :
        IsShuffleIdx(x)}

Sums(n, term) ==
  LET sum[k \in 0 .. n] == IF k = 0 THEN 0 ELSE sum[k - 1] + term[k] IN sum

WithStart(c) ==
  [c EXCEPT !.start = Sums(Entries(c), [k \in 1 .. Entries(c) |-> c.sizes[c.doc_idx[k - 1]]])]

Shuffled(c) == {WithStart(x) : x \in UNION {WithShuffleIdx(y) : y \in WithDocIdx(c)}}

\* A job over corpora that are still to be given.
Job(w, n, cached) ==
  LET j == [corpora |-> <<>>, weights |-> w, num_samples |-> n, data_cache_path |-> cached,
            weight_sum |-> Sums(Len(w), w), size_sum |-> <<>>]
  IN [j EXCEPT !.size_sum = Sums(Len(w), [k \in DOMAIN w |-> DatasetNumSamples(j, k)])]

Single(c) ==
  {[Job(<<1>>, x.num_samples, FALSE) EXCEPT !.corpora = <<x>>] : x \in Shuffled(c)}

\* One epoch and several, the last one shuffled with the others and apart;
\* samples that end with a document, run over several, and an empty one.
MCSingle ==
  UNION {Single(Unshuffled(0 :> 3 @@ 1 :> 2, 2, n)) : n \in {2, 3, 5}}
  \cup Single(Unshuffled(0 :> 4 @@ 1 :> 3, 2, 4))
  \cup Single(Unshuffled(0 :> 2 @@ 1 :> 0 @@ 2 :> 1 @@ 3 :> 5, 3, 2))

\* Two and three corpora of one document each.
Blend(w, n, lengths, cached) ==
  LET j == Job(w, n, cached)
      c(k) == Unshuffled(0 :> lengths[k], 2, DatasetNumSamples(j, k))
  IN [j EXCEPT !.corpora = [k \in Weights(j) |-> CHOOSE x \in Shuffled(c(k)) : TRUE]]

\* Enough samples for the blend, just enough for the samples asked for.
MCBlend ==
  {Blend(<<2, 1>>, 4, <<5, 3>>, cached) : cached \in BOOLEAN}
  \cup {Blend(<<9, 1>>, 10, <<21, 5>>, FALSE), Blend(<<1, 3, 2>>, 4, <<3, 7, 5>>, TRUE)}

MCJobs == MCSingle \cup MCBlend
=============================================================================
