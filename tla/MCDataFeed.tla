----------------------------- MODULE MCDataFeed -----------------------------
\* The jobs DataFeed is checked for.
EXTENDS DataFeed

Job(type, sharding, total, train, size, ramp, layouts, orders) ==
  [dataloader_type |-> type, data_sharding |-> sharding, total_samples |-> total,
   train_samples |-> train, global_batch_size |-> size,
   start_batch_size |-> ramp[1], increment |-> ramp[2], rampup_samples |-> ramp[3],
   layouts |-> layouts, permutations |-> orders]

Of(micro, dp) == [micro_batch_size |-> micro, data_parallel_size |-> dp]
NoRamp == <<0, 0, 0>>
InOrder == {[e \in {0} |-> <<>>]}
\* Orders of two epochs, and of one more that is begun and not trained on.
Orders(perms) == {[e \in 0 .. 2 |-> order[e % 2]] : order \in [{0, 1} -> perms]}

MCJobs == {
  \* In order, with a rest, restarted with other layouts.
  Job("single", TRUE, 9, 9, 4, NoRamp, {Of(1, 2), Of(2, 1), Of(2, 2)}, InOrder),
  \* In order, with a ramp-up from 2 by 2 to 6.
  Job("single", TRUE, 17, 17, 6, <<2, 2, 6>>, {Of(1, 2), Of(2, 1)}, InOrder),
  \* A bucket of three for each of two ranks; batches cross epochs.
  Job("cyclic", TRUE, 7, 12, 4, NoRamp, {Of(1, 2)},
      Orders({<<0, 1, 2>>, <<2, 0, 1>>, <<1, 0, 2>>})),
  \* A bucket of four, microbatches of two, a ramp-up from 4 to 8.
  Job("cyclic", TRUE, 9, 16, 8, <<4, 4, 4>>, {Of(2, 2)},
      Orders({<<0, 1, 2, 3>>, <<2, 0, 3, 1>>})),
  \* No buckets: every second sample of the order of all.
  Job("cyclic", FALSE, 6, 12, 4, NoRamp, {Of(1, 2)},
      Orders({<<0, 1, 2, 3, 4, 5>>, <<3, 1, 4, 0, 5, 2>>})) }
=============================================================================
