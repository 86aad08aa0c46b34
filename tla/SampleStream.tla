---------------------------- MODULE SampleStream ----------------------------
(***************************************************************************)
(* What the data loaders, the microbatch calculator and the number of      *)
(* iterations promise together (megatron/data/data_samplers.py,            *)
(* megatron/microbatches.py, update_train_iters of megatron/training.py):  *)
(* the model is trained on a stream of batches that goes through the data  *)
(* evenly, that a restart resumes with the very batches it had, and that   *)
(* ends when less than a batch of the samples asked for is left.           *)
(***************************************************************************)
EXTENDS Integers, Sequences, FiniteSetsExt

VARIABLES
  job,       \* the samples in use, how many to train on, the size of a batch
  drawn,     \* the batches the model was ever trained on: sample -> times
  trained,   \* how many of them the model has seen since it was started
  saved,     \* how many it has seen in the last checkpoint
  finished

vars == <<job, drawn, trained, saved, finished>>

Uses(batches, i) ==
  MapThenSumSet(LAMBDA k : batches[k][i], DOMAIN batches)
Size(batches) ==
  MapThenSumSet(LAMBDA i : Uses(batches, i), job.usable)

\* No sample is used again before all others have been used as often.
Even(batches) == \A i, j \in job.usable : Uses(batches, i) <= Uses(batches, j) + 1

Init ==
  /\ drawn = <<>>
  /\ trained = 0 /\ saved = 0
  /\ finished = FALSE

\* The batch of a step is the one that was drawn for it, or a new one.
Step ==
  /\ ~finished
  /\ trained' = trained + 1
  /\ saved' \in {saved, trained'}
  /\ \/ trained < Len(drawn) /\ drawn' = drawn
     \/ /\ trained = Len(drawn)
        /\ drawn' = Append(drawn, drawn'[trained'])
        /\ DOMAIN drawn'[trained'] = job.usable
        /\ Size(drawn') > Size(drawn)
        /\ Size(drawn') <= job.train_samples
        /\ Even(drawn')
  /\ UNCHANGED <<job, finished>>

Restart ==
  /\ trained' = saved
  /\ UNCHANGED <<job, drawn, saved, finished>>

Finish ==
  /\ trained = Len(drawn)
  /\ Size(drawn) + job.global_batch_size > job.train_samples
  /\ finished' = TRUE
  /\ UNCHANGED <<job, drawn, trained, saved>>

Next == Step \/ Restart \/ Finish

Spec == Init /\ [][Next]_vars
=============================================================================
