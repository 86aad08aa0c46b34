---------------------------- MODULE DropoutMasks ----------------------------
(***************************************************************************)
(* What activation checkpointing and the states of the random number       *)
(* generators promise (megatron/core/tensor_parallel/random.py, get_rng_   *)
(* state of megatron/checkpointing.py): the gradient of a microbatch is    *)
(* computed with the dropout masks of its forward pass, and a restarted    *)
(* job draws for every microbatch the masks it had drawn before.           *)
(***************************************************************************)
EXTENDS Naturals, Sequences

VARIABLES
  drawn,    \* drawn[i]: the masks of the i-th microbatch of the job
  forwards, \* the microbatches that have gone forward since it was started
  applied,  \* the masks their gradients were computed with
  saved     \* the microbatches before the last checkpoint

vars == <<drawn, forwards, applied, saved>>

Init == drawn = <<>> /\ forwards = 0 /\ applied = <<>> /\ saved = 0

Forward ==
  /\ forwards' = forwards + 1
  /\ \/ forwards < Len(drawn) /\ drawn' = drawn
     \/ forwards = Len(drawn) /\ drawn' = Append(drawn, drawn'[forwards'])
  /\ UNCHANGED <<applied, saved>>

Backward ==
  /\ Len(applied) < forwards
  /\ applied' = Append(applied, drawn[Len(applied) + 1])
  /\ UNCHANGED <<drawn, forwards, saved>>

Save == Len(applied) = forwards /\ saved' = forwards /\ UNCHANGED <<drawn, forwards, applied>>

Restart ==
  /\ forwards' = saved
  /\ applied' = SubSeq(applied, 1, saved)
  /\ UNCHANGED <<drawn, saved>>

Next == Forward \/ Backward \/ Save \/ Restart

Spec == Init /\ [][Next]_vars
=============================================================================
