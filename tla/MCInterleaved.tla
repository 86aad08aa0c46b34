---------------------------- MODULE MCInterleaved ----------------------------
\* Instances of Interleaved for TLC.
EXTENDS Interleaved

\* One group of microbatches, which is all warmup, two, and three; every
\* two of the switches in every combination for training on one and two
\* groups.
MCCalls ==
  {c \in [num_microbatches : {3, 6, 9}, forward_only : BOOLEAN, grad_sync_func : BOOLEAN,
          batch_p2p_comm : BOOLEAN, send_buffer : {0, 1}] :
     /\ c.grad_sync_func <=> (c.batch_p2p_comm <=> c.send_buffer = 0)
     /\ c.forward_only => c.num_microbatches = 6 /\ ~c.grad_sync_func
     /\ c.num_microbatches = 9 => c.batch_p2p_comm /\ c.grad_sync_func}
=============================================================================
