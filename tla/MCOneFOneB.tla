----------------------------- MODULE MCOneFOneB -----------------------------
\* Instances of OneFOneB for TLC.
EXTENDS OneFOneB

\* Fewer microbatches than stages, as many, and more.
MCCalls == [num_microbatches : {1, 3, 5}, forward_only : BOOLEAN,
            grad_sync_func : BOOLEAN, batch_p2p_comm : BOOLEAN,
            send_buffer : {0, 1}]

MCCallsNoGradSync == {c \in MCCalls : c.num_microbatches = 3 /\ c.send_buffer = 0
                                      /\ ~c.grad_sync_func}
=============================================================================
