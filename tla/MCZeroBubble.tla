---------------------------- MODULE MCZeroBubble ----------------------------
\* Instances of ZeroBubble for TLC.
EXTENDS ZeroBubble

\* Fewer microbatches than stages, and more; every two of the three
\* switches in every combination.
MCCalls == {c \in [micro_batches : {2, 5}, exact : BOOLEAN, bf16 : BOOLEAN,
                   send_buffer : {0, 1}] :
              c.bf16 <=> (c.exact <=> c.send_buffer = 0)}
=============================================================================
