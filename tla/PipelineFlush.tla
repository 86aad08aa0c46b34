--------------------------- MODULE PipelineFlush ---------------------------
(***************************************************************************)
(* What a pipeline schedule promises to the caller of                      *)
(* get_forward_backward_func() (core/pipeline_parallel/schedules.py): one  *)
(* call runs the forward pass of every microbatch once on every stage, in  *)
(* stage order, and, unless forward_only, its backward pass once on every  *)
(* stage in the reverse order, with at most Limit[s] microbatches whose    *)
(* activations stage s keeps for a backward pass to come.  Nothing is said *)
(* of warmup, steady state and cooldown, nor of how tensors travel.        *)
(***************************************************************************)
EXTENDS Integers, FiniteSets

CONSTANTS P,      \* number of pipeline stages
          Limit   \* Limit[s]: activations stage s may hold

Stages == 0 .. P-1

VARIABLES num_microbatches, forward_only,  \* arguments of the call
          fwd,    \* fwd[s]: the microbatches stage s ran forward
          bwd     \* bwd[s]: the microbatches stage s ran backward

vars == <<num_microbatches, forward_only, fwd, bwd>>

Microbatches == 1 .. num_microbatches

Init == /\ num_microbatches \in Nat \ {0}
        /\ forward_only \in BOOLEAN
        /\ fwd = [s \in Stages |-> {}]
        /\ bwd = [s \in Stages |-> {}]

Forward(s, m) ==
  /\ m \notin fwd[s]
  /\ s > 0 => m \in fwd[s-1]
  /\ ~forward_only => Cardinality(fwd[s] \ bwd[s]) < Limit[s]
  /\ fwd' = [fwd EXCEPT ![s] = @ \cup {m}]
  /\ UNCHANGED <<num_microbatches, forward_only, bwd>>

Backward(s, m) ==
  /\ ~forward_only
  /\ m \in fwd[s] \ bwd[s]
  /\ s < P-1 => m \in bwd[s+1]
  /\ bwd' = [bwd EXCEPT ![s] = @ \cup {m}]
  /\ UNCHANGED <<num_microbatches, forward_only, fwd>>

Next == \E s \in Stages, m \in Microbatches : Forward(s, m) \/ Backward(s, m)

Spec == Init /\ [][Next]_vars /\ WF_vars(Next)
=============================================================================
