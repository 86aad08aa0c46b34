----------------------------- MODULE ZeroBubble -----------------------------
(***************************************************************************)
(* The ZB-H1 pipeline schedule: the instructions that ZeroBubbleH1Pipeline *)
(* yields on every stage (core/pipeline_parallel/deepspeed_zbh1_schedule.  *)
(* py), and what executing them does (deepspeed_zbh1_engine.py and         *)
(* WeightGradStore; DeepSpeed's PipelineEngine for those it brings along). *)
(* A backward pass is split in B, which yields the gradient for the stage  *)
(* before, and W, which yields those of the weights: B only queues its W,  *)
(* and a later WeightPass takes the oldest W from the queue.               *)
(*                                                                         *)
(* A tensor is abstracted to the number of its microbatch.                 *)
(***************************************************************************)
EXTENDS Integers, Sequences, FiniteSets

CONSTANTS P,      \* self.stages
          Calls   \* the arguments a batch may be trained with

Call == [micro_batches : Nat \ {0},
         exact : BOOLEAN,      \* args.enable_zbh1_exact_semantics
         bf16 : BOOLEAN,       \* self.using_bf16_optimizer
         send_buffer : Nat]    \* tensors a link holds before its receive

ASSUME PAssumption == P \in Nat \ {0, 1}
ASSUME CallsAssumption == Calls \subseteq Call

Stages == 0 .. P-1

None == 0      \* no tensor
Garbage == 0   \* computed from tensors that do not belong together

VARIABLES
  args,          \* the arguments, the same on every stage
  forward, backward, weight,  \* the counters of steps()
  ended,         \* ended[s]: the generator has yielded its last step
  cmds,          \* cmds[s]: instructions of the current step still to execute
  loaded,        \* loaded[s]: microbatches taken from the data iterator
  pipe_buffers,  \* pipe_buffers[s][b]: what stage s holds in buffer b
  grad_layer,    \* grad_layer[s]: the gradient received last
  loss,          \* the loss the last stage computed last
  acts, grads,   \* acts[s], grads[s]: tensors sent by s and not yet received
  cache, weight_grad_queue,  \* WeightGradStore of every stage
  lp_grad,       \* lp_grad[s]: microbatches accumulated in param.grad, in order
  hp_grad,       \* hp_grad[s]: ... in the gradients the optimizer uses
  fwd, bwd       \* history: the microbatches passed forward and backward

schedule == <<forward, backward, weight, ended>>
links == <<acts, grads>>
store == <<cache, weight_grad_queue>>
params == <<lp_grad, hp_grad>>
vars == <<args, schedule, cmds, loaded, pipe_buffers, grad_layer, loss, links,
          store, params, fwd, bwd>>

Min2(a, b) == IF a < b THEN a ELSE b

M == args.micro_batches
First(s) == s = 0        \* self.is_first_stage
Last(s) == s = P-1       \* self.is_last_stage

-----------------------------------------------------------------------------
\* The schedule.  The counters tell which section of steps() a stage is in.

Cmd(op, b) == [op |-> op, buffer |-> b]
Only(condition, op, b) == IF condition THEN <<Cmd(op, b)>> ELSE <<>>

\* Mutant: the stages are counted from the wrong end.
BufferIdReversed(s, m) == m % (s + 1)

\* Mutant: one buffer too few.
BufferIdTooFew(s, m) == m % (IF Last(s) THEN 1 ELSE P - s - 1)

\* get_buffer_id
BufferId(s, m) == m % (P - s)

ForwardCmds(s) ==
  LET b == BufferId(s, forward[s])
  IN Only(~First(s), "RecvActivation", b)
       \o Only(First(s) \/ Last(s), "LoadMicroBatch", b)
       \o <<Cmd("ForwardPass", b)>>

\* Mutant: the activation is sent before the gradient is received.
ExchangeSendFirst(s) ==
  Only(~Last(s), "SendActivation", BufferId(s, forward[s]))
    \o Only(~Last(s), "RecvGrad", BufferId(s, backward[s]))

\* Between a forward and a backward pass of one step.
Exchange(s) ==
  Only(~Last(s), "RecvGrad", BufferId(s, backward[s]))
    \o Only(~Last(s), "SendActivation", BufferId(s, forward[s]))

B(s) == <<Cmd("BackwardOnlyPass", BufferId(s, backward[s]))>>
           \o Only(~First(s), "SendGrad", BufferId(s, backward[s]))
BW(s) == <<Cmd("BackwardPass", BufferId(s, backward[s]))>>
           \o Only(~First(s), "SendGrad", BufferId(s, backward[s]))
W == <<Cmd("WeightPass", None)>>

\* The backward pass of an FBW step: split on every stage but the first if
\* the semantics are to be exact, and in the last such step anyway.
FBWPass(s) ==
  IF ~First(s) /\ (forward[s] + 1 = M \/ args.exact) THEN B(s) \o W ELSE BW(s)

\* Mutant: a warmup as long as the pipeline.
InFLonger(s) == forward[s] < Min2(P - s, M)

InF(s) == forward[s] < Min2(P - s - 1, M)

\* Mutant: one FB step too many.
InFBLonger(s) == ~InF(s) /\ forward[s] < Min2(P, M)

InFB(s) == ~InF(s) /\ forward[s] < Min2(P - 1, M)
InFBW(s) == ~InF(s) /\ ~InFB(s) /\ forward[s] < M
InBW(s) == forward[s] = M /\ backward[s] < M
InW(s) == forward[s] = M /\ backward[s] = M /\ weight[s] < M
AtEnd(s) == forward[s] = M /\ backward[s] = M /\ weight[s] = M

\* The step yielded next.  ReduceTiedGrads is a reduction like ReduceGrads.
NextCmds(s) ==
  CASE InF(s) -> ForwardCmds(s)
                   \o Only(~Last(s), "SendActivation", BufferId(s, forward[s]))
    [] InFB(s) -> ForwardCmds(s) \o Exchange(s) \o B(s)
    [] InFBW(s) -> ForwardCmds(s) \o Exchange(s) \o FBWPass(s)
    [] InBW(s) -> Only(~Last(s), "RecvGrad", BufferId(s, backward[s]))
                    \o (IF First(s) THEN BW(s) ELSE B(s) \o W)
    [] InW(s) -> W
    [] AtEnd(s) -> <<Cmd("ReduceGrads", None), Cmd("OptimizerStep", None)>>

Bump(counter, s, condition) == IF condition THEN [counter EXCEPT ![s] = @ + 1] ELSE counter

Yield(s) ==
  /\ cmds[s] = <<>> /\ ~ended[s]
  /\ cmds' = [cmds EXCEPT ![s] = NextCmds(s)]
  /\ forward' = Bump(forward, s, InF(s) \/ InFB(s) \/ InFBW(s))
  /\ backward' = Bump(backward, s, InFB(s) \/ InFBW(s) \/ InBW(s))
  /\ weight' = Bump(weight, s, InFBW(s) \/ InBW(s) \/ InW(s))
  /\ ended' = [ended EXCEPT ![s] = AtEnd(s)]
  /\ UNCHANGED <<args, loaded, pipe_buffers, grad_layer, loss, links, store, params,
                 fwd, bwd>>

\* s executes its next instruction, op on buffer b.
Executes(s, op) == cmds[s] # <<>> /\ Head(cmds[s]).op = op
Buffer(s) == Head(cmds[s]).buffer
Exec(s, op) == Executes(s, op) /\ cmds' = [cmds EXCEPT ![s] = Tail(@)]

-----------------------------------------------------------------------------
\* Exchanging tensors: blocking sends and receives.

\* What a send instruction sends, and where; it ends the use of the input.
Peer(s, op) == IF op = "SendActivation" THEN s + 1 ELSE s - 1
RecvOf(op) == IF op = "SendActivation" THEN "RecvActivation" ELSE "RecvGrad"
Sent(s, op) == IF op = "SendActivation" THEN pipe_buffers[s][Buffer(s)].outputs
               ELSE pipe_buffers[s][Buffer(s)].input_grad
Link(op) == IF op = "SendActivation" THEN acts ELSE grads

\* What stage s and stage t hold after s has sent or t has received x.
AfterSend(s, op) ==
  IF op = "SendGrad" THEN [pipe_buffers EXCEPT ![s][Buffer(s)].inputs = None]
  ELSE pipe_buffers
AfterRecv(t, op, x, buffers) ==
  IF op = "SendActivation" THEN [buffers EXCEPT ![t][Buffer(t)].inputs = x] ELSE buffers
SetLink(op, link) ==
  IF op = "SendActivation" THEN acts' = link /\ UNCHANGED grads
  ELSE grads' = link /\ UNCHANGED acts
SetGradLayer(t, op, x) ==
  grad_layer' = IF op = "SendGrad" THEN [grad_layer EXCEPT ![t] = x] ELSE grad_layer

Others == <<args, schedule, loaded, loss, store, params, fwd, bwd>>

\* A send that finds room in the transport's buffer returns at once.
Send(s, op) ==
  /\ Exec(s, op)
  /\ Len(Link(op)[s]) < args.send_buffer
  /\ SetLink(op, [Link(op) EXCEPT ![s] = Append(@, Sent(s, op))])
  /\ pipe_buffers' = AfterSend(s, op)
  /\ UNCHANGED <<Others, grad_layer>>

Receive(s, op) ==
  LET t == Peer(s, op)
      x == Head(Link(op)[s])
  IN /\ Link(op)[s] # <<>>
     /\ Exec(t, RecvOf(op))
     /\ SetLink(op, [Link(op) EXCEPT ![s] = Tail(@)])
     /\ pipe_buffers' = AfterRecv(t, op, x, pipe_buffers)
     /\ SetGradLayer(t, op, x)
     /\ UNCHANGED Others

\* With nothing buffered, a send returns together with its receive.
Handover(s, op) ==
  LET t == Peer(s, op)
      x == Sent(s, op)
  IN /\ Link(op)[s] = <<>>
     /\ Executes(s, op) /\ Executes(t, RecvOf(op))
     /\ cmds' = [cmds EXCEPT ![s] = Tail(@), ![t] = Tail(@)]
     /\ pipe_buffers' = AfterRecv(t, op, x, AfterSend(s, op))
     /\ SetGradLayer(t, op, x)
     /\ UNCHANGED <<Others, links>>

Transfer == \E s \in Stages, op \in {"SendActivation", "SendGrad"} :
              Peer(s, op) \in Stages /\ (Send(s, op) \/ Receive(s, op) \/ Handover(s, op))

-----------------------------------------------------------------------------
\* Computing.

LoadMicroBatch(s) ==
  /\ Exec(s, "LoadMicroBatch")
  /\ loaded' = [loaded EXCEPT ![s] = @ + 1]
  /\ pipe_buffers' = IF First(s)
                     THEN [pipe_buffers EXCEPT ![s][Buffer(s)].inputs = loaded[s] + 1]
                     ELSE [pipe_buffers EXCEPT ![s][Buffer(s)].labels = loaded[s] + 1]
  /\ UNCHANGED <<args, schedule, grad_layer, loss, links, store, params, fwd, bwd>>

ForwardPass(s) ==
  LET here == pipe_buffers[s][Buffer(s)]
  IN /\ Exec(s, "ForwardPass")
     /\ pipe_buffers' = [pipe_buffers EXCEPT ![s][Buffer(s)].outputs = here.inputs]
     /\ loss' = IF ~Last(s) THEN loss
                ELSE IF here.inputs = here.labels THEN here.inputs ELSE Garbage
     /\ fwd' = [fwd EXCEPT ![s] = Append(@, here.inputs)]
     /\ UNCHANGED <<args, schedule, loaded, grad_layer, links, store, params, bwd>>

\* Gradients are those of a microbatch only when the outputs, the input
\* and the incoming gradient all belong to it.
Gradient(s) ==
  LET here == pipe_buffers[s][Buffer(s)]
  IN IF here.inputs = here.outputs
        /\ here.outputs = (IF Last(s) THEN loss ELSE grad_layer[s])
     THEN here.outputs ELSE Garbage

\* The gradients of linear layers' weights and all others.
NoGrads == [weight |-> <<>>, other |-> <<>>]
Join(g, h) == [weight |-> g.weight \o h.weight, other |-> g.other \o h.other]

\* clear_lp_grads, an accumulation of g, and update_hp_grads with the bf16
\* optimizer; an accumulation alone without it.
Accumulate(s, g) ==
  IF args.bf16
  THEN /\ lp_grad' = [lp_grad EXCEPT ![s] = g]
       /\ hp_grad' = [hp_grad EXCEPT ![s] = Join(@, g)]
  ELSE /\ lp_grad' = [lp_grad EXCEPT ![s] = Join(@, g)]
       /\ UNCHANGED hp_grad

\* The gradient of the input; the last stage keeps its outputs.
InputGradient(s) ==
  pipe_buffers' = [pipe_buffers EXCEPT
    ![s][Buffer(s)].input_grad = Gradient(s),
    ![s][Buffer(s)].outputs = IF Last(s) THEN @ ELSE None]

\* WeightGradStore.put applies the gradient of a weight at once.
BackwardPass(s) ==
  /\ Exec(s, "BackwardPass")
  /\ InputGradient(s)
  /\ Accumulate(s, [weight |-> <<Gradient(s)>>, other |-> <<Gradient(s)>>])
  /\ bwd' = [bwd EXCEPT ![s] = Append(@, Gradient(s))]
  /\ UNCHANGED <<args, schedule, loaded, grad_layer, loss, links, store, fwd>>

\* Mutant: the cache is not emptied.
FlushKeepsCache(s, stored) ==
  /\ weight_grad_queue' = [weight_grad_queue EXCEPT ![s] = Append(@, stored)]
  /\ cache' = [cache EXCEPT ![s] = stored]

\* WeightGradStore.flush of a cache that holds stored.
Flush(s, stored) ==
  /\ weight_grad_queue' = [weight_grad_queue EXCEPT ![s] = Append(@, stored)]
  /\ cache' = [cache EXCEPT ![s] = <<>>]

\* _exec_backward_only_pass: put appends to the cache instead.
BackwardOnlyPass(s) ==
  /\ Exec(s, "BackwardOnlyPass")
  /\ InputGradient(s)
  /\ Accumulate(s, [weight |-> <<>>, other |-> <<Gradient(s)>>])
  /\ Flush(s, Append(cache[s], Gradient(s)))
  /\ bwd' = [bwd EXCEPT ![s] = Append(@, Gradient(s))]
  /\ UNCHANGED <<args, schedule, loaded, grad_layer, loss, links, fwd>>

\* weight_grad_queue.get()
Take(queue) == [first |-> Head(queue), rest |-> Tail(queue)]

\* _exec_weight_pass; pop asserts that the queue is not empty.
WeightPass(s) ==
  LET popped == Take(weight_grad_queue[s])
  IN /\ Exec(s, "WeightPass")
     /\ weight_grad_queue[s] # <<>>
     /\ weight_grad_queue' = [weight_grad_queue EXCEPT ![s] = popped.rest]
     /\ Accumulate(s, [weight |-> popped.first, other |-> <<>>])
     /\ UNCHANGED <<args, schedule, loaded, pipe_buffers, grad_layer, loss, links,
                    cache, fwd, bwd>>

ReduceGrads(s) ==
  /\ Exec(s, "ReduceGrads")
  /\ hp_grad' = IF args.bf16 THEN hp_grad ELSE [hp_grad EXCEPT ![s] = lp_grad[s]]
  /\ UNCHANGED <<args, schedule, loaded, pipe_buffers, grad_layer, loss, links, store,
                 lp_grad, fwd, bwd>>

OptimizerStep(s) ==
  /\ Exec(s, "OptimizerStep")
  /\ UNCHANGED <<args, schedule, loaded, pipe_buffers, grad_layer, loss, links, store,
                 params, fwd, bwd>>

Init ==
  /\ args \in Calls
  /\ forward = [s \in Stages |-> 0]
  /\ backward = [s \in Stages |-> 0]
  /\ weight = [s \in Stages |-> 0]
  /\ ended = [s \in Stages |-> FALSE]
  /\ cmds = [s \in Stages |-> <<>>]
  /\ loaded = [s \in Stages |-> 0]
  /\ pipe_buffers = [s \in Stages |-> [b \in 0 .. P-s-1 |->
       [inputs |-> None, labels |-> None, outputs |-> None, input_grad |-> None]]]
  /\ grad_layer = [s \in Stages |-> None]
  /\ loss = None
  /\ acts = [s \in Stages |-> <<>>] /\ grads = [s \in Stages |-> <<>>]
  /\ cache = [s \in Stages |-> <<>>] /\ weight_grad_queue = [s \in Stages |-> <<>>]
  /\ lp_grad = [s \in Stages |-> NoGrads] /\ hp_grad = [s \in Stages |-> NoGrads]
  /\ fwd = [s \in Stages |-> <<>>] /\ bwd = [s \in Stages |-> <<>>]

Step(s) ==
  \/ Yield(s) \/ LoadMicroBatch(s) \/ ForwardPass(s) \/ BackwardPass(s)
  \/ BackwardOnlyPass(s) \/ WeightPass(s) \/ ReduceGrads(s) \/ OptimizerStep(s)

Done(s) == ended[s] /\ cmds[s] = <<>>
Trained == (\A s \in Stages : Done(s)) /\ UNCHANGED vars

Next == Transfer \/ (\E s \in Stages : Step(s)) \/ Trained

\* Stages run on their own devices, and the transport keeps moving.
Fairness == WF_vars(Transfer) /\ \A s \in Stages : WF_vars(Step(s))

Spec == Init /\ [][Next]_vars /\ Fairness

-----------------------------------------------------------------------------
Ops == {"RecvActivation", "LoadMicroBatch", "ForwardPass", "SendActivation", "RecvGrad",
        "BackwardPass", "BackwardOnlyPass", "SendGrad", "WeightPass", "ReduceGrads",
        "OptimizerStep"}
Grads == [weight : Seq(Nat), other : Seq(Nat)]

\* The types of the variables; instructions name buffers that exist.
TypeOK ==
  /\ args \in Calls
  /\ {forward, backward, weight, loaded, grad_layer} \subseteq [Stages -> Nat]
  /\ ended \in [Stages -> BOOLEAN]
  /\ \A s \in Stages :
       /\ cmds[s] \in Seq([op : Ops, buffer : 0 .. P-s-1])
       /\ pipe_buffers[s] \in [0 .. P-s-1 -> [inputs : Nat, labels : Nat, outputs : Nat,
                                              input_grad : Nat]]
  /\ loss \in Nat
  /\ {acts, grads, cache, fwd, bwd} \subseteq [Stages -> Seq(Nat)]
  /\ weight_grad_queue \in [Stages -> Seq(Seq(Nat))]
  /\ {lp_grad, hp_grad} \subseteq [Stages -> Grads]

InOrder(q) == \A k \in 1 .. Len(q) : q[k] = k

\* "assert cls.weight_grad_queue.qsize() > 0": a WeightPass finds a W.
WeightPassFindsW(s) == Executes(s, "WeightPass") => weight_grad_queue[s] # <<>>

\* Every stage passes the microbatches forward and backward in order, no
\* WeightPass comes before its W, and no pass mixes two microbatches: no
\* pipe buffer is filled again while its microbatch is outstanding, and
\* grad_layer is always the gradient of the outputs that are next.
PassesInOrder ==
  \A s \in Stages : InOrder(fwd[s]) /\ InOrder(bwd[s]) /\ WeightPassFindsW(s)

\* q holds every microbatch once.
EachOnce(q) == Len(q) = M /\ {q[k] : k \in 1 .. Len(q)} = 1 .. M

\* "bit-to-bit exact semantics when compared to 1F1B": with exact
\* semantics weight gradients are accumulated in the order of the
\* microbatches, as 1F1B does.
ExactSemantics(s) ==
  args.exact => InOrder(IF args.bf16 THEN hp_grad[s].weight ELSE lp_grad[s].weight)

\* When the optimizer steps, every microbatch has been accumulated once in
\* the gradients of all parameters, and nothing is left to be applied to
\* the next batch; until then they are accumulated in the promised order.
GradsComplete ==
  \A s \in Stages :
    /\ ExactSemantics(s)
    /\ Executes(s, "OptimizerStep") =>
         /\ EachOnce(hp_grad[s].weight) /\ EachOnce(hp_grad[s].other)
         /\ weight_grad_queue[s] = <<>> /\ cache[s] = <<>>

\* The memory of ZB-H1 is that of 1F1B: microbatches a stage holds
\* activations or a W for are never more than the stages.
MemoryAs1F1B ==
  \A s \in Stages : Len(fwd[s]) - Len(bwd[s]) + Len(weight_grad_queue[s]) <= P

\* Every stage gets to the end of the batch, with nothing left in transit.
Termination ==
  <>[](\A s \in Stages : Done(s) /\ acts[s] = <<>> /\ grads[s] = <<>>)

\* The schedule implements the abstract flush with the activations of 1F1B.
PF == INSTANCE PipelineFlush WITH
  num_microbatches <- M,
  forward_only <- FALSE,
  Limit <- [s \in Stages |-> P - s],
  fwd <- [s \in Stages |-> {fwd[s][k] : k \in 1 .. Len(fwd[s])}],
  bwd <- [s \in Stages |-> {bwd[s][k] : k \in 1 .. Len(bwd[s])}]

\* Forward and backward passes come in the order of the stages, and stage
\* s never holds more than P - s activations: those of 1F1B.
ImplementsFlush == PF!Spec
=============================================================================
