------------------------------ MODULE OneFOneB ------------------------------
(***************************************************************************)
(* forward_backward_pipelining_without_interleaving                        *)
(* (megatron/core/pipeline_parallel/schedules.py): the 1F1B schedule that  *)
(* every pipeline stage runs by itself, and the point-to-point requests    *)
(* (p2p_communication.py) through which the stages exchange activations    *)
(* and gradients.  Messages carry no tag: the k-th tensor sent on a link   *)
(* is the one the k-th receive on it returns.                              *)
(*                                                                         *)
(* A tensor is abstracted to the number of the microbatch it belongs to.   *)
(* An action of a stage is the code between two p2p calls: it starts when  *)
(* every request of the previous call has completed (the req.wait() loop   *)
(* of _communicate) and ends by posting the requests of the next call.     *)
(***************************************************************************)
EXTENDS Integers, Sequences, FiniteSets

CONSTANTS P,      \* get_pipeline_model_parallel_world_size()
          Calls   \* the arguments and configurations a call may have

Call == [num_microbatches : Nat \ {0}, forward_only : BOOLEAN,
         grad_sync_func : BOOLEAN,  \* config.grad_sync_func is not None
         batch_p2p_comm : BOOLEAN,  \* config.batch_p2p_comm
         send_buffer : Nat]         \* tensors a link holds before its receive

ASSUME PAssumption == P \in Nat \ {0, 1}
ASSUME CallsAssumption == Calls \subseteq Call

Stages == 0 .. P-1
Dirs == {"next", "prev"}

None == 0      \* no tensor
Garbage == 0   \* the result of autograd on tensors that do not belong together

VARIABLES
  args,           \* the call being run, the same on every stage
  pc,             \* pc[s]: where stage s stands
  reqs,           \* reqs[s]: requests of the last p2p call, not yet complete
  tensor_send,    \* tensor_send[s]: next |-> output_tensor, prev |-> input_tensor_grad
  tensor_recv,    \* tensor_recv[s]: prev |-> input_tensor, next |-> output_tensor_grad
  chan,           \* chan[s][d]: tensors sent by s towards d and not yet received
  input_tensors, output_tensors,  \* saved for the backward passes
  fwd,            \* fwd[s]: microbatches forward_step ran on, in order; its length is
                  \* the position of data_iterator, and on the last stage it is
                  \* forward_data_store
  main_grad,      \* main_grad[s]: microbatches accumulated in the gradients, in order
  grad_sync,      \* grad_sync[s]: no_sync_context is None
  reductions      \* reductions[s]: for every data-parallel reduction launched, how
                  \* many backward passes it covers

local == <<input_tensors, output_tensors, fwd, main_grad, grad_sync, reductions>>
vars == <<args, pc, reqs, tensor_send, tensor_recv, chan, local>>

Min2(a, b) == IF a < b THEN a ELSE b

M == args.num_microbatches
NumWarmupExtra(s) == Min2(P - s, M)  \* mutant: one warmup microbatch too many
NumWarmup(s) == Min2(P - s - 1, M)   \* num_warmup_microbatches
NumRemaining(s) == M - NumWarmup(s)  \* num_microbatches_remaining

-----------------------------------------------------------------------------
\* Point-to-point requests.

Peer(s, d) == IF d = "next" THEN s + 1 ELSE s - 1
Opposite(d) == IF d = "next" THEN "prev" ELSE "next"
HasPeer(s, d) == Peer(s, d) \in Stages

Send(d) == <<"send", d>>
Recv(d) == <<"recv", d>>
Requests == {"send", "recv"} \X Dirs

\* Mutant: the wrapped-around neighbour is not left out.
PostWrapped(s, ops) == reqs' = [reqs EXCEPT ![s] = ops]

\* isend and irecv are skipped towards a stage that does not exist.
Post(s, ops) == reqs' = [reqs EXCEPT ![s] = {o \in ops : HasPeer(s, o[2])}]

\* Mutant: every rank posts its sends first.
PostOrderSendsFirst(s, o) ==
  CASE o = Send("next") -> 1 [] o = Send("prev") -> 2
    [] o = Recv("prev") -> 3 [] o = Recv("next") -> 4

\* The position of a request in the order _p2p_ops posts them: even ranks
\* send_next, recv_prev, send_prev, recv_next, odd ranks the complement.
PostOrder(s, o) ==
  IF s % 2 = 0
  THEN CASE o = Send("next") -> 1 [] o = Recv("prev") -> 2
         [] o = Send("prev") -> 3 [] o = Recv("next") -> 4
  ELSE CASE o = Recv("prev") -> 1 [] o = Send("next") -> 2
         [] o = Recv("next") -> 3 [] o = Send("prev") -> 4

\* Requests posted together by batch_isend_irecv make progress in any
\* order; requests to one peer posted one by one are served in the order
\* they were posted in, a send as much as a receive.
Ready(s, o) ==
  /\ o \in reqs[s]
  /\ \/ args.batch_p2p_comm
     \/ \A x \in reqs[s] : x[2] = o[2] => PostOrder(s, o) <= PostOrder(s, x)

Complete(s, o) == [reqs EXCEPT ![s] = @ \ {o}]

\* A send that finds room in the transport's buffer completes at once.
Buffer(s, d) ==
  /\ Ready(s, Send(d))
  /\ Len(chan[s][d]) < args.send_buffer
  /\ chan' = [chan EXCEPT ![s][d] = Append(@, tensor_send[s][d])]
  /\ reqs' = Complete(s, Send(d))
  /\ UNCHANGED <<args, pc, tensor_send, tensor_recv, local>>

\* A receive takes the oldest tensor of its link.
Receive(s, d) ==
  LET from == Peer(s, d)
  IN /\ Ready(s, Recv(d))
     /\ chan[from][Opposite(d)] # <<>>
     /\ tensor_recv' = [tensor_recv EXCEPT ![s][d] = Head(chan[from][Opposite(d)])]
     /\ chan' = [chan EXCEPT ![from][Opposite(d)] = Tail(@)]
     /\ reqs' = Complete(s, Recv(d))
     /\ UNCHANGED <<args, pc, tensor_send, local>>

\* With nothing buffered, a send and the receive at the other end complete
\* together.
Handover(s, d) ==
  LET to == Peer(s, d)
  IN /\ Ready(s, Send(d))
     /\ Ready(to, Recv(Opposite(d)))
     /\ chan[s][d] = <<>>
     /\ tensor_recv' = [tensor_recv EXCEPT ![to][Opposite(d)] = tensor_send[s][d]]
     /\ reqs' = [reqs EXCEPT ![s] = @ \ {Send(d)}, ![to] = @ \ {Recv(Opposite(d))}]
     /\ UNCHANGED <<args, pc, tensor_send, chan, local>>

Transfer == \E s \in Stages, d \in Dirs :
              HasPeer(s, d) /\ (Buffer(s, d) \/ Receive(s, d) \/ Handover(s, d))

-----------------------------------------------------------------------------
\* One stage.  At(s, l): s has left its last p2p call and stands at l.

At(s, l) == pc[s] = l /\ reqs[s] = {}
Goto(s, l) == pc' = [pc EXCEPT ![s] = l]

\* forward_step: the first stage takes the next microbatch of its
\* data_iterator, the others compute on input_tensor.
ForwardOutput(s) == IF s = 0 THEN Len(fwd[s]) + 1 ELSE tensor_recv[s]["prev"]
ForwardStep(s) == fwd' = [fwd EXCEPT ![s] = Append(@, ForwardOutput(s))]

\* backward_step: the gradients are those of the microbatch of output when
\* the incoming gradient is that microbatch's too.  A pass that runs
\* outside the no_sync context launches a reduction of all that has been
\* accumulated.
Gradient(s, output, grad) == IF s = P-1 \/ grad = output THEN output ELSE Garbage
InputGrad(s, input, output, grad) ==
  IF input = output THEN Gradient(s, output, grad) ELSE Garbage
BackwardStep(s, output) ==
  /\ main_grad' = [main_grad EXCEPT
                     ![s] = Append(@, Gradient(s, output, tensor_recv[s]["next"]))]
  /\ reductions' = IF grad_sync[s]
                   THEN [reductions EXCEPT ![s] = Append(@, Len(main_grad[s]) + 1)]
                   ELSE reductions

\* Mutant: pop() instead of pop(0).
PopLast(saved) == [first |-> saved[Len(saved)],
                   rest |-> SubSeq(saved, 1, Len(saved) - 1)]
\* pop(0) of a list of saved tensors.
Pop(saved) == [first |-> Head(saved), rest |-> Tail(saved)]

Init ==
  /\ args \in Calls
  /\ pc = [s \in Stages |-> "warmup"]
  /\ reqs = [s \in Stages |-> {}]
  /\ tensor_send = [s \in Stages |-> [d \in Dirs |-> None]]
  /\ tensor_recv = [s \in Stages |-> [d \in Dirs |-> None]]
  /\ chan = [s \in Stages |-> [d \in Dirs |-> <<>>]]
  /\ input_tensors = [s \in Stages |-> <<>>]
  /\ output_tensors = [s \in Stages |-> <<>>]
  /\ fwd = [s \in Stages |-> <<>>]
  /\ main_grad = [s \in Stages |-> <<>>]
  /\ grad_sync = [s \in Stages |-> FALSE]   \* disable_grad_sync()
  /\ reductions = [s \in Stages |-> <<>>]

\* Warmup loop: i = Len(fwd[s]) counts its iterations.
WarmupRecv(s) ==
  /\ At(s, "warmup")
  /\ Len(fwd[s]) < NumWarmup(s)
  /\ Post(s, {Recv("prev")})
  /\ tensor_recv' = [tensor_recv EXCEPT ![s]["prev"] = None]
  /\ Goto(s, "warmup_forward")
  /\ UNCHANGED <<args, tensor_send, chan, local>>

WarmupForward(s) ==
  /\ At(s, "warmup_forward")
  /\ ForwardStep(s)
  /\ tensor_send' = [tensor_send EXCEPT ![s]["next"] = ForwardOutput(s)]
  /\ Post(s, {Send("next")})
  /\ IF args.forward_only
     THEN UNCHANGED <<input_tensors, output_tensors>>
     ELSE /\ input_tensors' = [input_tensors EXCEPT
                                 ![s] = Append(@, tensor_recv[s]["prev"])]
          /\ output_tensors' = [output_tensors EXCEPT
                                  ![s] = Append(@, ForwardOutput(s))]
  /\ Goto(s, "warmup")
  /\ UNCHANGED <<args, tensor_recv, chan, main_grad, grad_sync, reductions>>

\* Before running 1F1B: receive the first input tensor of the steady state.
EndWarmup(s) ==
  /\ At(s, "warmup")
  /\ Len(fwd[s]) = NumWarmup(s)
  /\ IF NumRemaining(s) > 0
     THEN /\ Post(s, {Recv("prev")})
          /\ tensor_recv' = [tensor_recv EXCEPT ![s]["prev"] = None]
          /\ Goto(s, "steady_forward")
     ELSE Goto(s, "cooldown") /\ UNCHANGED <<reqs, tensor_recv>>
  /\ UNCHANGED <<args, tensor_send, chan, local>>

\* Steady state, i = Len(fwd[s]) - NumWarmup(s).
SteadyForward(s) ==
  /\ At(s, "steady_forward")
  /\ ForwardStep(s)
  /\ tensor_send' = [tensor_send EXCEPT ![s]["next"] = ForwardOutput(s)]
  /\ IF args.forward_only
     THEN /\ Post(s, {Send("next")})
          /\ Goto(s, "steady_recv")
          /\ UNCHANGED tensor_recv
     ELSE /\ Post(s, {Send("next"), Recv("next")})
          /\ Goto(s, "steady_backward")
          /\ tensor_recv' = [tensor_recv EXCEPT ![s]["next"] = None]
  /\ UNCHANGED <<args, chan, input_tensors, output_tensors, main_grad, grad_sync, reductions>>

\* forward_only: receive the next input tensor unless this was the last
\* iteration.
SteadyRecv(s) ==
  /\ At(s, "steady_recv")
  /\ IF Len(fwd[s]) < M
     THEN /\ Post(s, {Recv("prev")})
          /\ tensor_recv' = [tensor_recv EXCEPT ![s]["prev"] = None]
          /\ Goto(s, "steady_forward")
     ELSE Goto(s, "cooldown") /\ UNCHANGED <<reqs, tensor_recv>>
  /\ UNCHANGED <<args, tensor_send, chan, local>>

SteadyBackward(s) ==
  LET input == Pop(Append(input_tensors[s], tensor_recv[s]["prev"]))
      output == Pop(Append(output_tensors[s], tensor_send[s]["next"]))
  IN /\ At(s, "steady_backward")
     /\ input_tensors' = [input_tensors EXCEPT ![s] = input.rest]
     /\ output_tensors' = [output_tensors EXCEPT ![s] = output.rest]
     /\ BackwardStep(s, output.first)
     /\ tensor_send' = [tensor_send EXCEPT
          ![s] = [next |-> output.first,
                  prev |-> InputGrad(s, input.first, output.first,
                                     tensor_recv[s]["next"])]]
     /\ tensor_recv' = [tensor_recv EXCEPT ![s]["prev"] = None]
     /\ IF Len(fwd[s]) = M
        THEN Post(s, {Send("prev")}) /\ Goto(s, "cooldown")
        ELSE Post(s, {Send("prev"), Recv("prev")}) /\ Goto(s, "steady_forward")
     /\ UNCHANGED <<args, chan, fwd, grad_sync>>

\* Cooldown loop, i = Len(main_grad[s]) - NumRemaining(s).
FirstCooldown(s) == Len(main_grad[s]) = NumRemaining(s)  \* mutant: i == 0
LastCooldown(s) == Len(main_grad[s]) = M - 1   \* i == num_warmup_microbatches-1

CooldownRecv(s) ==
  /\ At(s, "cooldown")
  /\ ~args.forward_only
  /\ Len(main_grad[s]) < M
  /\ grad_sync' = [grad_sync EXCEPT
       ![s] = @ \/ (LastCooldown(s) /\ (~args.grad_sync_func \/ s = 0))]
  /\ tensor_send' = [tensor_send EXCEPT ![s]["next"] = Pop(output_tensors[s]).first]
  /\ tensor_recv' = [tensor_recv EXCEPT
       ![s] = [prev |-> Pop(input_tensors[s]).first, next |-> None]]
  /\ input_tensors' = [input_tensors EXCEPT ![s] = Pop(@).rest]
  /\ output_tensors' = [output_tensors EXCEPT ![s] = Pop(@).rest]
  /\ Post(s, {Recv("next")})
  /\ Goto(s, "cooldown_backward")
  /\ UNCHANGED <<args, chan, fwd, main_grad, reductions>>

CooldownBackward(s) ==
  /\ At(s, "cooldown_backward")
  /\ BackwardStep(s, tensor_send[s]["next"])
  /\ tensor_send' = [tensor_send EXCEPT
       ![s]["prev"] = InputGrad(s, tensor_recv[s]["prev"], tensor_send[s]["next"],
                                tensor_recv[s]["next"])]
  /\ Post(s, {Send("prev")})
  /\ Goto(s, "cooldown")
  /\ UNCHANGED <<args, tensor_recv, chan, input_tensors, output_tensors, fwd, grad_sync>>

\* Launch any remaining grad reductions, and return.
Finish(s) ==
  /\ At(s, "cooldown")
  /\ args.forward_only \/ Len(main_grad[s]) = M
  /\ grad_sync' = [grad_sync EXCEPT ![s] = TRUE]
  /\ reductions' = IF ~grad_sync[s] /\ args.grad_sync_func
                   THEN [reductions EXCEPT ![s] = Append(@, Len(main_grad[s]))]
                   ELSE reductions
  /\ Goto(s, "done")
  /\ UNCHANGED <<args, reqs, tensor_send, tensor_recv, chan, input_tensors,
                 output_tensors, fwd, main_grad>>

Step(s) ==
  \/ WarmupRecv(s) \/ WarmupForward(s) \/ EndWarmup(s)
  \/ SteadyForward(s) \/ SteadyRecv(s) \/ SteadyBackward(s)
  \/ CooldownRecv(s) \/ CooldownBackward(s) \/ Finish(s)

\* Every stage has returned.
Returned == /\ \A s \in Stages : pc[s] = "done"
            /\ UNCHANGED vars

Next == Transfer \/ (\E s \in Stages : Step(s)) \/ Returned

\* Stages run on their own devices and the transport keeps moving tensors:
\* neither is ever stopped by the other.
Fairness == WF_vars(Transfer) /\ \A s \in Stages : WF_vars(Step(s))

Spec == Init /\ [][Next]_vars /\ Fairness

-----------------------------------------------------------------------------
Labels == {"warmup", "warmup_forward", "steady_forward", "steady_recv",
           "steady_backward", "cooldown", "cooldown_backward", "done"}

\* The types of the variables; no stage ever waits for a stage that does
\* not exist.
TypeOK ==
  /\ args \in Calls
  /\ pc \in [Stages -> Labels]
  /\ reqs \in [Stages -> SUBSET Requests]
  /\ \A s \in Stages : \A o \in reqs[s] : HasPeer(s, o[2])
  /\ tensor_send \in [Stages -> [Dirs -> Nat]]
  /\ tensor_recv \in [Stages -> [Dirs -> Nat]]
  /\ chan \in [Stages -> [Dirs -> Seq(Nat)]]
  /\ input_tensors \in [Stages -> Seq(Nat)]
  /\ output_tensors \in [Stages -> Seq(Nat)]
  /\ fwd \in [Stages -> Seq(Nat)]
  /\ main_grad \in [Stages -> Seq(Nat)]
  /\ grad_sync \in [Stages -> BOOLEAN]
  /\ reductions \in [Stages -> Seq(Nat)]

\* The k-th forward pass of every stage is the k-th microbatch: the
\* activation a stage receives is the one its own data_iterator stands at,
\* so the last stage computes the loss of an output against its own labels.
\* And the k-th backward pass accumulates the gradients of the k-th
\* microbatch: the saved output and the received gradient always belong
\* together, though messages carry no tag.
PassesInOrder ==
  \A s \in Stages :
    /\ \A k \in 1 .. Len(fwd[s]) : fwd[s][k] = k
    /\ \A k \in 1 .. Len(main_grad[s]) : main_grad[s][k] = k

\* Microbatches whose activations stage s keeps for a backward pass.
Outstanding(s) ==
  IF args.forward_only THEN {} ELSE Len(main_grad[s]) + 1 .. Len(fwd[s])

\* "The maximum outstanding micro-batch backpropagations" of stage s.
MaxOutstanding(s) == NumWarmup(s) + 1

\* Mutant: the steady state counts i from 0 again.
CheckpointAllRestarted(s, k, n) ==
  (IF k <= NumWarmup(s) THEN k - 1 ELSE k - 1 - NumWarmup(s)) % MaxOutstanding(s) >= n

\* checkpoint_activations_microbatch of the k-th forward pass of stage s
\* under config.num_microbatches_with_partial_activation_checkpoints = n.
CheckpointAll(s, k, n) == (k - 1) % MaxOutstanding(s) >= n

\* At most n of the microbatches a stage holds activations for were run
\* without checkpointing all layers, however the window moves over the
\* boundary between warmup and steady state.
PartialCheckpointWindow ==
  \A s \in Stages, n \in 0 .. P :
    Cardinality({k \in Outstanding(s) : ~CheckpointAll(s, k, n)}) <= n

\* When a stage returns, its gradients have been reduced once, after the
\* last backward pass.
ReducedOnce(s) == pc[s] = "done" /\ ~args.forward_only => reductions[s] = <<M>>

\* ... on the stages that have a cooldown phase, or whose gradients
\* grad_sync_func reduces.
GradsReduced ==
  \A s \in Stages : NumWarmup(s) > 0 \/ args.grad_sync_func => ReducedOnce(s)

\* ... on every stage.
GradsReducedOnEveryStage == \A s \in Stages : ReducedOnce(s)

\* Every stage returns from the call, with nothing left in the transport.
Termination ==
  <>[](\A s \in Stages : pc[s] = "done" /\ \A d \in Dirs : chan[s][d] = <<>>)

\* The schedule implements the abstract flush.
Flush == INSTANCE PipelineFlush WITH
  num_microbatches <- M,
  forward_only <- args.forward_only,
  Limit <- [s \in Stages |-> P - s],
  fwd <- [s \in Stages |-> {fwd[s][k] : k \in 1 .. Len(fwd[s])}],
  bwd <- [s \in Stages |-> {main_grad[s][k] : k \in 1 .. Len(main_grad[s])}]

ImplementsFlush == Flush!Spec
=============================================================================
