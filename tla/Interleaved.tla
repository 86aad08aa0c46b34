----------------------------- MODULE Interleaved -----------------------------
(***************************************************************************)
(* forward_backward_pipelining_with_interleaving                           *)
(* (megatron/core/pipeline_parallel/schedules.py): every stage holds       *)
(* several chunks of the model, and chunk c of stage s is virtual stage    *)
(* c * P + s.  Every stage computes by itself, from the number of its      *)
(* iteration alone, which chunk runs next, whether its neighbours send and *)
(* in which list what they send belongs; the last stage sends to the first.*)
(*                                                                         *)
(* A tensor is the microbatch it belongs to and the virtual stage that     *)
(* computed it.  An action is an iteration of a loop: it starts when every *)
(* request of the previous p2p call has completed and ends by posting the  *)
(* next.  The placeholder a call returns is put in its list when the call  *)
(* is posted, and is in the model when it is filled.                       *)
(***************************************************************************)
EXTENDS Integers, Sequences, FiniteSets

CONSTANTS P,      \* pipeline_parallel_size
          V,      \* num_model_chunks
          Calls   \* the arguments and configurations a call may have

Call == [num_microbatches : Nat \ {0}, forward_only : BOOLEAN,
         grad_sync_func : BOOLEAN,  \* config.grad_sync_func is not None
         batch_p2p_comm : BOOLEAN,  \* config.batch_p2p_comm
         send_buffer : Nat]         \* tensors a link holds before its receive

\* Interleaving needs more than two stages (arguments.py), and microbatches
\* in groups of P.
ASSUME PAssumption == P \in Nat /\ P > 2
ASSUME VAssumption == V \in Nat /\ V > 1
ASSUME CallsAssumption == /\ Calls \subseteq Call
                          /\ \A c \in Calls : c.num_microbatches % P = 0

Stages == 0 .. P-1
Chunks == 0 .. V-1
Dirs == {"next", "prev"}

VARIABLES
  args,         \* the call being run, the same on every stage
  pc,           \* pc[s]: the loop stage s is in
  forward_k, backward_k,  \* iterations done, over all chunks
  reqs,         \* reqs[s]: requests of the last p2p call, not yet complete
  send,         \* send[s][d]: the tensor the last call sends towards d
  dest,         \* dest[s][d]: the chunk the last call receives for from d
  chan,         \* chan[s][d]: tensors sent by s towards d and not yet received
  input_tensors, output_tensors, output_tensor_grads,  \* [s][chunk]: the lists
  fwd, bwd,     \* [s][chunk]: microbatches passed forward and backward, in order
  grad_sync,    \* grad_sync[s]: no_sync_context is None
  synchronized, \* synchronized[s]: synchronized_model_chunks
  reductions,   \* [s][chunk]: how many backward passes each reduction covers
  param_synced  \* param_synced[s]: chunks param_sync_func has been called for

counters == <<pc, forward_k, backward_k>>
requests == <<reqs, send, dest>>
lists == <<input_tensors, output_tensors, output_tensor_grads>>
sync == <<grad_sync, synchronized, reductions>>
vars == <<args, counters, requests, chan, lists, fwd, bwd, sync, param_synced>>

Min2(a, b) == IF a < b THEN a ELSE b
Max2(a, b) == IF a < b THEN b ELSE a

M == args.num_microbatches
Total == M * V          \* total_num_microbatches

AllWarmup == ~args.forward_only /\ M = P   \* all_warmup_microbatches

\* Mutant: a group of microbatches too many before the steady state.
NumWarmupGroupMore(s) ==
  IF args.forward_only \/ AllWarmup THEN Total ELSE Min2((P - s - 1) * 2 + V * P, Total)

\* num_warmup_microbatches
NumWarmup(s) ==
  IF args.forward_only \/ AllWarmup THEN Total
  ELSE Min2((P - s - 1) * 2 + (V - 1) * P, Total)

\* get_model_chunk_id: groups of P microbatches go through the chunks.
Chunk(k, forward) ==
  LET c == (k % (P * V)) \div P
  IN IF forward THEN c ELSE V - c - 1

\* Mutant: the last group is not waited for.
LastInAnyGroup(k) == k % P = P - 1

\* is_last_microbatch_for_model_chunk
LastForChunk(k) == k \div (P * V) = Total \div (P * V) - 1 /\ k % P = P - 1
\* is_first_microbatch_for_model_chunk
FirstForChunk(k) == k \div (P * V) = 0 /\ k % P = 0

Virtual(s, c) == c * P + s
FirstVirtual(s, c) == s = 0 /\ c = 0          \* is_pipeline_first_stage()
LastVirtual(s, c) == s = P-1 /\ c = V-1       \* is_pipeline_last_stage()

Tensor(v, m) == [virtual |-> v, mb |-> m]
None == Tensor(-1, 0)
Garbage == Tensor(-2, 0)

-----------------------------------------------------------------------------
\* Point-to-point requests, on a ring of stages.

Opposite(d) == IF d = "next" THEN "prev" ELSE "next"
Peer(s, d) == IF d = "next" THEN (s + 1) % P ELSE (s + P - 1) % P

\* A request is a send or a receive and its direction.  What is None is
\* not sent.
Sends(next, prev) ==
  (IF next # None THEN {<<"send", "next">>} ELSE {})
    \cup (IF prev # None THEN {<<"send", "prev">>} ELSE {})
Recvs(prev, next) ==
  (IF prev THEN {<<"recv", "prev">>} ELSE {})
    \cup (IF next THEN {<<"recv", "next">>} ELSE {})

\* _communicate: sends and receives of one call; what is received goes in
\* the lists of chunks pchunk and nchunk.
Communicate(s, next, prev, recv_prev, pchunk, recv_next, nchunk) ==
  /\ reqs' = [reqs EXCEPT ![s] = Sends(next, prev) \cup Recvs(recv_prev, recv_next)]
  /\ send' = [send EXCEPT ![s] = [next |-> next, prev |-> prev]]
  /\ dest' = [dest EXCEPT ![s] = [prev |-> pchunk, next |-> nchunk]]

\* _p2p_ops posts towards the next rank the send first, and towards the
\* previous one the receive, on even as on odd ranks; batch_isend_irecv
\* posts all together.
Ready(s, op, d) ==
  /\ <<op, d>> \in reqs[s]
  /\ \/ args.batch_p2p_comm
     \/ op = (IF d = "next" THEN "send" ELSE "recv")
     \/ <<IF d = "next" THEN "send" ELSE "recv", d>> \notin reqs[s]

\* The placeholder of stage s for tensors from d is filled with x.
Fill(s, d, x) ==
  IF d = "prev"
  THEN /\ input_tensors' = [input_tensors EXCEPT ![s][dest[s][d]] = Append(@, x)]
       /\ UNCHANGED <<output_tensors, output_tensor_grads>>
  ELSE /\ output_tensor_grads' = [output_tensor_grads EXCEPT ![s][dest[s][d]] = Append(@, x)]
       /\ UNCHANGED <<input_tensors, output_tensors>>

Computed == <<args, counters, send, dest, fwd, bwd, sync, param_synced>>

\* A send that finds room in the transport's buffer completes at once.
Buffer(s, d) ==
  /\ Ready(s, "send", d)
  /\ Len(chan[s][d]) < args.send_buffer
  /\ chan' = [chan EXCEPT ![s][d] = Append(@, send[s][d])]
  /\ reqs' = [reqs EXCEPT ![s] = @ \ {<<"send", d>>}]
  /\ UNCHANGED <<Computed, lists>>

\* A receive takes the oldest tensor of its link.
Receive(s, d) ==
  LET from == Peer(s, d)
      link == chan[from][Opposite(d)]
  IN /\ Ready(s, "recv", d)
     /\ link # <<>>
     /\ Fill(s, d, Head(link))
     /\ chan' = [chan EXCEPT ![from][Opposite(d)] = Tail(@)]
     /\ reqs' = [reqs EXCEPT ![s] = @ \ {<<"recv", d>>}]
     /\ UNCHANGED Computed

\* With nothing buffered, a send and its receive complete together.
Handover(s, d) ==
  LET to == Peer(s, d)
  IN /\ Ready(s, "send", d) /\ Ready(to, "recv", Opposite(d))
     /\ chan[s][d] = <<>>
     /\ Fill(to, Opposite(d), send[s][d])
     /\ reqs' = [reqs EXCEPT ![s] = @ \ {<<"send", d>>},
                             ![to] = @ \ {<<"recv", Opposite(d)>>}]
     /\ UNCHANGED <<Computed, chan>>

Transfer == \E s \in Stages, d \in Dirs : Buffer(s, d) \/ Receive(s, d) \/ Handover(s, d)

-----------------------------------------------------------------------------
\* Forward and backward passes.

LastOf(list) == list[Len(list)]
AllButLast(list) == SubSeq(list, 1, Len(list) - 1)

\* The inputs of chunk c when its forward pass starts: the first virtual
\* stage has no input, for which one None is appended.
Inputs(s, c) ==
  IF FirstVirtual(s, c) /\ Len(input_tensors[s][c]) = Len(output_tensors[s][c])
  THEN Append(input_tensors[s][c], None) ELSE input_tensors[s][c]

\* forward_step: the first virtual stage takes the next microbatch of its
\* data iterator, the others compute on what virtual stage v - 1 computed.
ForwardOutput(s, c, input) ==
  LET v == Virtual(s, c)
  IN IF v = 0 THEN Tensor(v, Len(fwd[s][c]) + 1)
     ELSE IF input.virtual = v - 1 THEN Tensor(v, input.mb) ELSE Garbage

Output(s) == LET c == Chunk(forward_k[s], TRUE)
             IN ForwardOutput(s, c, LastOf(Inputs(s, c)))
\* What is sent downstream.
SentNext(s) == IF LastVirtual(s, Chunk(forward_k[s], TRUE)) THEN None ELSE Output(s)

\* forward_step_helper.  after is appended to the inputs of the chunk that
\* is next when the p2p call of the iteration receives none.
Appended(lists_of, c, tensors) == [lists_of EXCEPT ![c] = @ \o tensors]

ForwardInputs(s) ==
  LET c == Chunk(forward_k[s], TRUE)
  IN [input_tensors[s] EXCEPT ![c] = IF args.forward_only THEN AllButLast(Inputs(s, c))
                                     ELSE Inputs(s, c)]
ForwardOutputs(s) ==
  IF args.forward_only THEN output_tensors[s]
  ELSE Appended(output_tensors[s], Chunk(forward_k[s], TRUE), <<Output(s)>>)

\* The chunk whose parameters this forward pass has to launch the
\* synchronization of, stage s being s iterations ahead.
ParamSyncChunks(s) ==
  LET k == forward_k[s] + s
      c == Chunk(k, TRUE) + 1
  IN IF k < M /\ FirstForChunk(k) /\ 1 < c /\ c < V THEN {c} ELSE {}

ForwardStep(s) ==
  /\ fwd' = [fwd EXCEPT ![s][Chunk(forward_k[s], TRUE)] = Append(@, Output(s).mb)]
  /\ forward_k' = [forward_k EXCEPT ![s] = @ + 1]
  /\ param_synced' = [param_synced EXCEPT ![s] = @ \cup ParamSyncChunks(s)]

\* backward_step on chunk c with the oldest tensors of its lists.  The
\* gradients are those of a microbatch only when the output, the input and
\* the incoming gradient all belong to it and to this virtual stage.
BackwardMb(s, c, input, output, grad) ==
  LET v == Virtual(s, c)
      m == output.mb
  IN IF /\ output = Tensor(v, m)
        /\ input = (IF v = 0 THEN None ELSE Tensor(v - 1, m))
        /\ grad = (IF LastVirtual(s, c) THEN None ELSE Tensor(v + 1, m))
     THEN m ELSE 0

\* The gradients for chunk c when its backward pass starts: the last
\* virtual stage has none, for which one None is appended.
OutGrads(s, c) ==
  IF LastVirtual(s, c) /\ output_tensor_grads[s][c] = <<>> THEN <<None>>
  ELSE output_tensor_grads[s][c]

\* The microbatch stage s passes backward next.
Passed(s) ==
  LET c == Chunk(backward_k[s], FALSE)
  IN BackwardMb(s, c, Head(input_tensors[s][c]), Head(output_tensors[s][c]),
                Head(OutGrads(s, c)))

\* What is sent upstream: nothing by the first virtual stage.
SentPrev(s, mb) ==
  LET c == Chunk(backward_k[s], FALSE)
  IN IF FirstVirtual(s, c) THEN None
     ELSE IF mb = 0 THEN Garbage ELSE Tensor(Virtual(s, c), mb)

\* grad_sync_microbatch_id
GradSyncBack(s) == backward_k[s] - s

\* backward_step_helper.  Without grad_sync_func, the pass that runs
\* outside the no_sync context launches the reduction of its chunk; with
\* it, the reduction of a chunk is launched s iterations after its last.
BackwardStep(s, mb) ==
  LET c == Chunk(backward_k[s], FALSE)
      last == ~args.grad_sync_func /\ LastForChunk(backward_k[s])
      back == GradSyncBack(s)
      custom == args.grad_sync_func /\ back >= 0 /\ LastForChunk(back)
      reduced == Chunk(back, FALSE)
      done == [bwd EXCEPT ![s][c] = Append(@, mb)]
  IN /\ bwd' = done
     /\ backward_k' = [backward_k EXCEPT ![s] = @ + 1]
     /\ reductions' =
          IF last \/ grad_sync[s]
          THEN [reductions EXCEPT ![s][c] = Append(@, Len(done[s][c]))]
          ELSE IF custom
          THEN [reductions EXCEPT ![s][reduced] = Append(@, Len(done[s][reduced]))]
          ELSE reductions
     /\ synchronized' = [synchronized EXCEPT
          ![s] = @ \cup (IF last THEN {c} ELSE {}) \cup (IF custom THEN {reduced} ELSE {})]
     /\ grad_sync' = [grad_sync EXCEPT ![s] = FALSE]   \* disable_grad_sync()

-----------------------------------------------------------------------------
\* One stage.  At(s, l): s has left its last p2p call and stands at l.

At(s, l) == pc[s] = l /\ reqs[s] = {}
Goto(s, l) == pc' = [pc EXCEPT ![s] = l]

NoneUnless(received) == IF received THEN <<>> ELSE <<None>>

\* Receive the first input tensor; synchronize the first two chunks.
Start(s) ==
  /\ At(s, "start")
  /\ Communicate(s, None, None, s > 0, 0, FALSE, 0)
  /\ input_tensors' = [input_tensors EXCEPT ![s] = Appended(@, 0, NoneUnless(s > 0))]
  /\ param_synced' = [param_synced EXCEPT ![s] = {0, 1}]
  /\ Goto(s, "warmup")
  /\ UNCHANGED <<args, forward_k, backward_k, chan, output_tensors, output_tensor_grads,
                 fwd, bwd, sync>>

\* Mutant: the first stage receives for its first chunk too.
WarmupRecvPrevAlways(s) == forward_k[s] # Total - 1
\* Whether a warmup iteration receives an input.
WarmupRecvPrev(s) ==
  ~(s = 0 /\ Chunk(forward_k[s] + 1, TRUE) = 0) /\ forward_k[s] # Total - 1

\* The last warmup iteration also receives the first gradient.
Warmup(s) ==
  LET next == Chunk(forward_k[s] + 1, TRUE)
      recv_prev == WarmupRecvPrev(s)
      last == /\ forward_k[s] = NumWarmup(s) - 1
              /\ ~args.forward_only /\ ~AllWarmup
      recv_next == last /\ s < P-1
  IN /\ At(s, "warmup")
     /\ forward_k[s] < NumWarmup(s)
     /\ ForwardStep(s)
     /\ Communicate(s, SentNext(s), None, recv_prev, next, recv_next, V-1)
     /\ input_tensors' = [input_tensors EXCEPT
          ![s] = Appended(ForwardInputs(s), next, NoneUnless(recv_prev))]
     /\ output_tensors' = [output_tensors EXCEPT ![s] = ForwardOutputs(s)]
     /\ output_tensor_grads' = [output_tensor_grads EXCEPT
          ![s] = IF last THEN Appended(@, V-1, NoneUnless(recv_next)) ELSE @]
     /\ UNCHANGED <<args, pc, backward_k, chan, bwd, sync>>

\* When all microbatches are warmup, the first gradient is received here.
EndWarmup(s) ==
  /\ At(s, "warmup")
  /\ forward_k[s] = NumWarmup(s)
  /\ Goto(s, IF forward_k[s] < Total THEN "steady" ELSE "cooldown")
  /\ IF AllWarmup
     THEN /\ Communicate(s, None, None, FALSE, 0, s < P-1, V-1)
          /\ output_tensor_grads' = [output_tensor_grads EXCEPT
               ![s] = Appended(@, V-1, NoneUnless(s < P-1))]
     ELSE UNCHANGED <<requests, output_tensor_grads>>
  /\ UNCHANGED <<args, forward_k, backward_k, chan, input_tensors, output_tensors,
                 fwd, bwd, sync, param_synced>>

\* A steady iteration: a forward pass, ...
SteadyForward(s) ==
  /\ At(s, "steady")
  /\ ForwardStep(s)
  /\ send' = [send EXCEPT ![s]["next"] = SentNext(s)]
  /\ input_tensors' = [input_tensors EXCEPT ![s] = ForwardInputs(s)]
  /\ output_tensors' = [output_tensors EXCEPT ![s] = ForwardOutputs(s)]
  /\ Goto(s, "steady_backward")
  /\ UNCHANGED <<args, backward_k, reqs, dest, chan, output_tensor_grads, bwd, sync>>

\* Mutant: the wrap-around into the next chunk is forgotten.
PrevChunkSame(s, k) ==
  IF s = 0 THEN Chunk(k - (P - 1), TRUE) ELSE Chunk(k + 1, TRUE)

\* The chunk the tensor from the previous stage is for after iteration k
\* of the forward passes; the last stage is P - 1 iterations behind.
PrevChunk(s, k) ==
  IF s = 0 THEN Chunk(k - (P - 1), TRUE) + 1 ELSE Chunk(k + 1, TRUE)

\* Mutant: the last virtual stage is taken to send to the first.
PrevSendsAlways(s, k) == k # Total - 1
\* Whether there is such a tensor.  The one after the last iteration has
\* been received before the loop.
PrevSends(s, k) == ~(s = 0 /\ PrevChunk(s, k) = V) /\ k # Total - 1

\* ... and that the gradient from the next stage is for after iteration k
\* of the backward passes; the last stage is that much ahead of the first.
NextChunk(s, k) ==
  IF s = P-1 THEN Chunk(k - (P - 1), FALSE) - 1 ELSE Chunk(k + 1, FALSE)

\* ... a backward pass, and all four tensors in one call.
SteadyBackward(s) ==
  LET k == forward_k[s] - 1
      c == Chunk(backward_k[s], FALSE)
      nchunk == NextChunk(s, backward_k[s])
      mb == Passed(s)
  IN /\ At(s, "steady_backward")
     /\ BackwardStep(s, mb)
     /\ Communicate(s, send[s]["next"], SentPrev(s, mb),
                    PrevSends(s, k), PrevChunk(s, k),
                    ~(s = P-1 /\ nchunk = -1), nchunk)
     /\ input_tensors' = [input_tensors EXCEPT ![s][c] = Tail(@)]
     /\ output_tensors' = [output_tensors EXCEPT ![s][c] = Tail(@)]
     /\ output_tensor_grads' = [output_tensor_grads EXCEPT ![s][c] = Tail(OutGrads(s, c))]
     /\ Goto(s, IF forward_k[s] = Total THEN "cooldown" ELSE "steady")
     /\ UNCHANGED <<args, forward_k, chan, fwd, param_synced>>

Cooldown(s) ==
  LET c == Chunk(backward_k[s], FALSE)
      next == Chunk(backward_k[s] + 1, FALSE)
      recv_next == ~(s = P-1 /\ next = V-1) /\ backward_k[s] # Total - 1
      mb == Passed(s)
  IN /\ At(s, "cooldown")
     /\ ~args.forward_only
     /\ backward_k[s] < Total
     /\ BackwardStep(s, mb)
     /\ Communicate(s, None, SentPrev(s, mb), FALSE, 0, recv_next, next)
     /\ input_tensors' = [input_tensors EXCEPT ![s][c] = Tail(@)]
     /\ output_tensors' = [output_tensors EXCEPT ![s][c] = Tail(@)]
     /\ output_tensor_grads' = [output_tensor_grads EXCEPT
          ![s] = Appended([@ EXCEPT ![c] = Tail(OutGrads(s, c))],
                          next, NoneUnless(recv_next))]
     /\ UNCHANGED <<args, pc, forward_k, chan, fwd, param_synced>>

\* Launch any remaining grad reductions, and return.
Finish(s) ==
  /\ At(s, "cooldown")
  /\ args.forward_only \/ backward_k[s] = Total
  /\ grad_sync' = [grad_sync EXCEPT ![s] = TRUE]
  /\ reductions' = IF ~args.grad_sync_func THEN reductions
                   ELSE [reductions EXCEPT ![s] = [c \in Chunks |->
                          IF c \in synchronized[s] THEN @[c] ELSE Append(@[c], Len(bwd[s][c]))]]
  /\ synchronized' = IF ~args.grad_sync_func THEN synchronized
                     ELSE [synchronized EXCEPT ![s] = Chunks]
  /\ Goto(s, "done")
  /\ UNCHANGED <<args, forward_k, backward_k, requests, chan, lists, fwd, bwd, param_synced>>

Init ==
  /\ args \in Calls
  /\ pc = [s \in Stages |-> "start"]
  /\ forward_k = [s \in Stages |-> 0]
  /\ backward_k = [s \in Stages |-> 0]
  /\ reqs = [s \in Stages |-> {}]
  /\ send = [s \in Stages |-> [d \in Dirs |-> None]]
  /\ dest = [s \in Stages |-> [d \in Dirs |-> 0]]
  /\ chan = [s \in Stages |-> [d \in Dirs |-> <<>>]]
  /\ input_tensors = [s \in Stages |-> [c \in Chunks |-> <<>>]]
  /\ output_tensors = [s \in Stages |-> [c \in Chunks |-> <<>>]]
  /\ output_tensor_grads = [s \in Stages |-> [c \in Chunks |-> <<>>]]
  /\ fwd = [s \in Stages |-> [c \in Chunks |-> <<>>]]
  /\ bwd = [s \in Stages |-> [c \in Chunks |-> <<>>]]
  /\ grad_sync = [s \in Stages |-> FALSE]
  /\ synchronized = [s \in Stages |-> {}]
  /\ reductions = [s \in Stages |-> [c \in Chunks |-> <<>>]]
  /\ param_synced = [s \in Stages |-> {}]

Step(s) ==
  \/ Start(s) \/ Warmup(s) \/ EndWarmup(s)
  \/ SteadyForward(s) \/ SteadyBackward(s) \/ Cooldown(s) \/ Finish(s)

\* Every stage has returned.
Returned == (\A s \in Stages : pc[s] = "done") /\ UNCHANGED vars

Next == Transfer \/ (\E s \in Stages : Step(s)) \/ Returned

\* Stages run on their own devices and the transport keeps moving tensors.
Fairness == WF_vars(Transfer) /\ \A s \in Stages : WF_vars(Step(s))

Spec == Init /\ [][Next]_vars /\ Fairness

-----------------------------------------------------------------------------
Tensors == [virtual : -2 .. P * V - 1, mb : Nat]

\* The types of the variables: what is received is always for a chunk that
\* exists.
TypeOK ==
  /\ args \in Calls
  /\ pc \in [Stages -> {"start", "warmup", "steady", "steady_backward", "cooldown", "done"}]
  /\ {forward_k, backward_k} \subseteq [Stages -> 0 .. Total]
  /\ reqs \in [Stages -> SUBSET ({"send", "recv"} \X Dirs)]
  /\ \A s \in Stages, d \in Dirs : <<"recv", d>> \in reqs[s] => dest[s][d] \in Chunks
  /\ send \in [Stages -> [Dirs -> Tensors]]
  /\ chan \in [Stages -> [Dirs -> Seq(Tensors)]]
  /\ {input_tensors, output_tensors, output_tensor_grads}
       \subseteq [Stages -> [Chunks -> Seq(Tensors)]]
  /\ {fwd, bwd, reductions} \subseteq [Stages -> [Chunks -> Seq(Nat)]]
  /\ grad_sync \in [Stages -> BOOLEAN]
  /\ {synchronized, param_synced} \subseteq [Stages -> SUBSET Chunks]

\* Every chunk of every stage passes the microbatches forward and backward
\* in order: though tensors carry no tag and each stage computes the order
\* of its chunks by itself, what a chunk finds at the head of its lists is
\* always of the microbatch, and of the neighbouring virtual stage, it
\* needs.
PassesInOrder ==
  \A s \in Stages, c \in Chunks :
    /\ \A k \in 1 .. Len(fwd[s][c]) : fwd[s][c][k] = k
    /\ \A k \in 1 .. Len(bwd[s][c]) : bwd[s][c][k] = k

\* When a stage returns, the gradients of every chunk have been reduced
\* once, after its last backward pass.
GradsReduced ==
  \A s \in Stages : pc[s] = "done" /\ ~args.forward_only =>
    \A c \in Chunks : reductions[s][c] = <<M>>

\* Every stage returns from the call, with nothing left in the transport.
Termination ==
  <>[](\A s \in Stages : pc[s] = "done" /\ \A d \in Dirs : chan[s][d] = <<>>)

\* The schedule implements the abstract flush over the virtual stages.
ToSet(list) == {list[k] : k \in 1 .. Len(list)}
OfVirtual(f) == [v \in 0 .. P * V - 1 |-> ToSet(f[v % P][v \div P])]

\* The activations chunk c of stage s may hold: those of one group of P
\* microbatches, up to another such group, as far as the warmup goes.
ActivationLimit(s, c) == Max2(P, Min2(2 * P, (P - s - 1) * 2 + (V - c - 1) * P + 1))

Flush == INSTANCE PipelineFlush WITH
  P <- P * V,
  num_microbatches <- M,
  forward_only <- args.forward_only,
  Limit <- [v \in 0 .. P * V - 1 |-> ActivationLimit(v % P, v \div P)],
  fwd <- OfVirtual(fwd),
  bwd <- OfVirtual(bwd)

ImplementsFlush == Flush!Spec
=============================================================================
