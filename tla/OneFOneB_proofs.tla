--------------------------- MODULE OneFOneB_proofs ---------------------------
(***************************************************************************)
(* Proofs about OneFOneB, for every number of stages and every call.       *)
(***************************************************************************)
EXTENDS OneFOneB, FiniteSetTheorems, TLAPS

-----------------------------------------------------------------------------
\* Facts about numbers.

\* Numbers less than m apart have different remainders.
LEMMA Residue ==
  ASSUME NEW m \in Nat \ {0}, NEW i \in Nat, NEW j \in Nat,
         i % m = j % m, i - j < m, j - i < m
  PROVE  i = j
<1> DEFINE p == i \div m
           q == j \div m
<1>1. p \in Int /\ q \in Int /\ i % m \in Int
  OBVIOUS
<1>2. i % m = i - m * p /\ j % m = j - m * q
  OBVIOUS
<1> HIDE DEF p, q
<1>3. i - j = m * p - m * q
  BY <1>1, <1>2
<1>4. \A x, y \in Int : m * (x - y) = m * x - m * y
  OBVIOUS
<1>5. \A x \in Int : x >= 1 => m * x >= m
  OBVIOUS
<1>6. ~(p - q >= 1)
  <2>1. m * (p - q) = m * p - m * q
    BY <1>1, <1>4
  <2>2. p - q >= 1 => m * (p - q) >= m
    BY <1>1, <1>5
  <2> QED BY <1>1, <1>3, <2>1, <2>2
<1>7. ~(q - p >= 1)
  <2>1. m * (q - p) = m * q - m * p
    BY <1>1, <1>4
  <2>2. q - p >= 1 => m * (q - p) >= m
    BY <1>1, <1>5
  <2> QED BY <1>1, <1>3, <2>1, <2>2
<1> QED BY <1>1, <1>3, <1>6, <1>7

\* q holds the consecutive numbers that follow a.
IsRun(q, a) == \A k \in 1 .. Len(q) : q[k] = a + k

\* Appending the next number to a run gives a longer run.
LEMMA RunAppend ==
  ASSUME NEW q \in Seq(Nat), NEW a \in Nat, IsRun(q, a), NEW x, x = a + Len(q) + 1
  PROVE  /\ Append(q, x) \in Seq(Nat) /\ Len(Append(q, x)) = Len(q) + 1
         /\ IsRun(Append(q, x), a)
<1>1. x \in Nat /\ Append(q, x) \in Seq(Nat)
  OBVIOUS
<1> QED BY <1>1 DEF IsRun

\* The tail of a run is the run that starts one later.
LEMMA RunTail ==
  ASSUME NEW q \in Seq(Nat), NEW a \in Nat, IsRun(q, a), Len(q) > 0
  PROVE  /\ Head(q) = a + 1
         /\ Tail(q) \in Seq(Nat) /\ Len(Tail(q)) = Len(q) - 1
         /\ IsRun(Tail(q), a + 1)
<1>1. Tail(q) \in Seq(Nat) /\ Len(Tail(q)) = Len(q) - 1 /\ q # <<>>
  OBVIOUS
<1>2. \A k \in 1 .. Len(Tail(q)) : Tail(q)[k] = q[k+1]
  BY <1>1
<1> QED BY <1>1, <1>2 DEF IsRun

\* The members of a run from 1 are the numbers up to its length.
LEMMA RunSet ==
  ASSUME NEW q \in Seq(Nat), IsRun(q, 0)
  PROVE  {q[k] : k \in 1 .. Len(q)} = 1 .. Len(q)
<1>1. \A k \in 1 .. Len(q) : q[k] = k
  BY DEF IsRun
<1> QED BY <1>1

-----------------------------------------------------------------------------
\* The labels at which stage s waits for, or holds, a tensor from d.
Awaits(d) == IF d = "prev" THEN {"warmup_forward", "steady_forward"}
             ELSE {"steady_backward", "cooldown_backward"}

\* Tensors stage s has produced for the stage in direction d.
Produced(s, d) == IF d = "next" THEN Len(fwd[s]) ELSE Len(main_grad[s])

\* Tensors that have left s in direction d.
Sent(s, d) == IF Send(d) \in reqs[s] THEN Produced(s, d) - 1 ELSE Produced(s, d)

\* A tensor from d has arrived at s and is not yet used.
Holds(s, d) == pc[s] \in Awaits(d) /\ Recv(d) \notin reqs[s]

\* Tensors that have arrived at s from direction d: each pass uses one.
Received(s, d) == IF Holds(s, d) THEN Produced(s, Opposite(d)) + 1
                  ELSE Produced(s, Opposite(d))

\* A link holds, in order, what was sent on it and not yet received.
LinkInv(s, d) ==
  LET got == Received(Peer(s, d), Opposite(d))
  IN /\ Len(chan[s][d]) = Sent(s, d) - got
     /\ IsRun(chan[s][d], got)

\* How far the passes of stage s are at each label.
CountInv(s) ==
  LET f == Len(fwd[s])
      b == Len(main_grad[s])
      W == NumWarmup(s)
  IN /\ pc[s] = "warmup" => f <= W /\ b = 0
     /\ pc[s] = "warmup_forward" => f < W /\ b = 0
     /\ pc[s] = "steady_forward" =>
          W <= f /\ f < M /\ b = (IF args.forward_only THEN 0 ELSE f - W)
     /\ pc[s] = "steady_recv" => args.forward_only /\ W < f /\ f <= M /\ b = 0
     /\ pc[s] = "steady_backward" =>
          ~args.forward_only /\ W < f /\ f <= M /\ b = f - W - 1
     /\ pc[s] = "cooldown" =>
          f = M /\ (IF args.forward_only THEN b = 0 ELSE M - W <= b /\ b <= M)
     /\ pc[s] = "cooldown_backward" =>
          ~args.forward_only /\ f = M /\ M - W <= b /\ b < M
     /\ pc[s] = "done" => f = M /\ b = (IF args.forward_only THEN 0 ELSE M)

\* Every pass ran on the microbatch of its number.
OrderInv(s) == IsRun(fwd[s], 0) /\ IsRun(main_grad[s], 0)

\* Only a stage that waits for a tensor has asked for it.
ReqInv(s) == \A d \in Dirs : Recv(d) \in reqs[s] => pc[s] \in Awaits(d)

\* The tensors in the local variables of stage s.
ValueInv(s) ==
  /\ \A d \in Dirs : Send(d) \in reqs[s] => tensor_send[s][d] = Produced(s, d)
  /\ \A d \in Dirs : HasPeer(s, d) /\ Holds(s, d) =>
       tensor_recv[s][d] = Produced(s, Opposite(d)) + 1
  /\ pc[s] = "steady_backward" =>
       /\ tensor_send[s]["next"] = Len(fwd[s])
       /\ s > 0 => tensor_recv[s]["prev"] = Len(fwd[s])
  /\ pc[s] = "cooldown_backward" =>
       /\ tensor_send[s]["next"] = Len(main_grad[s]) + 1
       /\ s > 0 => tensor_recv[s]["prev"] = Len(main_grad[s]) + 1

\* The saved tensors are those of the outstanding microbatches, in order.
SavedFrom(s) == IF pc[s] = "cooldown_backward" THEN Len(main_grad[s]) + 1
                ELSE Len(main_grad[s])
SavedTo(s) == IF pc[s] = "steady_backward" THEN Len(fwd[s]) - 1 ELSE Len(fwd[s])
SavedInv(s) ==
  ~args.forward_only =>
    /\ Len(output_tensors[s]) = SavedTo(s) - SavedFrom(s)
    /\ Len(input_tensors[s]) = SavedTo(s) - SavedFrom(s)
    /\ IsRun(output_tensors[s], SavedFrom(s))
    /\ s > 0 => IsRun(input_tensors[s], SavedFrom(s))

\* When gradient synchronization is on, and what has been reduced.
SyncInv(s) ==
  LET late == ~args.grad_sync_func \/ s = 0
      b == Len(main_grad[s])
  IN /\ pc[s] \notin {"cooldown", "cooldown_backward", "done"} =>
          ~grad_sync[s] /\ reductions[s] = <<>>
     /\ pc[s] = "cooldown_backward" =>
          (grad_sync[s] <=> late /\ b = M - 1) /\ reductions[s] = <<>>
     /\ pc[s] = "cooldown" =>
          /\ grad_sync[s] <=> ~args.forward_only /\ late /\ b = M /\ NumWarmup(s) > 0
          /\ reductions[s] = IF grad_sync[s] THEN <<M>> ELSE <<>>
     /\ pc[s] = "done" /\ ~args.forward_only
          /\ (NumWarmup(s) > 0 \/ args.grad_sync_func) => reductions[s] = <<M>>

StageInv(s) == /\ CountInv(s) /\ OrderInv(s) /\ ReqInv(s)
               /\ ValueInv(s) /\ SavedInv(s) /\ SyncInv(s)

\* The inductive invariant.
IInv == /\ TypeOK
        /\ \A s \in Stages : StageInv(s)
        /\ \A s \in Stages, d \in Dirs : HasPeer(s, d) => LinkInv(s, d)

-----------------------------------------------------------------------------
(***************************************************************************)
(* Lemmas about requests and calls.                                        *)
(***************************************************************************)

\* Facts on directions and requests.
LEMMA RequestFacts ==
  /\ "next" \in Dirs /\ "prev" \in Dirs /\ "next" # "prev"
  /\ Opposite("next") = "prev" /\ Opposite("prev") = "next"
  /\ \A d \in Dirs : /\ Opposite(d) \in Dirs /\ Opposite(Opposite(d)) = d
                     /\ Send(d) \in Requests /\ Recv(d) \in Requests
                     /\ Send(d)[2] = d /\ Recv(d)[2] = d
  /\ \A d, e \in Dirs : /\ Send(d) # Recv(e)
                        /\ (Send(d) = Send(e)) <=> (d = e)
                        /\ (Recv(d) = Recv(e)) <=> (d = e)
BY DEF Dirs, Opposite, Send, Recv, Requests

\* What the assumptions on the constants say of a call.
LEMMA CallType ==
  ASSUME args \in Calls
  PROVE  /\ M \in Nat /\ M > 0
         /\ args.forward_only \in BOOLEAN
         /\ args.grad_sync_func \in BOOLEAN
         /\ \A s \in Stages : /\ s \in Nat /\ s < P /\ NumWarmup(s) \in 0 .. M
                              /\ NumWarmup(s) <= P - s - 1
                              /\ s < P - 1 => NumWarmup(s) > 0
                              /\ s = P - 1 => NumWarmup(s) = 0
BY PAssumption, CallsAssumption DEF Call, M, NumWarmup, Min2, Stages

\* Neighbours are stages, and each is the other's neighbour.
LEMMA PeerFacts ==
  ASSUME NEW s \in Stages
  PROVE  /\ HasPeer(s, "next") <=> s < P - 1
         /\ HasPeer(s, "prev") <=> s > 0
         /\ \A d \in Dirs : HasPeer(s, d) =>
              /\ Peer(s, d) \in Stages /\ Peer(s, d) # s
              /\ Peer(Peer(s, d), Opposite(d)) = s
              /\ HasPeer(Peer(s, d), Opposite(d))
BY PAssumption DEF HasPeer, Peer, Stages, Dirs, Opposite

-----------------------------------------------------------------------------
(***************************************************************************)
(* The invariant is inductive.  A step of stage s leaves the variables of  *)
(* the others alone, and moves nothing on the links of s: what it sends    *)
(* has not left, and what it uses had arrived.                             *)
(***************************************************************************)

Same(t) ==
  /\ pc'[t] = pc[t] /\ reqs'[t] = reqs[t]
  /\ tensor_send'[t] = tensor_send[t] /\ tensor_recv'[t] = tensor_recv[t]
  /\ input_tensors'[t] = input_tensors[t] /\ output_tensors'[t] = output_tensors[t]
  /\ fwd'[t] = fwd[t] /\ main_grad'[t] = main_grad[t]
  /\ grad_sync'[t] = grad_sync[t] /\ reductions'[t] = reductions[t]

OthersSame(s) == \A t \in Stages \ {s} : Same(t)

KeepsCounts(s) ==
  \A d \in Dirs : HasPeer(s, d) =>
    Sent(s, d)' = Sent(s, d) /\ Received(s, d)' = Received(s, d)

\* A stage keeps its part of the invariant in a step that leaves its
\* variables and its links alone.
LEMMA Frame ==
  ASSUME NEW t \in Stages, Same(t), args' = args, StageInv(t)
  PROVE  StageInv(t)' /\ KeepsCounts(t)
<1>1. CountInv(t)'
  BY DEF Same, StageInv, CountInv, NumWarmup, M
<1>2. OrderInv(t)'
  BY DEF Same, StageInv, OrderInv, IsRun
<1>3. ReqInv(t)'
  BY DEF Same, StageInv, ReqInv
<1>4. ValueInv(t)'
  BY DEF Same, StageInv, ValueInv, Holds, Produced
<1>5. SavedInv(t)'
  BY DEF Same, StageInv, SavedInv, SavedFrom, SavedTo, IsRun
<1>6. SyncInv(t)'
  BY DEF Same, StageInv, SyncInv, NumWarmup, M
<1>7. KeepsCounts(t)
  BY DEF Same, KeepsCounts, Sent, Received, Holds, Produced
<1> QED BY <1>1, <1>2, <1>3, <1>4, <1>5, <1>6, <1>7 DEF StageInv

\* To prove that a step of stage s preserves IInv, look at s and at the
\* links it takes part in.
LEMMA LocalStep ==
  ASSUME IInv, NEW s \in Stages, TypeOK', args' = args, chan' = chan,
         OthersSame(s), StageInv(s)', KeepsCounts(s)
  PROVE  IInv'
<1>1. \A t \in Stages : StageInv(t)' /\ KeepsCounts(t)
  BY Frame DEF IInv, OthersSame
<1>2. ASSUME NEW t \in Stages, NEW d \in Dirs, HasPeer(t, d)
      PROVE  LinkInv(t, d)'
  <2>1. /\ Peer(t, d) \in Stages /\ Opposite(d) \in Dirs
        /\ HasPeer(Peer(t, d), Opposite(d))
    BY <1>2, PeerFacts, RequestFacts
  <2>2. /\ Sent(t, d)' = Sent(t, d)
        /\ Received(Peer(t, d), Opposite(d))' = Received(Peer(t, d), Opposite(d))
    BY <1>1, <1>2, <2>1 DEF KeepsCounts
  <2>3. LinkInv(t, d)
    BY <1>2 DEF IInv
  <2> QED BY <2>2, <2>3 DEF LinkInv, IsRun
<1> QED BY <1>1, <1>2 DEF IInv

\* What the invariant says of a stage that stands at label l.
LEMMA Standing ==
  ASSUME IInv, NEW s \in Stages, NEW l, At(s, l)
  PROVE  /\ TypeOK /\ StageInv(s) /\ args \in Calls
         /\ pc[s] = l /\ reqs[s] = {}
         /\ fwd[s] \in Seq(Nat) /\ main_grad[s] \in Seq(Nat)
         /\ input_tensors[s] \in Seq(Nat) /\ output_tensors[s] \in Seq(Nat)
         /\ reductions[s] \in Seq(Nat)
         /\ \A d \in Dirs : /\ Sent(s, d) = Produced(s, d)
                            /\ Holds(s, d) <=> l \in Awaits(d)
                            /\ tensor_recv[s][d] \in Nat /\ tensor_send[s][d] \in Nat
BY DEF IInv, TypeOK, At, Sent, Holds

\* Post leaves only requests towards stages that exist.
LEMMA PostType ==
  ASSUME TypeOK, NEW s \in Stages, NEW ops \in SUBSET Requests, Post(s, ops)
  PROVE  /\ reqs' \in [Stages -> SUBSET Requests]
         /\ \A t \in Stages : \A o \in reqs'[t] : HasPeer(t, o[2])
         /\ reqs'[s] = {o \in ops : HasPeer(s, o[2])}
         /\ \A t \in Stages \ {s} : reqs'[t] = reqs[t]
BY DEF TypeOK, Post

\* The receive of a warmup iteration preserves IInv.
LEMMA WarmupRecvStep ==
  ASSUME IInv, NEW s \in Stages, WarmupRecv(s)
  PROVE  IInv'
<1>1. /\ TypeOK /\ StageInv(s) /\ pc[s] = "warmup" /\ reqs[s] = {}
      /\ \A d \in Dirs : Sent(s, d) = Produced(s, d) /\ ~Holds(s, d)
  <2>1. At(s, "warmup")
    BY DEF WarmupRecv
  <2>2. \A d \in Dirs : "warmup" \notin Awaits(d)
    BY DEF Awaits
  <2> QED BY <2>1, <2>2, Standing
<1>2. /\ reqs' \in [Stages -> SUBSET Requests]
      /\ \A t \in Stages : \A o \in reqs'[t] : HasPeer(t, o[2])
      /\ reqs'[s] = {o \in {Recv("prev")} : HasPeer(s, o[2])}
      /\ \A t \in Stages \ {s} : reqs'[t] = reqs[t]
  <2>1. {Recv("prev")} \in SUBSET Requests
    BY RequestFacts
  <2> QED BY <1>1, <2>1, PostType DEF WarmupRecv
<1>3. TypeOK'
  <2>1. tensor_recv' \in [Stages -> [Dirs -> Nat]]
    BY <1>1, RequestFacts DEF WarmupRecv, TypeOK, None
  <2>2. pc' \in [Stages -> Labels]
    BY <1>1 DEF WarmupRecv, TypeOK, Goto, Labels
  <2> QED BY <1>1, <1>2, <2>1, <2>2 DEF WarmupRecv, TypeOK, local
<1>4. pc'[s] = "warmup_forward" /\ args' = args /\ chan' = chan /\ OthersSame(s)
  BY <1>1, <1>2 DEF WarmupRecv, TypeOK, Goto, OthersSame, Same, local
<1>5. /\ fwd'[s] = fwd[s] /\ main_grad'[s] = main_grad[s]
      /\ input_tensors'[s] = input_tensors[s] /\ output_tensors'[s] = output_tensors[s]
      /\ grad_sync'[s] = grad_sync[s] /\ reductions'[s] = reductions[s]
      /\ Len(fwd[s]) < NumWarmup(s)
  BY DEF WarmupRecv, local
<1>6. /\ \A d \in Dirs : Send(d) \notin reqs'[s]
      /\ Recv("next") \notin reqs'[s]
      /\ HasPeer(s, "prev") => Recv("prev") \in reqs'[s]
  BY <1>2, RequestFacts
<1>7. KeepsCounts(s)
  BY <1>1, <1>4, <1>5, <1>6, RequestFacts
     DEF KeepsCounts, Sent, Received, Holds, Produced, Awaits, Dirs, Opposite
<1>8. StageInv(s)'
  <2>1. CountInv(s)' /\ SyncInv(s)'
    BY <1>1, <1>4, <1>5 DEF StageInv, CountInv, SyncInv, NumWarmup, M
  <2>2. OrderInv(s)' /\ SavedInv(s)'
    BY <1>1, <1>4, <1>5 DEF StageInv, OrderInv, SavedInv, SavedFrom, SavedTo, IsRun
  <2>3. ReqInv(s)' /\ ValueInv(s)'
    BY <1>1, <1>4, <1>5, <1>6, PeerFacts, RequestFacts
       DEF ReqInv, ValueInv, Holds, Awaits, Dirs
  <2> QED BY <2>1, <2>2, <2>3 DEF StageInv
<1> QED BY <1>3, <1>4, <1>7, <1>8, LocalStep

\* The tensor a forward pass starts from is the next microbatch.
LEMMA ForwardValue ==
  ASSUME IInv, NEW s \in Stages, NEW l \in Awaits("prev"), At(s, l)
  PROVE  /\ ForwardOutput(s) = Len(fwd[s]) + 1
         /\ s > 0 => tensor_recv[s]["prev"] = Len(fwd[s]) + 1
<1>1. StageInv(s) /\ Holds(s, "prev") /\ s \in Nat
  BY Standing, RequestFacts, CallType
<1>2. s > 0 => tensor_recv[s]["prev"] = Len(fwd[s]) + 1
  BY <1>1, PeerFacts, RequestFacts DEF StageInv, ValueInv, Produced
<1> QED BY <1>1, <1>2 DEF ForwardOutput

\* What a forward pass of stage s does to fwd.
LEMMA ForwardRun ==
  ASSUME IInv, NEW s \in Stages, NEW l \in Awaits("prev"), At(s, l), ForwardStep(s)
  PROVE  /\ fwd' \in [Stages -> Seq(Nat)]
         /\ \A t \in Stages \ {s} : fwd'[t] = fwd[t]
         /\ Len(fwd'[s]) = Len(fwd[s]) + 1
         /\ IsRun(fwd'[s], 0)
<1>1. /\ fwd \in [Stages -> Seq(Nat)] /\ fwd[s] \in Seq(Nat) /\ IsRun(fwd[s], 0)
  BY DEF IInv, TypeOK, StageInv, OrderInv
<1>2. fwd' = [fwd EXCEPT ![s] = Append(fwd[s], Len(fwd[s]) + 1)]
  <2>1. ForwardOutput(s) = Len(fwd[s]) + 1
    BY ForwardValue
  <2> QED BY <2>1 DEF ForwardStep
<1>3. LET r == Append(fwd[s], Len(fwd[s]) + 1)
      IN r \in Seq(Nat) /\ Len(r) = Len(fwd[s]) + 1 /\ IsRun(r, 0)
  BY <1>1, RunAppend
<1> QED BY <1>1, <1>2, <1>3

\* The forward pass of a warmup iteration preserves IInv.
LEMMA WarmupForwardStep ==
  ASSUME IInv, NEW s \in Stages, WarmupForward(s)
  PROVE  IInv'
<1>0. At(s, "warmup_forward") /\ "warmup_forward" \in Awaits("prev")
      /\ "warmup_forward" \notin Awaits("next")
  BY DEF WarmupForward, Awaits
<1>1. /\ TypeOK /\ StageInv(s) /\ pc[s] = "warmup_forward" /\ reqs[s] = {}
      /\ args \in Calls
      /\ input_tensors[s] \in Seq(Nat) /\ output_tensors[s] \in Seq(Nat)
      /\ fwd[s] \in Seq(Nat)
      /\ \A d \in Dirs : Sent(s, d) = Produced(s, d) /\ tensor_recv[s][d] \in Nat
      /\ Holds(s, "prev") /\ ~Holds(s, "next")
  BY <1>0, Standing, RequestFacts
<1>2. /\ ForwardOutput(s) = Len(fwd[s]) + 1
      /\ s > 0 => tensor_recv[s]["prev"] = Len(fwd[s]) + 1
  BY <1>0, ForwardValue
<1>3. /\ reqs' \in [Stages -> SUBSET Requests]
      /\ \A t \in Stages : \A o \in reqs'[t] : HasPeer(t, o[2])
      /\ reqs'[s] = {o \in {Send("next")} : HasPeer(s, o[2])}
      /\ \A t \in Stages \ {s} : reqs'[t] = reqs[t]
  <2>1. {Send("next")} \in SUBSET Requests
    BY RequestFacts
  <2> QED BY <1>1, <2>1, PostType DEF WarmupForward
<1>4. /\ fwd' \in [Stages -> Seq(Nat)]
      /\ \A t \in Stages \ {s} : fwd'[t] = fwd[t]
      /\ Len(fwd'[s]) = Len(fwd[s]) + 1
      /\ IsRun(fwd'[s], 0)
  BY <1>0, ForwardRun DEF WarmupForward
<1>5. /\ input_tensors' \in [Stages -> Seq(Nat)]
      /\ output_tensors' \in [Stages -> Seq(Nat)]
      /\ \A t \in Stages \ {s} : /\ input_tensors'[t] = input_tensors[t]
                                 /\ output_tensors'[t] = output_tensors[t]
      /\ ~args.forward_only =>
           /\ input_tensors'[s] = Append(input_tensors[s], tensor_recv[s]["prev"])
           /\ output_tensors'[s] = Append(output_tensors[s], Len(fwd[s]) + 1)
  <2>1. /\ Append(input_tensors[s], tensor_recv[s]["prev"]) \in Seq(Nat)
        /\ Append(output_tensors[s], Len(fwd[s]) + 1) \in Seq(Nat)
    BY <1>1, RequestFacts
  <2>2. CASE args.forward_only
    BY <1>1, <2>2 DEF WarmupForward, TypeOK
  <2>3. CASE ~args.forward_only
    <3>1. /\ input_tensors' = [input_tensors EXCEPT
                                 ![s] = Append(input_tensors[s], tensor_recv[s]["prev"])]
          /\ output_tensors' = [output_tensors EXCEPT
                                  ![s] = Append(output_tensors[s], Len(fwd[s]) + 1)]
      BY <1>2, <2>3 DEF WarmupForward
    <3> QED BY <1>1, <2>1, <3>1 DEF TypeOK
  <2> QED BY <2>2, <2>3
<1>6. /\ args' = args /\ chan' = chan /\ tensor_recv' = tensor_recv
      /\ main_grad' = main_grad /\ grad_sync' = grad_sync /\ reductions' = reductions
      /\ pc' = [pc EXCEPT ![s] = "warmup"]
      /\ tensor_send' = [tensor_send EXCEPT ![s]["next"] = Len(fwd[s]) + 1]
  BY <1>2 DEF WarmupForward, Goto
<1>7. TypeOK'
  <2>1. tensor_send' \in [Stages -> [Dirs -> Nat]]
    BY <1>1, <1>6, RequestFacts DEF TypeOK
  <2>2. pc' \in [Stages -> Labels]
    BY <1>1, <1>6 DEF TypeOK, Labels
  <2> QED BY <1>1, <1>3, <1>4, <1>5, <1>6, <2>1, <2>2 DEF TypeOK
<1>8. OthersSame(s)
  BY <1>1, <1>3, <1>4, <1>5, <1>6 DEF TypeOK, OthersSame, Same
<1>9. /\ pc'[s] = "warmup" /\ Len(fwd'[s]) = Len(fwd[s]) + 1
      /\ tensor_send'[s]["next"] = Len(fwd[s]) + 1
      /\ main_grad'[s] = main_grad[s]
      /\ \A d \in Dirs : Recv(d) \notin reqs'[s]
      /\ Send("prev") \notin reqs'[s]
      /\ HasPeer(s, "next") => Send("next") \in reqs'[s]
  BY SMTT(60), <1>1, <1>3, <1>4, <1>6, RequestFacts DEF TypeOK
<1>10. KeepsCounts(s)
  BY <1>1, <1>9, RequestFacts
     DEF KeepsCounts, Sent, Received, Holds, Produced, Awaits, Dirs, Opposite
<1>11. StageInv(s)'
  <2>1. CountInv(s)' /\ SyncInv(s)'
    BY <1>1, <1>6, <1>9, CallType DEF StageInv, CountInv, SyncInv, NumWarmup, M
  <2>2. OrderInv(s)'
    BY <1>1, <1>4, <1>6 DEF StageInv, OrderInv, IsRun
  <2>3. SavedInv(s)'
    <3>1. Len(main_grad[s]) = 0
      BY <1>1 DEF StageInv, CountInv
    <3>2. SUFFICES ASSUME ~args.forward_only PROVE SavedInv(s)'
      BY <1>6 DEF SavedInv
    <3>3. /\ Len(output_tensors[s]) = Len(fwd[s]) /\ Len(input_tensors[s]) = Len(fwd[s])
          /\ IsRun(output_tensors[s], 0)
          /\ s > 0 => IsRun(input_tensors[s], 0)
      BY <1>1, <3>1, <3>2 DEF StageInv, SavedInv, SavedFrom, SavedTo
    <3>4. /\ Len(output_tensors'[s]) = Len(fwd[s]) + 1 /\ IsRun(output_tensors'[s], 0)
      <4>1. /\ output_tensors[s] \in Seq(Nat) /\ Len(fwd[s]) + 1 \in Nat /\ 0 \in Nat
            /\ Len(fwd[s]) + 1 = 0 + Len(output_tensors[s]) + 1
        BY <1>1, <3>3
      <4>2. /\ Len(Append(output_tensors[s], Len(fwd[s]) + 1)) = Len(output_tensors[s]) + 1
            /\ IsRun(Append(output_tensors[s], Len(fwd[s]) + 1), 0)
        BY <4>1, <3>3, RunAppend
      <4> QED BY <1>5, <3>2, <3>3, <4>2
    <3>5. Len(input_tensors'[s]) = Len(fwd[s]) + 1
      BY SMTT(60), <1>1, <1>5, <3>2, <3>3, RequestFacts
    <3>6. s > 0 => IsRun(input_tensors'[s], 0)
      <4>1. SUFFICES ASSUME s > 0 PROVE IsRun(input_tensors'[s], 0)
        OBVIOUS
      <4>2. /\ input_tensors[s] \in Seq(Nat) /\ Len(fwd[s]) + 1 \in Nat /\ 0 \in Nat
            /\ Len(fwd[s]) + 1 = 0 + Len(input_tensors[s]) + 1
        BY <1>1, <3>3
      <4>3. IsRun(Append(input_tensors[s], Len(fwd[s]) + 1), 0)
        BY <4>1, <4>2, <3>3, RunAppend
      <4> QED BY <1>2, <1>5, <3>2, <4>1, <4>3
    <3>7. SavedFrom(s)' = 0 /\ SavedTo(s)' = Len(fwd[s]) + 1
      BY <1>9, <3>1 DEF SavedFrom, SavedTo
    <3> QED BY <1>1, <3>4, <3>5, <3>6, <3>7 DEF SavedInv, IsRun
  <2>4. ReqInv(s)' /\ ValueInv(s)'
    BY <1>1, <1>9, RequestFacts DEF ReqInv, ValueInv, Holds, Awaits, Dirs, Produced
  <2> QED BY <2>1, <2>2, <2>3, <2>4 DEF StageInv
<1> QED BY <1>6, <1>7, <1>8, <1>10, <1>11, LocalStep

\* EndWarmup and SteadyRecv post a receive for the next forward pass, or
\* leave their loop; nothing else changes.
RecvOrLeave(s, more) ==
  /\ IF more
     THEN /\ Post(s, {Recv("prev")})
          /\ tensor_recv' = [tensor_recv EXCEPT ![s]["prev"] = None]
          /\ Goto(s, "steady_forward")
     ELSE Goto(s, "cooldown") /\ UNCHANGED <<reqs, tensor_recv>>
  /\ UNCHANGED <<args, tensor_send, chan, local>>

\* EndWarmup and SteadyRecv: receive the next input, or go on to the
\* cooldown phase.
LEMMA RecvOrLeaveStep ==
  ASSUME IInv, NEW s \in Stages, NEW more \in BOOLEAN, RecvOrLeave(s, more),
         reqs[s] = {}, pc[s] \in {"warmup", "steady_recv"},
         pc[s] = "warmup" => Len(fwd[s]) = NumWarmup(s),
         more <=> Len(fwd[s]) < M
  PROVE  IInv'
<1>1. /\ TypeOK /\ StageInv(s) /\ args \in Calls
      /\ fwd[s] \in Seq(Nat) /\ main_grad[s] \in Seq(Nat)
      /\ \A d \in Dirs : Sent(s, d) = Produced(s, d) /\ ~Holds(s, d)
  BY Standing DEF At, Awaits
<1>2. /\ args' = args /\ chan' = chan /\ tensor_send' = tensor_send
      /\ input_tensors' = input_tensors /\ output_tensors' = output_tensors
      /\ fwd' = fwd /\ main_grad' = main_grad
      /\ grad_sync' = grad_sync /\ reductions' = reductions
  BY DEF RecvOrLeave, local
<1>3. /\ reqs' \in [Stages -> SUBSET Requests]
      /\ \A t \in Stages : \A o \in reqs'[t] : HasPeer(t, o[2])
      /\ reqs'[s] = IF more THEN {o \in {Recv("prev")} : HasPeer(s, o[2])} ELSE {}
      /\ \A t \in Stages \ {s} : reqs'[t] = reqs[t]
  <2>1. {Recv("prev")} \in SUBSET Requests
    BY RequestFacts
  <2>2. CASE more
    BY <1>1, <2>1, <2>2, PostType DEF RecvOrLeave
  <2>3. CASE ~more
    BY <1>1, <2>3 DEF RecvOrLeave, TypeOK
  <2> QED BY <2>2, <2>3
<1>4. /\ tensor_recv' \in [Stages -> [Dirs -> Nat]]
      /\ \A t \in Stages \ {s} : tensor_recv'[t] = tensor_recv[t]
      /\ pc' = [pc EXCEPT ![s] = IF more THEN "steady_forward" ELSE "cooldown"]
  <2>1. CASE more
    <3>1. /\ tensor_recv' = [tensor_recv EXCEPT ![s]["prev"] = 0]
          /\ pc' = [pc EXCEPT ![s] = "steady_forward"]
      BY <2>1 DEF RecvOrLeave, None, Goto
    <3> QED BY <1>1, <2>1, <3>1, RequestFacts DEF TypeOK
  <2>2. CASE ~more
    BY <1>1, <2>2 DEF RecvOrLeave, TypeOK, Goto
  <2> QED BY <2>1, <2>2
<1>5. TypeOK'
  <2>1. pc' \in [Stages -> Labels]
    BY <1>1, <1>4 DEF TypeOK, Labels
  <2> QED BY <1>1, <1>2, <1>3, <1>4, <2>1 DEF TypeOK
<1>6. OthersSame(s)
  BY <1>1, <1>2, <1>3, <1>4 DEF TypeOK, OthersSame, Same
<1>7. /\ pc'[s] = IF more THEN "steady_forward" ELSE "cooldown"
      /\ \A d \in Dirs : Send(d) \notin reqs'[s]
      /\ Recv("next") \notin reqs'[s]
      /\ HasPeer(s, "prev") /\ more => Recv("prev") \in reqs'[s]
      /\ Recv("prev") \in reqs'[s] => more
  <2>1. pc'[s] = IF more THEN "steady_forward" ELSE "cooldown"
    BY <1>1, <1>4 DEF TypeOK
  <2>2. CASE more
    BY <1>3, <2>1, <2>2, RequestFacts
  <2>3. CASE ~more
    BY <1>3, <2>1, <2>3, RequestFacts
  <2> QED BY <2>2, <2>3
<1>8. KeepsCounts(s)
  BY <1>1, <1>2, <1>7, RequestFacts
     DEF KeepsCounts, Sent, Received, Holds, Produced, Awaits, Dirs, Opposite
<1>9. StageInv(s)'
  <2>0. /\ CountInv(s) /\ SavedInv(s) /\ SyncInv(s) /\ OrderInv(s)
        /\ M \in Nat /\ NumWarmup(s) \in 0 .. M /\ args.forward_only \in BOOLEAN
    BY <1>1, CallType DEF StageInv
  <2>1. CountInv(s)'
    BY <1>1, <1>2, <1>7, <2>0 DEF CountInv, NumWarmup, M
  <2>2. SyncInv(s)'
    <3>1. ~more => args.forward_only \/ (NumWarmup(s) = M /\ Len(main_grad[s]) = 0)
      BY <1>1, <2>0 DEF CountInv
    <3>2. ~grad_sync[s] /\ reductions[s] = <<>>
      BY <2>0 DEF SyncInv
    <3> QED BY <1>2, <1>7, <2>0, <3>1, <3>2 DEF SyncInv, NumWarmup, M
  <2>3. OrderInv(s)' /\ SavedInv(s)'
    BY <1>2, <1>7, <2>0 DEF OrderInv, SavedInv, SavedFrom, SavedTo, IsRun
  <2>4. ReqInv(s)' /\ ValueInv(s)'
    BY <1>1, <1>2, <1>7, PeerFacts, RequestFacts
       DEF ReqInv, ValueInv, Holds, Awaits, Dirs
  <2> QED BY <2>1, <2>2, <2>3, <2>4 DEF StageInv
<1> QED BY <1>2, <1>5, <1>6, <1>8, <1>9, LocalStep

\* Leaving the warmup loop preserves IInv.
LEMMA EndWarmupStep ==
  ASSUME IInv, NEW s \in Stages, EndWarmup(s)
  PROVE  IInv'
<1>1. /\ pc[s] = "warmup" /\ reqs[s] = {} /\ Len(fwd[s]) = NumWarmup(s)
      /\ RecvOrLeave(s, NumRemaining(s) > 0)
  BY DEF EndWarmup, At, RecvOrLeave
<1>2. (NumRemaining(s) > 0) \in BOOLEAN /\ (NumRemaining(s) > 0 <=> Len(fwd[s]) < M)
  BY <1>1, CallType DEF NumRemaining, IInv, TypeOK
<1> QED BY <1>1, <1>2, RecvOrLeaveStep

\* The receive of a forward_only iteration preserves IInv.
LEMMA SteadyRecvStep ==
  ASSUME IInv, NEW s \in Stages, SteadyRecv(s)
  PROVE  IInv'
<1>1. pc[s] = "steady_recv" /\ reqs[s] = {} /\ RecvOrLeave(s, Len(fwd[s]) < M)
  BY DEF SteadyRecv, At, RecvOrLeave
<1>2. (Len(fwd[s]) < M) \in BOOLEAN /\ pc[s] # "warmup"
  BY <1>1
<1> QED BY <1>1, <1>2, RecvOrLeaveStep

\* The forward pass of a steady-state iteration preserves IInv.
LEMMA SteadyForwardStep ==
  ASSUME IInv, NEW s \in Stages, SteadyForward(s)
  PROVE  IInv'
<1>0. At(s, "steady_forward") /\ "steady_forward" \in Awaits("prev")
      /\ "steady_forward" \notin Awaits("next")
  BY DEF SteadyForward, Awaits
<1>1. /\ TypeOK /\ StageInv(s) /\ pc[s] = "steady_forward" /\ reqs[s] = {}
      /\ args \in Calls
      /\ fwd[s] \in Seq(Nat) /\ main_grad[s] \in Seq(Nat)
      /\ \A d \in Dirs : Sent(s, d) = Produced(s, d) /\ tensor_recv[s][d] \in Nat
      /\ Holds(s, "prev") /\ ~Holds(s, "next")
  BY <1>0, Standing, RequestFacts
<1>2. /\ ForwardOutput(s) = Len(fwd[s]) + 1
      /\ s > 0 => tensor_recv[s]["prev"] = Len(fwd[s]) + 1
  BY <1>0, ForwardValue
<1>3. /\ reqs' \in [Stages -> SUBSET Requests]
      /\ \A t \in Stages : \A o \in reqs'[t] : HasPeer(t, o[2])
      /\ reqs'[s] = {o \in IF args.forward_only THEN {Send("next")}
                           ELSE {Send("next"), Recv("next")} : HasPeer(s, o[2])}
      /\ \A t \in Stages \ {s} : reqs'[t] = reqs[t]
  <2>1. {Send("next")} \in SUBSET Requests /\ {Send("next"), Recv("next")} \in SUBSET Requests
    BY RequestFacts
  <2>2. CASE args.forward_only
    BY <1>1, <2>1, <2>2, PostType DEF SteadyForward
  <2>3. CASE ~args.forward_only
    BY <1>1, <2>1, <2>3, PostType DEF SteadyForward
  <2> QED BY <2>2, <2>3
<1>4. /\ fwd' \in [Stages -> Seq(Nat)]
      /\ \A t \in Stages \ {s} : fwd'[t] = fwd[t]
      /\ Len(fwd'[s]) = Len(fwd[s]) + 1
      /\ IsRun(fwd'[s], 0)
  BY <1>0, ForwardRun DEF SteadyForward
<1>5. /\ args' = args /\ chan' = chan
      /\ input_tensors' = input_tensors /\ output_tensors' = output_tensors
      /\ main_grad' = main_grad /\ grad_sync' = grad_sync /\ reductions' = reductions
      /\ tensor_send' = [tensor_send EXCEPT ![s]["next"] = Len(fwd[s]) + 1]
  BY <1>2 DEF SteadyForward
<1>6. /\ pc' = [pc EXCEPT ![s] = IF args.forward_only THEN "steady_recv" ELSE "steady_backward"]
      /\ tensor_recv' \in [Stages -> [Dirs -> Nat]]
      /\ \A t \in Stages \ {s} : tensor_recv'[t] = tensor_recv[t]
      /\ tensor_recv'[s]["prev"] = tensor_recv[s]["prev"]
  <2>1. CASE args.forward_only
    BY <1>1, <2>1 DEF SteadyForward, TypeOK, Goto
  <2>2. CASE ~args.forward_only
    <3>1. /\ tensor_recv' = [tensor_recv EXCEPT ![s]["next"] = 0]
          /\ pc' = [pc EXCEPT ![s] = "steady_backward"]
      BY <2>2 DEF SteadyForward, None, Goto
    <3> QED BY <1>1, <2>2, <3>1, RequestFacts DEF TypeOK
  <2> QED BY <2>1, <2>2
<1>7. TypeOK'
  <2>1. tensor_send' \in [Stages -> [Dirs -> Nat]]
    BY <1>1, <1>5, RequestFacts DEF TypeOK
  <2>2. pc' \in [Stages -> Labels]
    BY <1>1, <1>6 DEF TypeOK, Labels
  <2> QED BY <1>1, <1>3, <1>4, <1>5, <1>6, <2>1, <2>2 DEF TypeOK
<1>8. OthersSame(s)
  BY <1>1, <1>3, <1>4, <1>5, <1>6 DEF TypeOK, OthersSame, Same
<1>9. /\ pc'[s] = IF args.forward_only THEN "steady_recv" ELSE "steady_backward"
      /\ tensor_send'[s]["next"] = Len(fwd[s]) + 1
      /\ main_grad'[s] = main_grad[s]
      /\ Recv("prev") \notin reqs'[s] /\ Send("prev") \notin reqs'[s]
      /\ HasPeer(s, "next") => Send("next") \in reqs'[s]
      /\ Recv("next") \in reqs'[s] => ~args.forward_only
      /\ HasPeer(s, "next") /\ ~args.forward_only => Recv("next") \in reqs'[s]
  BY <1>1, <1>3, <1>5, <1>6, RequestFacts DEF TypeOK
<1>a. pc'[s] \notin Awaits("prev") /\ (pc'[s] \in Awaits("next") <=> ~args.forward_only)
  <2>1. CASE args.forward_only
    BY <1>9, <2>1 DEF Awaits
  <2>2. CASE ~args.forward_only
    BY <1>9, <2>2 DEF Awaits
  <2> QED BY <2>1, <2>2
<1>10. KeepsCounts(s)
  <2>1. HasPeer(s, "next") => Sent(s, "next")' = Sent(s, "next")
    BY <1>1, <1>4, <1>9, RequestFacts DEF Sent, Produced
  <2>2. Sent(s, "prev")' = Sent(s, "prev")
    BY <1>1, <1>9, RequestFacts DEF Sent, Produced
  <2>3. Received(s, "prev")' = Received(s, "prev")
    BY <1>1, <1>4, <1>a, RequestFacts DEF Received, Holds, Produced
  <2>4. HasPeer(s, "next") => Received(s, "next")' = Received(s, "next")
    <3>1. HasPeer(s, "next") => ~Holds(s, "next")'
      BY <1>9, <1>a DEF Holds
    <3> QED BY <1>1, <1>9, <3>1, RequestFacts DEF Received, Produced
  <2> QED BY <2>1, <2>2, <2>3, <2>4 DEF KeepsCounts, Dirs
<1>11. StageInv(s)'
  <2>0. /\ CountInv(s) /\ SavedInv(s) /\ SyncInv(s) /\ s \in Nat
        /\ M \in Nat /\ NumWarmup(s) \in 0 .. M /\ args.forward_only \in BOOLEAN
    BY <1>1, CallType DEF StageInv
  <2>1. CountInv(s)'
    <3>1. CASE args.forward_only
      BY <1>1, <1>4, <1>5, <1>9, <2>0, <3>1 DEF CountInv, NumWarmup, M
    <3>2. CASE ~args.forward_only
      <4>1. pc'[s] = "steady_backward"
        BY <1>9, <3>2
      <4>2. NumWarmup(s)' = NumWarmup(s) /\ M' = M
        BY <1>5 DEF NumWarmup, M
      <4>3. /\ NumWarmup(s) <= Len(fwd[s]) /\ Len(fwd[s]) < M
            /\ Len(main_grad[s]) = Len(fwd[s]) - NumWarmup(s)
        BY <1>1, <2>0, <3>2 DEF CountInv
      <4>4. /\ NumWarmup(s) < Len(fwd'[s]) /\ Len(fwd'[s]) <= M
            /\ Len(main_grad'[s]) = Len(fwd'[s]) - NumWarmup(s) - 1
        <5>1. /\ Len(fwd'[s]) = Len(fwd[s]) + 1 /\ Len(fwd[s]) \in Nat
              /\ main_grad'[s] = main_grad[s]
          BY <1>1, <1>4, <1>9
        <5>2. M \in Nat /\ NumWarmup(s) \in Nat
          BY <2>0
        <5> QED BY <4>3, <5>1, <5>2
      <4> QED BY <1>5, <3>2, <4>1, <4>2, <4>4 DEF CountInv
    <3> QED BY <3>1, <3>2
  <2>2. SyncInv(s)'
    BY <1>1, <1>5, <1>9, <2>0 DEF SyncInv
  <2>3. OrderInv(s)'
    BY <1>1, <1>4, <1>5 DEF StageInv, OrderInv, IsRun
  <2>4. SavedInv(s)'
    <3>1. CASE args.forward_only
      BY <1>1, <1>4, <1>5, <1>9, <2>0, <3>1 DEF SavedInv, SavedFrom, SavedTo, IsRun
    <3>2. CASE ~args.forward_only
      <4>1. pc'[s] = "steady_backward"
        BY <1>9, <3>2
      <4>2. NumWarmup(s)' = NumWarmup(s) /\ M' = M
        BY <1>5 DEF NumWarmup, M
      <4>3. SavedFrom(s)' = SavedFrom(s) /\ SavedTo(s)' = SavedTo(s)
        BY <1>1, <1>4, <1>9, <4>1 DEF SavedFrom, SavedTo
      <4> QED BY <1>5, <2>0, <3>2, <4>3 DEF SavedInv, IsRun
    <3> QED BY <3>1, <3>2
  <2>5. ReqInv(s)'
    BY <1>9, RequestFacts DEF ReqInv, Awaits, Dirs
  <2>6. ValueInv(s)'
    <3>1. \A d \in Dirs : HasPeer(s, d) => ~Holds(s, d)'
      BY <1>9, <1>a, RequestFacts DEF Holds, Dirs
    <3>2. pc'[s] # "cooldown_backward"
      <4>1. CASE args.forward_only
        BY <1>9, <4>1
      <4>2. CASE ~args.forward_only
        BY <1>9, <4>2
      <4> QED BY <4>1, <4>2
    <3>3. s > 0 => tensor_recv'[s]["prev"] = Len(fwd'[s])
      BY <1>1, <1>2, <1>4, <1>6
    <3> QED BY <1>1, <1>4, <1>9, <3>1, <3>2, <3>3, RequestFacts
            DEF ValueInv, Dirs, Produced
  <2> QED BY <2>1, <2>2, <2>3, <2>4, <2>5, <2>6 DEF StageInv
<1> QED BY <1>5, <1>7, <1>8, <1>10, <1>11, LocalStep

\* The gradient a stage waited for is that of its next backward pass.
LEMMA BackwardValue ==
  ASSUME IInv, NEW s \in Stages, NEW l \in Awaits("next"), At(s, l)
  PROVE  LET b == Len(main_grad[s])
         IN /\ Gradient(s, b + 1, tensor_recv[s]["next"]) = b + 1
            /\ InputGrad(s, b + 1, b + 1, tensor_recv[s]["next"]) = b + 1
<1>1. StageInv(s) /\ Holds(s, "next") /\ s \in Nat /\ s < P
  BY Standing, RequestFacts, CallType
<1>2. s # P - 1 => tensor_recv[s]["next"] = Len(main_grad[s]) + 1
  BY <1>1, PeerFacts, RequestFacts, PAssumption DEF StageInv, ValueInv, Produced
<1> QED BY <1>2 DEF Gradient, InputGrad

\* What a backward pass of the next microbatch does to the gradients.
LEMMA BackwardRun ==
  ASSUME IInv, NEW s \in Stages, NEW l \in Awaits("next"), At(s, l),
         BackwardStep(s, Len(main_grad[s]) + 1)
  PROVE  /\ main_grad' \in [Stages -> Seq(Nat)]
         /\ \A t \in Stages \ {s} : main_grad'[t] = main_grad[t]
         /\ Len(main_grad'[s]) = Len(main_grad[s]) + 1
         /\ IsRun(main_grad'[s], 0)
         /\ reductions' \in [Stages -> Seq(Nat)]
         /\ \A t \in Stages \ {s} : reductions'[t] = reductions[t]
         /\ reductions[s] = <<>> => reductions'[s] =
              IF grad_sync[s] THEN <<Len(main_grad[s]) + 1>> ELSE <<>>
<1>1. /\ main_grad \in [Stages -> Seq(Nat)] /\ main_grad[s] \in Seq(Nat)
      /\ IsRun(main_grad[s], 0) /\ reductions \in [Stages -> Seq(Nat)]
      /\ grad_sync[s] \in BOOLEAN
  BY DEF IInv, TypeOK, StageInv, OrderInv
<1>2. main_grad' = [main_grad EXCEPT ![s] = Append(main_grad[s], Len(main_grad[s]) + 1)]
  <2>1. Gradient(s, Len(main_grad[s]) + 1, tensor_recv[s]["next"]) = Len(main_grad[s]) + 1
    BY BackwardValue
  <2> QED BY <2>1 DEF BackwardStep
<1>3. LET r == Append(main_grad[s], Len(main_grad[s]) + 1)
      IN r \in Seq(Nat) /\ Len(r) = Len(main_grad[s]) + 1 /\ IsRun(r, 0)
  BY <1>1, RunAppend
<1>4. Append(reductions[s], Len(main_grad[s]) + 1) \in Seq(Nat)
  BY <1>1
<1>5. /\ reductions' \in [Stages -> Seq(Nat)]
      /\ \A t \in Stages \ {s} : reductions'[t] = reductions[t]
      /\ reductions'[s] = IF grad_sync[s] THEN Append(reductions[s], Len(main_grad[s]) + 1)
                          ELSE reductions[s]
  <2>1. CASE grad_sync[s]
    <3>1. reductions' = [reductions EXCEPT
                           ![s] = Append(reductions[s], Len(main_grad[s]) + 1)]
      BY <2>1 DEF BackwardStep
    <3> QED BY <1>1, <1>4, <2>1, <3>1
  <2>2. CASE ~grad_sync[s]
    BY <1>1, <2>2 DEF BackwardStep
  <2> QED BY <2>1, <2>2
<1>6. reductions[s] = <<>> => reductions'[s] =
        IF grad_sync[s] THEN <<Len(main_grad[s]) + 1>> ELSE <<>>
  BY <1>5
<1>7. /\ main_grad' \in [Stages -> Seq(Nat)]
      /\ \A t \in Stages \ {s} : main_grad'[t] = main_grad[t]
      /\ Len(main_grad'[s]) = Len(main_grad[s]) + 1
      /\ IsRun(main_grad'[s], 0)
  BY <1>1, <1>2, <1>3
<1> QED BY <1>5, <1>6, <1>7

\* Popping the oldest of a run of saved tensors after appending the newest.
LEMMA PopRun ==
  ASSUME NEW q \in Seq(Nat), NEW a \in Nat, IsRun(q, a), Len(q) > 0
  PROVE  /\ Pop(q).first = a + 1
         /\ Pop(q).rest \in Seq(Nat) /\ Len(Pop(q).rest) = Len(q) - 1
         /\ IsRun(Pop(q).rest, a + 1)
BY RunTail DEF Pop

\* pop(0) keeps the types.
LEMMA PopType ==
  ASSUME NEW q \in Seq(Nat), Len(q) > 0
  PROVE  /\ Pop(q).first \in Nat
         /\ Pop(q).rest \in Seq(Nat) /\ Len(Pop(q).rest) = Len(q) - 1
BY DEF Pop

\* Append then pop(0): the oldest of the run comes out, the run moves on
\* by one.
LEMMA AppendPopRun ==
  ASSUME NEW q \in Seq(Nat), NEW a \in Nat, IsRun(q, a), NEW x, x = a + Len(q) + 1
  PROVE  /\ Pop(Append(q, x)).first = a + 1
         /\ Pop(Append(q, x)).rest \in Seq(Nat) /\ Len(Pop(Append(q, x)).rest) = Len(q)
         /\ IsRun(Pop(Append(q, x)).rest, a + 1)
<1> DEFINE r == Append(q, x)
<1>1. r \in Seq(Nat) /\ Len(r) = Len(q) + 1 /\ IsRun(r, a) /\ Len(q) \in Nat
  BY RunAppend
<1> HIDE DEF r
<1>2. /\ Pop(r).first = a + 1
      /\ Pop(r).rest \in Seq(Nat) /\ Len(Pop(r).rest) = Len(q)
      /\ IsRun(Pop(r).rest, a + 1)
  BY <1>1, PopRun
<1> QED BY <1>2 DEF r

\* Append then pop(0) keeps the types.
LEMMA AppendPopType ==
  ASSUME NEW q \in Seq(Nat), NEW x \in Nat
  PROVE  /\ Pop(Append(q, x)).first \in Nat
         /\ Pop(Append(q, x)).rest \in Seq(Nat) /\ Len(Pop(Append(q, x)).rest) = Len(q)
<1> DEFINE r == Append(q, x)
<1>1. r \in Seq(Nat) /\ Len(r) = Len(q) + 1 /\ Len(q) \in Nat
  OBVIOUS
<1> HIDE DEF r
<1>2. /\ Pop(r).first \in Nat
      /\ Pop(r).rest \in Seq(Nat) /\ Len(Pop(r).rest) = Len(q)
  BY <1>1, PopType
<1> QED BY <1>2 DEF r

\* The backward pass of a steady-state iteration preserves IInv.
LEMMA SteadyBackwardStep ==
  ASSUME IInv, NEW s \in Stages, SteadyBackward(s)
  PROVE  IInv'
<1> DEFINE f == Len(fwd[s])
           b == Len(main_grad[s])
           input == Pop(Append(input_tensors[s], tensor_recv[s]["prev"]))
           output == Pop(Append(output_tensors[s], tensor_send[s]["next"]))
<1>0. At(s, "steady_backward") /\ "steady_backward" \in Awaits("next")
      /\ "steady_backward" \notin Awaits("prev")
  BY DEF SteadyBackward, Awaits
<1>1. /\ TypeOK /\ StageInv(s) /\ pc[s] = "steady_backward" /\ reqs[s] = {}
      /\ args \in Calls
      /\ input_tensors[s] \in Seq(Nat) /\ output_tensors[s] \in Seq(Nat)
      /\ f \in Nat /\ b \in Nat
      /\ \A d \in Dirs : Sent(s, d) = Produced(s, d) /\ tensor_recv[s][d] \in Nat
      /\ Holds(s, "next") /\ ~Holds(s, "prev")
  BY <1>0, Standing, RequestFacts
<1>2. /\ M \in Nat /\ NumWarmup(s) \in 0 .. M /\ s \in Nat
      /\ ~args.forward_only /\ NumWarmup(s) < f /\ f <= M /\ b = f - NumWarmup(s) - 1
      /\ ~grad_sync[s] /\ reductions[s] = <<>>
      /\ tensor_send[s]["next"] = f
      /\ s > 0 => tensor_recv[s]["prev"] = f
  BY <1>1, CallType DEF StageInv, CountInv, SyncInv, ValueInv
<1>3. /\ Len(output_tensors[s]) = f - 1 - b /\ Len(input_tensors[s]) = f - 1 - b
      /\ IsRun(output_tensors[s], b)
      /\ s > 0 => IsRun(input_tensors[s], b)
  BY <1>1, <1>2 DEF StageInv, SavedInv, SavedFrom, SavedTo
<1>4. /\ output.first = b + 1 /\ output.rest \in Seq(Nat)
      /\ Len(output.rest) = f - 1 - b /\ IsRun(output.rest, b + 1)
  <2>1. f = b + Len(output_tensors[s]) + 1
    BY SMTT(60), <1>1, <1>2, <1>3
  <2> DEFINE q == output_tensors[s]
             x == tensor_send[s]["next"]
  <2>2. q \in Seq(Nat) /\ b \in Nat /\ IsRun(q, b)
    BY <1>1, <1>3
  <2>3. x = b + Len(q) + 1
    BY <1>2, <2>1
  <2>4. /\ Pop(Append(q, x)).first = b + 1 /\ Pop(Append(q, x)).rest \in Seq(Nat)
        /\ Len(Pop(Append(q, x)).rest) = Len(q)
        /\ IsRun(Pop(Append(q, x)).rest, b + 1)
    <3> HIDE DEF q, x, b
    <3> QED BY <2>2, <2>3, AppendPopRun
  <2> QED BY <1>3, <2>4
<1>5. /\ input.first \in Nat /\ input.rest \in Seq(Nat)
      /\ Len(input.rest) = f - 1 - b
  <2>1. input_tensors[s] \in Seq(Nat) /\ tensor_recv[s]["prev"] \in Nat
    BY <1>1, RequestFacts
  <2> QED BY <1>3, <2>1, AppendPopType
<1>6. s > 0 => input.first = b + 1 /\ IsRun(input.rest, b + 1)
  <2>1. SUFFICES ASSUME s > 0 PROVE input.first = b + 1 /\ IsRun(input.rest, b + 1)
    OBVIOUS
  <2>2. f = b + Len(input_tensors[s]) + 1
    BY SMTT(60), <1>1, <1>2, <1>3
  <2> DEFINE q == input_tensors[s]
             x == tensor_recv[s]["prev"]
  <2>3. q \in Seq(Nat) /\ b \in Nat /\ IsRun(q, b)
    BY <1>1, <1>3, <2>1
  <2>4. x = b + Len(q) + 1
    BY <1>2, <2>1, <2>2
  <2>5. Pop(Append(q, x)).first = b + 1 /\ IsRun(Pop(Append(q, x)).rest, b + 1)
    <3> HIDE DEF q, x, b
    <3> QED BY <2>3, <2>4, AppendPopRun
  <2> QED BY <2>5
<1> DEFINE g == InputGrad(s, input.first, output.first, tensor_recv[s]["next"])
<1>7. g \in Nat /\ (s > 0 => g = b + 1)
  <2>1. s > 0 => g = b + 1
    BY <1>0, <1>4, <1>6, BackwardValue
  <2>2. Gradient(s, b + 1, tensor_recv[s]["next"]) = b + 1
    BY <1>0, BackwardValue
  <2> QED BY <1>1, <1>4, <2>1, <2>2 DEF InputGrad, Garbage
<1> HIDE DEF input, output, g
<1>8. /\ main_grad' \in [Stages -> Seq(Nat)]
      /\ \A t \in Stages \ {s} : main_grad'[t] = main_grad[t]
      /\ Len(main_grad'[s]) = b + 1
      /\ IsRun(main_grad'[s], 0)
      /\ reductions' \in [Stages -> Seq(Nat)]
      /\ \A t \in Stages \ {s} : reductions'[t] = reductions[t]
      /\ reductions'[s] = <<>>
  <2>1. BackwardStep(s, b + 1)
    BY <1>4 DEF SteadyBackward, output
  <2> QED BY <1>0, <1>2, <2>1, BackwardRun
<1>9. /\ args' = args /\ chan' = chan /\ fwd' = fwd /\ grad_sync' = grad_sync
      /\ input_tensors' = [input_tensors EXCEPT ![s] = input.rest]
      /\ output_tensors' = [output_tensors EXCEPT ![s] = output.rest]
      /\ tensor_send' = [tensor_send EXCEPT ![s] = [next |-> b + 1, prev |-> g]]
      /\ tensor_recv' = [tensor_recv EXCEPT ![s]["prev"] = 0]
      /\ pc' = [pc EXCEPT ![s] = IF f = M THEN "cooldown" ELSE "steady_forward"]
  BY <1>4 DEF SteadyBackward, Goto, None, input, output, g
<1>10. /\ reqs' \in [Stages -> SUBSET Requests]
       /\ \A t \in Stages : \A o \in reqs'[t] : HasPeer(t, o[2])
       /\ reqs'[s] = {o \in IF f = M THEN {Send("prev")}
                            ELSE {Send("prev"), Recv("prev")} : HasPeer(s, o[2])}
       /\ \A t \in Stages \ {s} : reqs'[t] = reqs[t]
  <2>1. {Send("prev")} \in SUBSET Requests /\ {Send("prev"), Recv("prev")} \in SUBSET Requests
    BY RequestFacts
  <2>2. CASE f = M
    BY <1>1, <2>1, <2>2, PostType DEF SteadyBackward
  <2>3. CASE f # M
    BY <1>1, <2>1, <2>3, PostType DEF SteadyBackward
  <2> QED BY <2>2, <2>3
<1>11. TypeOK'
  <2>1. tensor_send' \in [Stages -> [Dirs -> Nat]]
    <3>1. [next |-> b + 1, prev |-> g] \in [Dirs -> Nat]
      BY <1>1, <1>7 DEF Dirs
    <3> QED BY <1>1, <1>9, <3>1 DEF TypeOK
  <2>2. tensor_recv' \in [Stages -> [Dirs -> Nat]]
    BY <1>1, <1>9, RequestFacts DEF TypeOK
  <2>3. /\ input_tensors' \in [Stages -> Seq(Nat)]
        /\ output_tensors' \in [Stages -> Seq(Nat)]
    BY <1>1, <1>4, <1>5, <1>9 DEF TypeOK
  <2>4. pc' \in [Stages -> Labels]
    BY <1>1, <1>9 DEF TypeOK, Labels
  <2> QED BY <1>1, <1>8, <1>9, <1>10, <2>1, <2>2, <2>3, <2>4 DEF TypeOK
<1>12. OthersSame(s)
  BY <1>1, <1>8, <1>9, <1>10 DEF TypeOK, OthersSame, Same
<1>13. /\ pc'[s] = IF f = M THEN "cooldown" ELSE "steady_forward"
       /\ input_tensors'[s] = input.rest /\ output_tensors'[s] = output.rest
       /\ tensor_send'[s]["prev"] = g /\ fwd'[s] = fwd[s]
       /\ grad_sync'[s] = grad_sync[s]
       /\ Recv("next") \notin reqs'[s] /\ Send("next") \notin reqs'[s]
       /\ HasPeer(s, "prev") => Send("prev") \in reqs'[s]
       /\ Recv("prev") \in reqs'[s] => f # M
       /\ HasPeer(s, "prev") /\ f # M => Recv("prev") \in reqs'[s]
  BY <1>1, <1>9, <1>10, RequestFacts DEF TypeOK
<1>14. /\ pc'[s] \notin Awaits("next") /\ (pc'[s] \in Awaits("prev") <=> f # M)
       /\ pc'[s] # "steady_backward" /\ pc'[s] # "cooldown_backward"
  <2>1. CASE f = M
    BY <1>13, <2>1 DEF Awaits
  <2>2. CASE f # M
    BY <1>13, <2>2 DEF Awaits
  <2> QED BY <2>1, <2>2
<1>15. KeepsCounts(s)
  <2>1. Sent(s, "next")' = Sent(s, "next")
    BY <1>1, <1>13, RequestFacts DEF Sent, Produced
  <2>2. HasPeer(s, "prev") => Sent(s, "prev")' = Sent(s, "prev")
    BY <1>1, <1>8, <1>13, RequestFacts DEF Sent, Produced
  <2>3. HasPeer(s, "prev") => Received(s, "prev")' = Received(s, "prev")
    <3>1. HasPeer(s, "prev") => ~Holds(s, "prev")'
      BY <1>13, <1>14 DEF Holds
    <3> QED BY <1>1, <1>13, <3>1, RequestFacts DEF Received, Produced
  <2>4. Received(s, "next")' = Received(s, "next")
    BY <1>1, <1>8, <1>14, RequestFacts DEF Received, Holds, Produced
  <2> QED BY <2>1, <2>2, <2>3, <2>4 DEF KeepsCounts, Dirs
<1>16. StageInv(s)'
  <2>0. NumWarmup(s)' = NumWarmup(s) /\ M' = M
    BY <1>9 DEF NumWarmup, M
  <2>a. Len(fwd'[s]) = f /\ Len(main_grad'[s]) = f - NumWarmup(s)
    BY <1>1, <1>2, <1>8, <1>13
  <2>1. CountInv(s)'
    <3>1. CASE f = M
      BY <1>2, <1>9, <1>13, <2>0, <2>a, <3>1 DEF CountInv
    <3>2. CASE f # M
      BY <1>2, <1>9, <1>13, <2>0, <2>a, <3>2 DEF CountInv
    <3> QED BY <3>1, <3>2
  <2>2. SyncInv(s)'
    <3>1. ~grad_sync'[s] /\ reductions'[s] = <<>> /\ args' = args
      BY <1>2, <1>8, <1>9, <1>13
    <3>2. CASE f = M
      <4>1. /\ pc'[s] = "cooldown"
            /\ ~(Len(main_grad'[s]) = M /\ NumWarmup(s) > 0)
        BY <1>2, <1>13, <2>a, <3>2
      <4> QED BY <2>0, <3>1, <4>1 DEF SyncInv
    <3>3. CASE f # M
      <4>1. pc'[s] = "steady_forward"
        BY <1>13, <3>3
      <4> QED BY <3>1, <4>1 DEF SyncInv
    <3> QED BY <3>2, <3>3
  <2>3. OrderInv(s)'
    BY <1>1, <1>8, <1>13 DEF StageInv, OrderInv, IsRun
  <2>4. SavedInv(s)'
    <3>1. SavedFrom(s)' = b + 1 /\ SavedTo(s)' = f
      BY <1>8, <1>13, <1>14 DEF SavedFrom, SavedTo
    <3>2. f - 1 - b = f - (b + 1)
      BY <1>1
    <3> QED BY <1>4, <1>5, <1>6, <1>13, <3>1, <3>2 DEF SavedInv, IsRun
  <2>5. ReqInv(s)'
    BY <1>13, RequestFacts DEF ReqInv, Awaits, Dirs
  <2>6. ValueInv(s)'
    <3>1. \A d \in Dirs : HasPeer(s, d) => ~Holds(s, d)'
      BY <1>13, <1>14, RequestFacts DEF Holds, Dirs
    <3>2. HasPeer(s, "prev") => tensor_send'[s]["prev"] = Len(main_grad'[s])
      BY <1>1, <1>7, <1>8, <1>13, PeerFacts
    <3>3. Send("prev") \in reqs'[s] => HasPeer(s, "prev")
      BY <1>10, RequestFacts
    <3> QED BY <1>13, <1>14, <3>1, <3>2, <3>3, RequestFacts DEF ValueInv, Dirs, Produced
  <2> QED BY <2>1, <2>2, <2>3, <2>4, <2>5, <2>6 DEF StageInv
<1> QED BY <1>9, <1>11, <1>12, <1>15, <1>16, LocalStep

\* The pops and the receive of a cooldown iteration preserve IInv.
LEMMA CooldownRecvStep ==
  ASSUME IInv, NEW s \in Stages, CooldownRecv(s)
  PROVE  IInv'
<1> DEFINE b == Len(main_grad[s])
           input == Pop(input_tensors[s])
           output == Pop(output_tensors[s])
           late == ~args.grad_sync_func \/ s = 0
<1>0. At(s, "cooldown") /\ \A d \in Dirs : "cooldown" \notin Awaits(d)
  BY DEF CooldownRecv, Awaits
<1>1. /\ TypeOK /\ StageInv(s) /\ pc[s] = "cooldown" /\ reqs[s] = {}
      /\ args \in Calls
      /\ input_tensors[s] \in Seq(Nat) /\ output_tensors[s] \in Seq(Nat)
      /\ fwd[s] \in Seq(Nat) /\ b \in Nat
      /\ \A d \in Dirs : Sent(s, d) = Produced(s, d) /\ ~Holds(s, d)
  BY <1>0, Standing, RequestFacts
<1>2. /\ M \in Nat /\ NumWarmup(s) \in 0 .. M /\ s \in Nat
      /\ ~args.forward_only /\ Len(fwd[s]) = M /\ M - NumWarmup(s) <= b /\ b < M
      /\ ~grad_sync[s] /\ reductions[s] = <<>>
  BY <1>1, CallType DEF CooldownRecv, StageInv, CountInv, SyncInv
<1>3. /\ Len(output_tensors[s]) = M - b /\ Len(input_tensors[s]) = M - b
      /\ IsRun(output_tensors[s], b)
      /\ s > 0 => IsRun(input_tensors[s], b)
  BY <1>1, <1>2 DEF StageInv, SavedInv, SavedFrom, SavedTo
<1>4. /\ output.first = b + 1 /\ output.rest \in Seq(Nat)
      /\ Len(output.rest) = M - (b + 1) /\ IsRun(output.rest, b + 1)
  <2>1. /\ output_tensors[s] \in Seq(Nat) /\ b \in Nat /\ IsRun(output_tensors[s], b)
        /\ Len(output_tensors[s]) > 0
    BY <1>1, <1>2, <1>3
  <2>2. /\ output.first = b + 1 /\ output.rest \in Seq(Nat)
        /\ Len(output.rest) = Len(output_tensors[s]) - 1
        /\ IsRun(output.rest, b + 1)
    BY <2>1, PopRun
  <2> QED BY <1>1, <1>2, <1>3, <2>2
<1>5. /\ input.first \in Nat /\ input.rest \in Seq(Nat)
      /\ Len(input.rest) = M - (b + 1)
      /\ s > 0 => input.first = b + 1 /\ IsRun(input.rest, b + 1)
  <2>1. input_tensors[s] \in Seq(Nat) /\ b \in Nat /\ Len(input_tensors[s]) > 0
    BY <1>1, <1>2, <1>3
  <2>2. /\ input.first \in Nat /\ input.rest \in Seq(Nat)
        /\ Len(input.rest) = Len(input_tensors[s]) - 1
    BY <2>1, PopType
  <2>3. s > 0 => input.first = b + 1 /\ IsRun(input.rest, b + 1)
    BY <1>3, <2>1, PopRun
  <2> QED BY <1>2, <1>3, <2>1, <2>2, <2>3
<1> HIDE DEF input, output
<1>6. /\ args' = args /\ chan' = chan /\ fwd' = fwd /\ main_grad' = main_grad
      /\ reductions' = reductions
      /\ input_tensors' = [input_tensors EXCEPT ![s] = input.rest]
      /\ output_tensors' = [output_tensors EXCEPT ![s] = output.rest]
      /\ tensor_send' = [tensor_send EXCEPT ![s]["next"] = b + 1]
      /\ tensor_recv' = [tensor_recv EXCEPT ![s] = [prev |-> input.first, next |-> 0]]
      /\ pc' = [pc EXCEPT ![s] = "cooldown_backward"]
      /\ grad_sync' = [grad_sync EXCEPT ![s] = @ \/ (b = M - 1 /\ late)]
  BY <1>4 DEF CooldownRecv, Goto, None, LastCooldown, input, output
<1>7. /\ reqs' \in [Stages -> SUBSET Requests]
      /\ \A t \in Stages : \A o \in reqs'[t] : HasPeer(t, o[2])
      /\ reqs'[s] = {o \in {Recv("next")} : HasPeer(s, o[2])}
      /\ \A t \in Stages \ {s} : reqs'[t] = reqs[t]
  <2>1. {Recv("next")} \in SUBSET Requests
    BY RequestFacts
  <2> QED BY <1>1, <2>1, PostType DEF CooldownRecv
<1>8. TypeOK'
  <2>1. tensor_recv' \in [Stages -> [Dirs -> Nat]]
    <3>1. [prev |-> input.first, next |-> 0] \in [Dirs -> Nat]
      BY <1>5 DEF Dirs
    <3> QED BY <1>1, <1>6, <3>1 DEF TypeOK
  <2>2. tensor_send' \in [Stages -> [Dirs -> Nat]]
    BY <1>1, <1>6, RequestFacts DEF TypeOK
  <2>3. /\ input_tensors' \in [Stages -> Seq(Nat)]
        /\ output_tensors' \in [Stages -> Seq(Nat)]
    BY <1>1, <1>4, <1>5, <1>6 DEF TypeOK
  <2>4. pc' \in [Stages -> Labels] /\ grad_sync' \in [Stages -> BOOLEAN]
    BY <1>1, <1>6 DEF TypeOK, Labels
  <2> QED BY <1>1, <1>6, <1>7, <2>1, <2>2, <2>3, <2>4 DEF TypeOK
<1>9. OthersSame(s)
  BY <1>1, <1>6, <1>7 DEF TypeOK, OthersSame, Same
<1>10. /\ pc'[s] = "cooldown_backward"
       /\ input_tensors'[s] = input.rest /\ output_tensors'[s] = output.rest
       /\ tensor_recv'[s]["prev"] = input.first /\ tensor_send'[s]["next"] = b + 1
       /\ fwd'[s] = fwd[s] /\ main_grad'[s] = main_grad[s]
       /\ reductions'[s] = <<>> /\ (grad_sync'[s] <=> b = M - 1 /\ late)
       /\ \A d \in Dirs : Send(d) \notin reqs'[s]
       /\ Recv("prev") \notin reqs'[s]
       /\ HasPeer(s, "next") => Recv("next") \in reqs'[s]
  <2>1. /\ pc'[s] = "cooldown_backward"
        /\ input_tensors'[s] = input.rest /\ output_tensors'[s] = output.rest
        /\ tensor_recv'[s]["prev"] = input.first /\ tensor_send'[s]["next"] = b + 1
        /\ fwd'[s] = fwd[s] /\ main_grad'[s] = main_grad[s]
        /\ reductions'[s] = <<>>
    BY <1>1, <1>2, <1>6, RequestFacts DEF TypeOK
  <2>2. grad_sync'[s] <=> b = M - 1 /\ late
    <3>1. grad_sync'[s] = (grad_sync[s] \/ (b = M - 1 /\ late))
      BY <1>1, <1>6 DEF TypeOK
    <3> QED BY <1>2, <3>1
  <2>3. /\ \A d \in Dirs : Send(d) \notin reqs'[s]
        /\ Recv("prev") \notin reqs'[s]
        /\ HasPeer(s, "next") => Recv("next") \in reqs'[s]
    BY <1>7, RequestFacts
  <2> QED BY <2>1, <2>2, <2>3
<1>11. KeepsCounts(s)
  <2>1. \A d \in Dirs : Produced(s, d)' = Produced(s, d) /\ Sent(s, d)' = Produced(s, d)
    BY <1>10 DEF Produced, Sent
  <2>2. \A d \in Dirs : HasPeer(s, d) => ~Holds(s, d)'
    BY <1>10 DEF Holds, Awaits, Dirs
  <2> QED BY <1>1, <2>1, <2>2, RequestFacts DEF KeepsCounts, Received
<1>12. StageInv(s)'
  <2>0. NumWarmup(s)' = NumWarmup(s) /\ M' = M
    BY <1>6 DEF NumWarmup, M
  <2>1. CountInv(s)'
    BY <1>2, <1>6, <1>10, <2>0 DEF CountInv
  <2>2. SyncInv(s)'
    BY <1>6, <1>10, <2>0 DEF SyncInv
  <2>3. OrderInv(s)'
    BY <1>1, <1>10 DEF StageInv, OrderInv, IsRun
  <2>4. SavedInv(s)'
    <3>1. SavedFrom(s)' = b + 1 /\ SavedTo(s)' = M
      BY <1>2, <1>10 DEF SavedFrom, SavedTo
    <3> QED BY <1>4, <1>5, <1>10, <3>1 DEF SavedInv, IsRun
  <2>5. ReqInv(s)'
    BY <1>10, RequestFacts DEF ReqInv, Awaits, Dirs
  <2>6. ValueInv(s)'
    BY <1>5, <1>10, RequestFacts DEF ValueInv, Holds, Awaits, Dirs
  <2> QED BY <2>1, <2>2, <2>3, <2>4, <2>5, <2>6 DEF StageInv
<1> QED BY <1>6, <1>8, <1>9, <1>11, <1>12, LocalStep

\* The backward pass of a cooldown iteration preserves IInv.
LEMMA CooldownBackwardStep ==
  ASSUME IInv, NEW s \in Stages, CooldownBackward(s)
  PROVE  IInv'
<1> DEFINE b == Len(main_grad[s])
           g == InputGrad(s, tensor_recv[s]["prev"], b + 1, tensor_recv[s]["next"])
           late == ~args.grad_sync_func \/ s = 0
<1>0. At(s, "cooldown_backward") /\ "cooldown_backward" \in Awaits("next")
      /\ "cooldown_backward" \notin Awaits("prev")
  BY DEF CooldownBackward, Awaits
<1>1. /\ TypeOK /\ StageInv(s) /\ pc[s] = "cooldown_backward" /\ reqs[s] = {}
      /\ args \in Calls
      /\ fwd[s] \in Seq(Nat) /\ b \in Nat
      /\ \A d \in Dirs : Sent(s, d) = Produced(s, d) /\ tensor_recv[s][d] \in Nat
      /\ Holds(s, "next") /\ ~Holds(s, "prev")
  BY <1>0, Standing, RequestFacts
<1>2. /\ M \in Nat /\ NumWarmup(s) \in 0 .. M /\ s \in Nat
      /\ ~args.forward_only /\ Len(fwd[s]) = M /\ M - NumWarmup(s) <= b /\ b < M
      /\ (grad_sync[s] <=> late /\ b = M - 1) /\ reductions[s] = <<>>
      /\ tensor_send[s]["next"] = b + 1
      /\ s > 0 => tensor_recv[s]["prev"] = b + 1
  BY <1>1, CallType DEF StageInv, CountInv, SyncInv, ValueInv
<1>3. g \in Nat /\ (s > 0 => g = b + 1)
  <2>1. s > 0 => g = b + 1
    BY <1>0, <1>2, BackwardValue
  <2>2. Gradient(s, b + 1, tensor_recv[s]["next"]) = b + 1
    BY <1>0, BackwardValue
  <2> QED BY <1>1, <2>1, <2>2 DEF InputGrad, Garbage
<1> HIDE DEF g
<1>4. /\ main_grad' \in [Stages -> Seq(Nat)]
      /\ \A t \in Stages \ {s} : main_grad'[t] = main_grad[t]
      /\ Len(main_grad'[s]) = b + 1
      /\ IsRun(main_grad'[s], 0)
      /\ reductions' \in [Stages -> Seq(Nat)]
      /\ \A t \in Stages \ {s} : reductions'[t] = reductions[t]
      /\ reductions'[s] = IF grad_sync[s] THEN <<b + 1>> ELSE <<>>
  <2>1. BackwardStep(s, b + 1)
    BY <1>2 DEF CooldownBackward
  <2> QED BY <1>0, <1>2, <2>1, BackwardRun
<1>5. /\ args' = args /\ chan' = chan /\ fwd' = fwd /\ grad_sync' = grad_sync
      /\ input_tensors' = input_tensors /\ output_tensors' = output_tensors
      /\ tensor_recv' = tensor_recv
      /\ tensor_send' = [tensor_send EXCEPT ![s]["prev"] = g]
      /\ pc' = [pc EXCEPT ![s] = "cooldown"]
  BY <1>2 DEF CooldownBackward, Goto, g
<1>6. /\ reqs' \in [Stages -> SUBSET Requests]
      /\ \A t \in Stages : \A o \in reqs'[t] : HasPeer(t, o[2])
      /\ reqs'[s] = {o \in {Send("prev")} : HasPeer(s, o[2])}
      /\ \A t \in Stages \ {s} : reqs'[t] = reqs[t]
  <2>1. {Send("prev")} \in SUBSET Requests
    BY RequestFacts
  <2> QED BY <1>1, <2>1, PostType DEF CooldownBackward
<1>7. TypeOK'
  <2>1. tensor_send' \in [Stages -> [Dirs -> Nat]]
    BY <1>1, <1>3, <1>5, RequestFacts DEF TypeOK
  <2>2. pc' \in [Stages -> Labels]
    BY <1>1, <1>5 DEF TypeOK, Labels
  <2> QED BY <1>1, <1>4, <1>5, <1>6, <2>1, <2>2 DEF TypeOK
<1>8. OthersSame(s)
  BY <1>1, <1>4, <1>5, <1>6 DEF TypeOK, OthersSame, Same
<1>9. /\ pc'[s] = "cooldown" /\ tensor_send'[s]["prev"] = g
      /\ fwd'[s] = fwd[s] /\ grad_sync'[s] = grad_sync[s]
      /\ \A d \in Dirs : Recv(d) \notin reqs'[s]
      /\ Send("next") \notin reqs'[s]
      /\ HasPeer(s, "prev") <=> Send("prev") \in reqs'[s]
  BY <1>1, <1>5, <1>6, RequestFacts DEF TypeOK
<1>10. KeepsCounts(s)
  BY <1>1, <1>4, <1>9, RequestFacts
     DEF KeepsCounts, Sent, Received, Holds, Produced, Awaits, Dirs, Opposite
<1>11. StageInv(s)'
  <2>0. NumWarmup(s)' = NumWarmup(s) /\ M' = M
    BY <1>5 DEF NumWarmup, M
  <2>1. CountInv(s)'
    <3>1. M - NumWarmup(s) <= b + 1 /\ b + 1 <= M
      <4>1. /\ M \in Nat /\ NumWarmup(s) \in Nat /\ b \in Nat
            /\ M - NumWarmup(s) <= b /\ b < M
        BY <1>1, <1>2
      <4> HIDE DEF b
      <4> QED BY <4>1
    <3>2. Len(fwd'[s]) = M /\ Len(main_grad'[s]) = b + 1
      BY <1>2, <1>4, <1>9
    <3> QED BY <1>2, <1>5, <1>9, <2>0, <3>1, <3>2 DEF CountInv
  <2>2. SyncInv(s)'
    <3>1. b = M - 1 <=> b + 1 = M
      BY <1>1, <1>2
    <3>2. NumWarmup(s) > 0
      BY <1>1, <1>2
    <3>3. grad_sync[s] <=> late /\ b + 1 = M
      BY <1>2, <3>1
    <3>4. reductions'[s] = IF grad_sync[s] THEN <<M>> ELSE <<>>
      BY <1>4, <3>3
    <3> QED BY <1>2, <1>4, <1>5, <1>9, <2>0, <3>2, <3>3, <3>4 DEF SyncInv
  <2>3. OrderInv(s)'
    BY <1>1, <1>4, <1>9 DEF StageInv, OrderInv, IsRun
  <2>4. SavedInv(s)'
    <3>1. SavedFrom(s)' = SavedFrom(s) /\ SavedTo(s)' = SavedTo(s)
      BY <1>1, <1>4, <1>9 DEF SavedFrom, SavedTo
    <3> QED BY <1>1, <1>5, <3>1 DEF StageInv, SavedInv, IsRun
  <2>5. ReqInv(s)'
    BY <1>9, RequestFacts DEF ReqInv, Awaits, Dirs
  <2>6. ValueInv(s)'
    <3>1. HasPeer(s, "prev") => tensor_send'[s]["prev"] = Len(main_grad'[s])
      BY <1>3, <1>4, <1>9, PeerFacts
    <3> QED BY <1>9, <3>1, RequestFacts DEF ValueInv, Holds, Awaits, Dirs, Produced
  <2> QED BY <2>1, <2>2, <2>3, <2>4, <2>5, <2>6 DEF StageInv
<1> QED BY <1>5, <1>7, <1>8, <1>10, <1>11, LocalStep

\* Returning from the call preserves IInv.
LEMMA FinishStep ==
  ASSUME IInv, NEW s \in Stages, Finish(s)
  PROVE  IInv'
<1> DEFINE b == Len(main_grad[s])
           late == ~args.grad_sync_func \/ s = 0
<1>0. At(s, "cooldown") /\ \A d \in Dirs : "cooldown" \notin Awaits(d)
  BY DEF Finish, Awaits
<1>1. /\ TypeOK /\ StageInv(s) /\ pc[s] = "cooldown" /\ reqs[s] = {}
      /\ args \in Calls
      /\ reductions[s] \in Seq(Nat) /\ fwd[s] \in Seq(Nat) /\ b \in Nat
      /\ \A d \in Dirs : ~Holds(s, d)
  BY <1>0, Standing
<1>2. /\ M \in Nat /\ NumWarmup(s) \in 0 .. M
      /\ args.forward_only \in BOOLEAN /\ args.grad_sync_func \in BOOLEAN
      /\ s = 0 => NumWarmup(s) > 0
      /\ Len(fwd[s]) = M
      /\ args.forward_only => b = 0
      /\ ~args.forward_only => b = M
      /\ grad_sync[s] <=> ~args.forward_only /\ late /\ b = M /\ NumWarmup(s) > 0
      /\ reductions[s] = IF grad_sync[s] THEN <<M>> ELSE <<>>
  BY <1>1, CallType, PAssumption DEF Finish, StageInv, CountInv, SyncInv
<1>3. /\ args' = args /\ chan' = chan /\ fwd' = fwd /\ main_grad' = main_grad
      /\ reqs' = reqs /\ tensor_send' = tensor_send /\ tensor_recv' = tensor_recv
      /\ input_tensors' = input_tensors /\ output_tensors' = output_tensors
      /\ pc' = [pc EXCEPT ![s] = "done"]
      /\ grad_sync' = [grad_sync EXCEPT ![s] = TRUE]
  BY DEF Finish, Goto
<1>4. /\ reductions' \in [Stages -> Seq(Nat)]
      /\ \A t \in Stages \ {s} : reductions'[t] = reductions[t]
      /\ reductions'[s] = IF ~grad_sync[s] /\ args.grad_sync_func
                          THEN Append(reductions[s], b) ELSE reductions[s]
  <2>1. CASE ~grad_sync[s] /\ args.grad_sync_func
    <3>1. reductions' = [reductions EXCEPT ![s] = Append(reductions[s], b)]
      BY <2>1 DEF Finish
    <3>2. Append(reductions[s], b) \in Seq(Nat)
      BY <1>1
    <3> QED BY <1>1, <2>1, <3>1, <3>2 DEF TypeOK
  <2>2. CASE ~(~grad_sync[s] /\ args.grad_sync_func)
    <3>1. reductions' = reductions
      BY <2>2 DEF Finish
    <3> QED BY <1>1, <2>2, <3>1 DEF TypeOK
  <2> QED BY <2>1, <2>2
<1>5. TypeOK'
  <2>1. pc' \in [Stages -> Labels] /\ grad_sync' \in [Stages -> BOOLEAN]
    BY <1>1, <1>3 DEF TypeOK, Labels
  <2> QED BY <1>1, <1>3, <1>4, <2>1 DEF TypeOK
<1>6. OthersSame(s)
  BY <1>1, <1>3, <1>4 DEF TypeOK, OthersSame, Same
<1>7. pc'[s] = "done"
  BY <1>1, <1>3 DEF TypeOK
<1>8. KeepsCounts(s)
  BY <1>1, <1>3, <1>7, RequestFacts
     DEF KeepsCounts, Sent, Received, Holds, Produced, Awaits, Dirs, Opposite
<1>9. StageInv(s)'
  <2>0. NumWarmup(s)' = NumWarmup(s) /\ M' = M
    BY <1>3 DEF NumWarmup, M
  <2>1. CountInv(s)'
    BY <1>2, <1>3, <1>7, <2>0 DEF CountInv
  <2>2. SyncInv(s)'
    <3>1. SUFFICES ASSUME ~args.forward_only, NumWarmup(s) > 0 \/ args.grad_sync_func
                   PROVE  reductions'[s] = <<M>>
      BY <1>3, <1>7, <2>0 DEF SyncInv
    <3>2. b = M
      BY <1>2, <3>1
    <3>3. CASE grad_sync[s]
      BY <1>2, <1>4, <3>3
    <3>4. CASE ~grad_sync[s]
      <4>1. args.grad_sync_func
        BY <1>2, <3>1, <3>2, <3>4
      <4>2. reductions[s] = <<>>
        BY <1>2, <3>4
      <4>3. Append(<<>>, M) = <<M>>
        OBVIOUS
      <4> QED BY <1>4, <3>2, <3>4, <4>1, <4>2, <4>3
    <3> QED BY <3>3, <3>4
  <2>3. OrderInv(s)' /\ SavedInv(s)'
    BY <1>1, <1>3, <1>7 DEF StageInv, OrderInv, SavedInv, SavedFrom, SavedTo, IsRun
  <2>4. ReqInv(s)' /\ ValueInv(s)'
    BY <1>1, <1>3, <1>7, RequestFacts DEF ReqInv, ValueInv, Holds, Awaits, Dirs
  <2> QED BY <2>1, <2>2, <2>3, <2>4 DEF StageInv
<1> QED BY <1>3, <1>5, <1>6, <1>8, <1>9, LocalStep

(***************************************************************************)
(* A transfer completes a send, a receive, or one of each.                 *)
(***************************************************************************)

\* The counters of a stage are natural numbers.
LEMMA CountType ==
  ASSUME TypeOK, NEW s \in Stages, NEW d \in Dirs
  PROVE  /\ Produced(s, d) \in Nat /\ Received(s, d) \in Nat
         /\ Sent(s, d) = Produced(s, d) \/ Sent(s, d) = Produced(s, d) - 1
<1>1. fwd[s] \in Seq(Nat) /\ main_grad[s] \in Seq(Nat)
  BY DEF TypeOK
<1>2. \A e \in Dirs : Produced(s, e) \in Nat
  BY <1>1 DEF Produced
<1> QED BY <1>2, RequestFacts DEF Received, Sent

\* A link none of whose ends moved keeps its invariant.
LEMMA LinkSame ==
  ASSUME IInv, NEW t \in Stages, NEW e \in Dirs, HasPeer(t, e),
         chan'[t][e] = chan[t][e], Sent(t, e)' = Sent(t, e),
         Received(Peer(t, e), Opposite(e))' = Received(Peer(t, e), Opposite(e))
  PROVE  LinkInv(t, e)'
BY DEF IInv, LinkInv, IsRun

\* The part of a stage a transfer leaves alone.
Waits(s) ==
  /\ pc'[s] = pc[s] /\ tensor_send'[s] = tensor_send[s]
  /\ input_tensors'[s] = input_tensors[s] /\ output_tensors'[s] = output_tensors[s]
  /\ fwd'[s] = fwd[s] /\ main_grad'[s] = main_grad[s]
  /\ grad_sync'[s] = grad_sync[s] /\ reductions'[s] = reductions[s]

\* Completing one request leaves what the stage knows of the others.
LEMMA WaitsFrame ==
  ASSUME NEW s \in Stages, StageInv(s), args' = args, Waits(s)
  PROVE  /\ CountInv(s)' /\ OrderInv(s)' /\ SavedInv(s)' /\ SyncInv(s)'
         /\ \A d \in Dirs : Produced(s, d)' = Produced(s, d)
<1>1. CountInv(s)' /\ SyncInv(s)'
  BY DEF Waits, StageInv, CountInv, SyncInv, NumWarmup, M
<1>2. OrderInv(s)' /\ SavedInv(s)'
  BY DEF Waits, StageInv, OrderInv, SavedInv, SavedFrom, SavedTo, IsRun
<1>3. \A d \in Dirs : Produced(s, d)' = Produced(s, d)
  BY DEF Waits, Produced
<1> QED BY <1>1, <1>2, <1>3

\* A stage keeps its invariant when its send completes.
LEMMA SendDone ==
  ASSUME IInv, NEW s \in Stages, NEW d \in Dirs, Send(d) \in reqs[s],
         args' = args, Waits(s), tensor_recv'[s] = tensor_recv[s],
         reqs'[s] = reqs[s] \ {Send(d)}
  PROVE  /\ StageInv(s)'
         /\ tensor_send[s][d] = Sent(s, d) + 1
         /\ Sent(s, d)' = Sent(s, d) + 1
         /\ \A e \in Dirs \ {d} : Sent(s, e)' = Sent(s, e)
         /\ \A e \in Dirs : Received(s, e)' = Received(s, e)
<1>1. TypeOK /\ StageInv(s)
  BY DEF IInv
<1>2. /\ CountInv(s)' /\ OrderInv(s)' /\ SavedInv(s)' /\ SyncInv(s)'
      /\ \A e \in Dirs : Produced(s, e)' = Produced(s, e)
  BY <1>1, WaitsFrame
<1>3. /\ \A e \in Dirs : Recv(e) \in reqs'[s] <=> Recv(e) \in reqs[s]
      /\ \A e \in Dirs \ {d} : Send(e) \in reqs'[s] <=> Send(e) \in reqs[s]
      /\ Send(d) \notin reqs'[s]
  BY RequestFacts
<1>4. \A e \in Dirs : Holds(s, e)' <=> Holds(s, e)
  BY <1>3 DEF Holds, Waits
<1>5. ReqInv(s)'
  BY <1>1, <1>3 DEF StageInv, ReqInv, Waits
<1>6. ValueInv(s)'
  BY <1>1, <1>2, <1>3, <1>4, RequestFacts DEF StageInv, ValueInv, Waits
<1>7. Produced(s, d) \in Nat
  BY <1>1, CountType
<1>8. tensor_send[s][d] = Produced(s, d)
  BY <1>1 DEF StageInv, ValueInv
<1>9. Sent(s, d) = Produced(s, d) - 1 /\ Sent(s, d)' = Produced(s, d)
  BY <1>2, <1>3 DEF Sent
<1>10. \A e \in Dirs \ {d} : Sent(s, e)' = Sent(s, e)
  BY <1>2, <1>3 DEF Sent
<1>11. \A e \in Dirs : Received(s, e)' = Received(s, e)
  BY <1>2, <1>4, RequestFacts DEF Received
<1> QED BY <1>2, <1>5, <1>6, <1>7, <1>8, <1>9, <1>10, <1>11 DEF StageInv

\* A stage keeps its invariant when its receive completes with the tensor
\* it waits for.
LEMMA RecvDone ==
  ASSUME IInv, NEW s \in Stages, NEW d \in Dirs, Recv(d) \in reqs[s],
         args' = args, Waits(s),
         tensor_recv'[s][d] = Received(s, d) + 1,
         \A e \in Dirs \ {d} : tensor_recv'[s][e] = tensor_recv[s][e],
         reqs'[s] = reqs[s] \ {Recv(d)}
  PROVE  /\ StageInv(s)'
         /\ Received(s, d)' = Received(s, d) + 1
         /\ \A e \in Dirs \ {d} : Received(s, e)' = Received(s, e)
         /\ \A e \in Dirs : Sent(s, e)' = Sent(s, e)
<1>1. TypeOK /\ StageInv(s)
  BY DEF IInv
<1>2. /\ CountInv(s)' /\ OrderInv(s)' /\ SavedInv(s)' /\ SyncInv(s)'
      /\ \A e \in Dirs : Produced(s, e)' = Produced(s, e)
  BY <1>1, WaitsFrame
<1>3. /\ \A e \in Dirs : Send(e) \in reqs'[s] <=> Send(e) \in reqs[s]
      /\ \A e \in Dirs \ {d} : Recv(e) \in reqs'[s] <=> Recv(e) \in reqs[s]
      /\ Recv(d) \notin reqs'[s]
  BY RequestFacts
<1>4. pc[s] \in Awaits(d) /\ pc'[s] = pc[s]
  BY <1>1 DEF StageInv, ReqInv, Waits
<1>5. /\ ~Holds(s, d) /\ Holds(s, d)'
      /\ \A e \in Dirs \ {d} : Holds(s, e)' <=> Holds(s, e)
  BY <1>3, <1>4 DEF Holds
<1>6. ReqInv(s)'
  BY <1>1, <1>3, <1>4 DEF StageInv, ReqInv
<1>7. Received(s, d) = Produced(s, Opposite(d))
  BY <1>5 DEF Received
<1>8. ValueInv(s)'
  <2>1. \A e \in Dirs : Send(e) \in reqs'[s] => tensor_send'[s][e] = Produced(s, e)'
    BY <1>1, <1>2, <1>3 DEF StageInv, ValueInv, Waits
  <2>2. \A e \in Dirs : HasPeer(s, e) /\ Holds(s, e)' =>
          tensor_recv'[s][e] = Produced(s, Opposite(e))' + 1
    <3>1. SUFFICES ASSUME NEW e \in Dirs, HasPeer(s, e), Holds(s, e)'
                   PROVE  tensor_recv'[s][e] = Produced(s, Opposite(e)) + 1
      BY <1>2, RequestFacts
    <3>2. CASE e = d
      BY <1>7, <3>2
    <3>3. CASE e # d
      BY <1>1, <1>5, <3>1, <3>3 DEF StageInv, ValueInv
    <3> QED BY <3>2, <3>3
  <2>3. pc[s] \in {"steady_backward", "cooldown_backward"} =>
          tensor_recv'[s]["prev"] = tensor_recv[s]["prev"]
    BY <1>4, RequestFacts DEF Awaits
  <2> QED BY <1>1, <1>4, <2>1, <2>2, <2>3 DEF StageInv, ValueInv, Waits
<1>9. Produced(s, Opposite(d)) \in Nat
  BY <1>1, CountType, RequestFacts
<1>10. Received(s, d)' = Received(s, d) + 1
  BY <1>2, <1>5, <1>7, RequestFacts DEF Received
<1>11. \A e \in Dirs \ {d} : Received(s, e)' = Received(s, e)
  BY <1>2, <1>5, RequestFacts DEF Received
<1>12. \A e \in Dirs : Sent(s, e)' = Sent(s, e)
  BY <1>2, <1>3 DEF Sent
<1> QED BY <1>2, <1>6, <1>8, <1>10, <1>11, <1>12 DEF StageInv

\* Buffering a send preserves IInv.
LEMMA BufferStep ==
  ASSUME IInv, NEW s \in Stages, NEW d \in Dirs, HasPeer(s, d), Buffer(s, d)
  PROVE  IInv'
<1> DEFINE q == Append(chan[s][d], tensor_send[s][d])
           got == Received(Peer(s, d), Opposite(d))
<1>1. /\ TypeOK /\ \A t \in Stages : StageInv(t)
      /\ chan[s][d] \in Seq(Nat) /\ tensor_send[s][d] \in Nat
      /\ Send(d) \in reqs[s]
  BY DEF IInv, TypeOK, Buffer, Ready
<1>2. /\ args' = args /\ pc' = pc /\ tensor_send' = tensor_send
      /\ tensor_recv' = tensor_recv /\ UNCHANGED local
      /\ reqs' = [reqs EXCEPT ![s] = @ \ {Send(d)}]
      /\ chan' = [chan EXCEPT ![s][d] = q]
  BY DEF Buffer, Complete
<1>3. q \in Seq(Nat)
  BY <1>1
<1>4. OthersSame(s) /\ Waits(s) /\ reqs'[s] = reqs[s] \ {Send(d)}
  BY <1>1, <1>2 DEF TypeOK, OthersSame, Same, Waits, local
<1>5. /\ StageInv(s)'
      /\ tensor_send[s][d] = Sent(s, d) + 1
      /\ Sent(s, d)' = Sent(s, d) + 1
      /\ \A e \in Dirs \ {d} : Sent(s, e)' = Sent(s, e)
      /\ \A e \in Dirs : Received(s, e)' = Received(s, e)
  BY <1>1, <1>2, <1>4, SendDone
<1>6. \A t \in Stages \ {s} : StageInv(t)' /\ KeepsCounts(t)
  BY <1>1, <1>2, <1>4, Frame DEF OthersSame
<1>7. /\ Peer(s, d) \in Stages \ {s} /\ HasPeer(Peer(s, d), Opposite(d))
      /\ Opposite(d) \in Dirs
  BY PeerFacts, RequestFacts
<1>8. /\ got \in Nat /\ got' = got /\ Sent(s, d) \in Int
      /\ Len(chan[s][d]) = Sent(s, d) - got /\ IsRun(chan[s][d], got)
  BY <1>1, <1>6, <1>7, CountType DEF IInv, LinkInv, KeepsCounts
<1> HIDE DEF got
<1>9. LinkInv(s, d)'
  <2>1. tensor_send[s][d] = got + Len(chan[s][d]) + 1
    BY <1>1, <1>5, <1>8
  <2>2. Len(q) = Len(chan[s][d]) + 1 /\ IsRun(q, got)
    BY <1>1, <1>8, <2>1, RunAppend
  <2>3. chan'[s][d] = q
    BY <1>1, <1>2 DEF TypeOK
  <2> QED BY <1>1, <1>5, <1>8, <2>2, <2>3 DEF LinkInv, IsRun, got
<1> HIDE DEF q
<1>10. ASSUME NEW t \in Stages, NEW e \in Dirs, HasPeer(t, e), <<t, e>> # <<s, d>>
       PROVE  LinkInv(t, e)'
  <2>1. chan'[t][e] = chan[t][e]
    BY <1>1, <1>2, <1>10 DEF TypeOK
  <2>2. Sent(t, e)' = Sent(t, e)
    BY <1>5, <1>6, <1>10 DEF KeepsCounts
  <2>3. /\ Peer(t, e) \in Stages /\ Opposite(e) \in Dirs
        /\ HasPeer(Peer(t, e), Opposite(e))
    BY <1>10, PeerFacts, RequestFacts
  <2>4. Received(Peer(t, e), Opposite(e))' = Received(Peer(t, e), Opposite(e))
    BY <1>5, <1>6, <2>3 DEF KeepsCounts
  <2> QED BY <1>10, <2>1, <2>2, <2>4, LinkSame
<1>11. TypeOK'
  <2>1. chan' \in [Stages -> [Dirs -> Seq(Nat)]]
    BY <1>1, <1>2, <1>3 DEF TypeOK
  <2>2. /\ reqs' \in [Stages -> SUBSET Requests]
        /\ \A t \in Stages : \A o \in reqs'[t] : HasPeer(t, o[2])
    BY <1>1, <1>2 DEF TypeOK
  <2> QED BY <1>1, <1>2, <2>1, <2>2 DEF TypeOK, local
<1> QED BY <1>5, <1>6, <1>9, <1>10, <1>11 DEF IInv

\* Taking the oldest tensor of a link preserves IInv.
LEMMA ReceiveStep ==
  ASSUME IInv, NEW s \in Stages, NEW d \in Dirs, HasPeer(s, d), Receive(s, d)
  PROVE  IInv'
<1> DEFINE from == Peer(s, d)
           q == chan[from][Opposite(d)]
           got == Received(s, d)
<1>1. /\ TypeOK /\ \A t \in Stages : StageInv(t)
      /\ Recv(d) \in reqs[s] /\ Len(q) > 0
      /\ from \in Stages \ {s} /\ Opposite(d) \in Dirs
      /\ HasPeer(from, Opposite(d)) /\ Peer(from, Opposite(d)) = s
      /\ Opposite(Opposite(d)) = d
      /\ q \in Seq(Nat)
  <2>1. /\ from \in Stages \ {s} /\ Opposite(d) \in Dirs
        /\ HasPeer(from, Opposite(d)) /\ Peer(from, Opposite(d)) = s
        /\ Opposite(Opposite(d)) = d
    BY PeerFacts, RequestFacts
  <2>2. TypeOK /\ (\A t \in Stages : StageInv(t)) /\ q \in Seq(Nat)
    <3>1. TypeOK /\ (\A t \in Stages : StageInv(t))
      BY DEF IInv
    <3>2. chan \in [Stages -> [Dirs -> Seq(Nat)]]
      BY <3>1 DEF TypeOK
    <3> QED BY <2>1, <3>1, <3>2
  <2>3. q # <<>> /\ Recv(d) \in reqs[s]
    BY DEF Receive, Ready
  <2>4. Len(q) > 0
    BY <2>2, <2>3
  <2> QED BY <2>1, <2>2, <2>3, <2>4
<1>2. /\ got \in Nat /\ Sent(from, Opposite(d)) \in Int
      /\ Len(q) = Sent(from, Opposite(d)) - got /\ IsRun(q, got)
  BY <1>1, CountType DEF IInv, LinkInv
<1>3. /\ Head(q) = got + 1 /\ Tail(q) \in Seq(Nat) /\ Len(Tail(q)) = Len(q) - 1
      /\ IsRun(Tail(q), got + 1)
  BY <1>1, <1>2, RunTail
<1>4. /\ args' = args /\ pc' = pc /\ tensor_send' = tensor_send /\ UNCHANGED local
      /\ reqs' = [reqs EXCEPT ![s] = @ \ {Recv(d)}]
      /\ tensor_recv' = [tensor_recv EXCEPT ![s][d] = got + 1]
      /\ chan' = [chan EXCEPT ![from][Opposite(d)] = Tail(q)]
  BY <1>3 DEF Receive, Complete
<1>5. /\ OthersSame(s) /\ Waits(s) /\ reqs'[s] = reqs[s] \ {Recv(d)}
      /\ tensor_recv'[s][d] = got + 1
      /\ \A e \in Dirs \ {d} : tensor_recv'[s][e] = tensor_recv[s][e]
  BY <1>1, <1>4 DEF TypeOK, OthersSame, Same, Waits, local
<1>6. /\ StageInv(s)'
      /\ Received(s, d)' = got + 1
      /\ \A e \in Dirs \ {d} : Received(s, e)' = Received(s, e)
      /\ \A e \in Dirs : Sent(s, e)' = Sent(s, e)
  BY <1>1, <1>4, <1>5, RecvDone
<1>7. \A t \in Stages \ {s} : StageInv(t)' /\ KeepsCounts(t)
  BY <1>1, <1>4, <1>5, Frame DEF OthersSame
<1>8. LinkInv(from, Opposite(d))'
  <2>1. chan'[from][Opposite(d)] = Tail(q)
    BY <1>1, <1>4 DEF TypeOK
  <2>2. Sent(from, Opposite(d))' = Sent(from, Opposite(d))
    BY <1>1, <1>7 DEF KeepsCounts
  <2> HIDE DEF q, got, from
  <2>3. Len(Tail(q)) = Sent(from, Opposite(d)) - (got + 1)
    BY <1>1, <1>2, <1>3
  <2> QED BY <1>1, <1>3, <1>6, <2>1, <2>2, <2>3 DEF LinkInv, IsRun
<1> HIDE DEF q, got
<1>9. ASSUME NEW t \in Stages, NEW e \in Dirs, HasPeer(t, e),
             <<t, e>> # <<from, Opposite(d)>>
      PROVE  LinkInv(t, e)'
  <2>1. chan'[t][e] = chan[t][e]
    BY <1>1, <1>4, <1>9 DEF TypeOK
  <2>2. Sent(t, e)' = Sent(t, e)
    BY <1>6, <1>7, <1>9 DEF KeepsCounts
  <2>3. /\ Peer(t, e) \in Stages /\ Opposite(e) \in Dirs
        /\ HasPeer(Peer(t, e), Opposite(e))
        /\ Peer(Peer(t, e), Opposite(e)) = t /\ Opposite(Opposite(e)) = e
    BY <1>9, PeerFacts, RequestFacts
  <2>4. <<Peer(t, e), Opposite(e)>> # <<s, d>>
    BY <1>9, <2>3
  <2>5. Received(Peer(t, e), Opposite(e))' = Received(Peer(t, e), Opposite(e))
    BY <1>6, <1>7, <2>3, <2>4 DEF KeepsCounts
  <2> QED BY <1>9, <2>1, <2>2, <2>5, LinkSame
<1>10. TypeOK'
  <2>1. chan' \in [Stages -> [Dirs -> Seq(Nat)]]
    BY <1>1, <1>3, <1>4 DEF TypeOK
  <2>2. /\ reqs' \in [Stages -> SUBSET Requests]
        /\ \A t \in Stages : \A o \in reqs'[t] : HasPeer(t, o[2])
    BY <1>1, <1>4 DEF TypeOK
  <2>3. tensor_recv' \in [Stages -> [Dirs -> Nat]]
    <3>1. tensor_recv \in [Stages -> [Dirs -> Nat]] /\ got + 1 \in Nat
      BY <1>1, <1>2 DEF TypeOK
    <3>2. tensor_recv' = [tensor_recv EXCEPT ![s][d] = got + 1]
      BY <1>4
    <3> QED BY <3>1, <3>2
  <2> QED BY <1>1, <1>4, <2>1, <2>2, <2>3 DEF TypeOK, local
<1> QED BY <1>6, <1>7, <1>8, <1>9, <1>10 DEF IInv

\* Handing a tensor over directly preserves IInv.
LEMMA HandoverStep ==
  ASSUME IInv, NEW s \in Stages, NEW d \in Dirs, HasPeer(s, d), Handover(s, d)
  PROVE  IInv'
<1> DEFINE to == Peer(s, d)
           got == Received(to, Opposite(d))
<1>1. /\ TypeOK /\ \A t \in Stages : StageInv(t)
      /\ to \in Stages \ {s} /\ Opposite(d) \in Dirs
      /\ HasPeer(to, Opposite(d)) /\ Peer(to, Opposite(d)) = s
      /\ Opposite(Opposite(d)) = d
      /\ Send(d) \in reqs[s] /\ Recv(Opposite(d)) \in reqs[to]
      /\ chan[s][d] = <<>>
  BY PeerFacts, RequestFacts DEF IInv, Handover, Ready
<1>2. /\ got \in Nat /\ Sent(s, d) \in Int /\ Sent(s, d) = got
  <2>1. Len(chan[s][d]) = Sent(s, d) - got
    BY DEF IInv, LinkInv
  <2> QED BY <1>1, <2>1, CountType
<1>3. tensor_send[s][d] = Sent(s, d) + 1
  <2>1. Produced(s, d) \in Nat /\ Sent(s, d) = Produced(s, d) - 1
    BY <1>1, CountType DEF Sent
  <2>2. tensor_send[s][d] = Produced(s, d)
    BY <1>1 DEF StageInv, ValueInv
  <2> QED BY <2>1, <2>2
<1>4. /\ args' = args /\ pc' = pc /\ tensor_send' = tensor_send /\ UNCHANGED local
      /\ chan' = chan
      /\ reqs' = [reqs EXCEPT ![s] = @ \ {Send(d)}, ![to] = @ \ {Recv(Opposite(d))}]
      /\ tensor_recv' = [tensor_recv EXCEPT ![to][Opposite(d)] = got + 1]
  BY <1>2, <1>3 DEF Handover
<1>5. /\ \A t \in Stages : Waits(t)
      /\ \A t \in Stages \ {s, to} : Same(t)
      /\ reqs'[s] = reqs[s] \ {Send(d)} /\ tensor_recv'[s] = tensor_recv[s]
      /\ reqs'[to] = reqs[to] \ {Recv(Opposite(d))}
      /\ tensor_recv'[to][Opposite(d)] = got + 1
      /\ \A e \in Dirs \ {Opposite(d)} : tensor_recv'[to][e] = tensor_recv[to][e]
  BY <1>1, <1>4 DEF TypeOK, Same, Waits, local
<1>6. /\ StageInv(s)' /\ Sent(s, d)' = Sent(s, d) + 1
      /\ \A e \in Dirs \ {d} : Sent(s, e)' = Sent(s, e)
      /\ \A e \in Dirs : Received(s, e)' = Received(s, e)
  BY <1>1, <1>4, <1>5, SendDone
<1>7. /\ StageInv(to)' /\ Received(to, Opposite(d))' = got + 1
      /\ \A e \in Dirs \ {Opposite(d)} : Received(to, e)' = Received(to, e)
      /\ \A e \in Dirs : Sent(to, e)' = Sent(to, e)
  BY <1>1, <1>4, <1>5, RecvDone
<1>8. \A t \in Stages \ {s, to} : StageInv(t)' /\ KeepsCounts(t)
  BY <1>1, <1>4, <1>5, Frame
<1> HIDE DEF got
<1>9. LinkInv(s, d)'
  <2>1. Len(chan'[s][d]) = 0
    BY <1>1, <1>4
  <2> QED BY <1>2, <1>6, <1>7, <2>1 DEF LinkInv, IsRun
<1>10. ASSUME NEW t \in Stages, NEW e \in Dirs, HasPeer(t, e), <<t, e>> # <<s, d>>
       PROVE  LinkInv(t, e)'
  <2>1. /\ Peer(t, e) \in Stages /\ Opposite(e) \in Dirs
        /\ HasPeer(Peer(t, e), Opposite(e))
        /\ Peer(Peer(t, e), Opposite(e)) = t /\ Opposite(Opposite(e)) = e
    BY <1>10, PeerFacts, RequestFacts
  <2>2. <<Peer(t, e), Opposite(e)>> # <<to, Opposite(d)>>
    BY <1>1, <1>10, <2>1
  <2>3. Sent(t, e)' = Sent(t, e)
    <3>1. CASE t = s
      BY <1>6, <1>10, <3>1
    <3>2. CASE t = to
      BY <1>7, <3>2
    <3>3. CASE t \notin {s, to}
      BY <1>8, <1>10, <3>3 DEF KeepsCounts
    <3> QED BY <3>1, <3>2, <3>3
  <2>4. Received(Peer(t, e), Opposite(e))' = Received(Peer(t, e), Opposite(e))
    <3>1. CASE Peer(t, e) = s
      BY <1>6, <2>1, <3>1
    <3>2. CASE Peer(t, e) = to
      BY <1>7, <2>1, <2>2, <3>2
    <3>3. CASE Peer(t, e) \notin {s, to}
      BY <1>8, <2>1, <3>3 DEF KeepsCounts
    <3> QED BY <3>1, <3>2, <3>3
  <2> QED BY <1>4, <1>10, <2>3, <2>4, LinkSame
<1>11. TypeOK'
  <2>1. /\ reqs' \in [Stages -> SUBSET Requests]
        /\ \A t \in Stages : \A o \in reqs'[t] : HasPeer(t, o[2])
    BY <1>1, <1>4 DEF TypeOK
  <2>2. tensor_recv' \in [Stages -> [Dirs -> Nat]]
    <3>1. tensor_recv \in [Stages -> [Dirs -> Nat]] /\ got + 1 \in Nat
      BY <1>1, <1>2 DEF TypeOK
    <3>2. tensor_recv' = [tensor_recv EXCEPT ![to][Opposite(d)] = got + 1]
      BY <1>4
    <3>3. to \in Stages /\ Opposite(d) \in Dirs
      BY <1>1
    <3> QED BY <3>1, <3>2, <3>3
  <2> QED BY <1>1, <1>4, <2>1, <2>2 DEF TypeOK, local
<1> QED BY <1>6, <1>7, <1>8, <1>9, <1>10, <1>11 DEF IInv

-----------------------------------------------------------------------------
(***************************************************************************)
(* The theorems.                                                           *)
(***************************************************************************)

\* IInv holds when the call starts.
LEMMA InitInv == Init => IInv
<1> SUFFICES ASSUME Init PROVE IInv
  OBVIOUS
<1>1. TypeOK
  <2>1. \A s \in Stages : \A d \in Dirs : <<>> \in Seq(Nat)
    OBVIOUS
  <2> QED BY <2>1 DEF Init, TypeOK, Labels, None
<1>2. ASSUME NEW s \in Stages
      PROVE  /\ pc[s] = "warmup" /\ reqs[s] = {} /\ ~grad_sync[s]
             /\ fwd[s] = <<>> /\ main_grad[s] = <<>> /\ reductions[s] = <<>>
             /\ input_tensors[s] = <<>> /\ output_tensors[s] = <<>>
             /\ \A d \in Dirs : chan[s][d] = <<>>
  BY DEF Init
<1>3. ASSUME NEW s \in Stages
      PROVE  \A d \in Dirs : ~Holds(s, d) /\ Produced(s, d) = 0 /\ Sent(s, d) = 0
  BY <1>2 DEF Holds, Awaits, Produced, Sent
<1>4. ASSUME NEW s \in Stages
      PROVE  StageInv(s)
  <2>1. M \in Nat /\ NumWarmup(s) \in 0 .. M
    BY CallType DEF Init
  <2>2. CountInv(s)
    BY <1>2, <2>1 DEF CountInv
  <2>3. OrderInv(s) /\ SavedInv(s)
    <3>1. IsRun(<<>>, 0) /\ Len(<<>>) = 0
      BY DEF IsRun
    <3>2. SavedFrom(s) = 0 /\ SavedTo(s) = 0
      BY <1>2, <3>1 DEF SavedFrom, SavedTo
    <3> QED BY <1>2, <3>1, <3>2 DEF OrderInv, SavedInv
  <2>4. ReqInv(s) /\ ValueInv(s) /\ SyncInv(s)
    BY <1>2, <1>3 DEF ReqInv, ValueInv, SyncInv
  <2> QED BY <2>2, <2>3, <2>4 DEF StageInv
<1>5. ASSUME NEW s \in Stages, NEW d \in Dirs, HasPeer(s, d)
      PROVE  LinkInv(s, d)
  <2>1. /\ Peer(s, d) \in Stages /\ Opposite(d) \in Dirs
        /\ Opposite(Opposite(d)) \in Dirs
    BY <1>5, PeerFacts, RequestFacts
  <2>2. Received(Peer(s, d), Opposite(d)) = 0 /\ Sent(s, d) = 0
    BY <1>3, <2>1 DEF Received
  <2> QED BY <1>2, <2>2 DEF LinkInv, IsRun
<1> QED BY <1>1, <1>4, <1>5 DEF IInv

\* A stuttering step preserves IInv.
LEMMA StutterInv ==
  ASSUME IInv, UNCHANGED vars
  PROVE  IInv'
<1>1. TypeOK' /\ args' = args /\ (\A t \in Stages : Same(t)) /\ chan' = chan
  <2>1. /\ args' = args /\ pc' = pc /\ reqs' = reqs /\ chan' = chan
        /\ tensor_send' = tensor_send /\ tensor_recv' = tensor_recv
        /\ input_tensors' = input_tensors /\ output_tensors' = output_tensors
        /\ fwd' = fwd /\ main_grad' = main_grad
        /\ grad_sync' = grad_sync /\ reductions' = reductions
    BY DEF vars, local
  <2>2. TypeOK'
    BY <2>1 DEF IInv, TypeOK
  <2> QED BY <2>1, <2>2 DEF Same
<1>2. PICK s : s \in Stages
  BY PAssumption DEF Stages
<1>3. StageInv(s)' /\ KeepsCounts(s)
  BY <1>1, <1>2, Frame DEF IInv
<1> QED BY <1>1, <1>2, <1>3, LocalStep DEF OthersSame

\* Every step preserves IInv, one lemma for each action.
LEMMA NextInv == IInv /\ [Next]_vars => IInv'
<1> SUFFICES ASSUME IInv, [Next]_vars PROVE IInv'
  OBVIOUS
<1>1. ASSUME NEW s \in Stages, NEW d \in Dirs, HasPeer(s, d),
             Buffer(s, d) \/ Receive(s, d) \/ Handover(s, d)
      PROVE  IInv'
  BY <1>1, BufferStep, ReceiveStep, HandoverStep
<1>2. ASSUME NEW s \in Stages, Step(s)
      PROVE  IInv'
  BY <1>2, WarmupRecvStep, WarmupForwardStep, EndWarmupStep, SteadyForwardStep,
     SteadyRecvStep, SteadyBackwardStep, CooldownRecvStep, CooldownBackwardStep,
     FinishStep DEF Step
<1>3. CASE UNCHANGED vars
  BY <1>3, StutterInv
<1> QED BY <1>1, <1>2, <1>3 DEF Next, Transfer, Returned

\* IInv holds in every reachable state of every call: what the schedule is
\* built on, and what the theorems below are read off from.
THEOREM Inductive == Spec => []IInv
<1> QED BY InitInv, NextInv, PTL DEF Spec

\* The variables of every call keep their types, on every number of
\* stages; no stage waits for one that does not exist.
THEOREM TypeCorrect == Spec => []TypeOK
<1>1. IInv => TypeOK
  BY DEF IInv
<1> QED BY <1>1, Inductive, PTL

\* The k-th forward pass of a stage is always the k-th microbatch, and so
\* is the k-th backward pass, which pairs its output and its gradient.
THEOREM PassesAlwaysInOrder == Spec => []PassesInOrder
<1>1. IInv => PassesInOrder
  <2> SUFFICES ASSUME IInv, NEW s \in Stages
               PROVE  /\ \A k \in 1 .. Len(fwd[s]) : fwd[s][k] = k
                      /\ \A k \in 1 .. Len(main_grad[s]) : main_grad[s][k] = k
    BY DEF PassesInOrder
  <2>1. IsRun(fwd[s], 0) /\ IsRun(main_grad[s], 0)
    BY DEF IInv, StageInv, OrderInv
  <2>2. ASSUME NEW k \in 1 .. Len(fwd[s])
        PROVE  fwd[s][k] = k
    <3>1. fwd[s][k] = 0 + k /\ k \in Int
      BY <2>1 DEF IsRun
    <3> QED BY <3>1
  <2>3. ASSUME NEW k \in 1 .. Len(main_grad[s])
        PROVE  main_grad[s][k] = k
    <3>1. main_grad[s][k] = 0 + k /\ k \in Int
      BY <2>1 DEF IsRun
    <3> QED BY <3>1
  <2> QED BY <2>2, <2>3
<1> QED BY <1>1, Inductive, PTL

\* Gradients are reduced once, after the last backward pass, on every
\* stage but a last stage without grad_sync_func.
THEOREM ReducedOnceAtTheEnd == Spec => []GradsReduced
<1>1. IInv => GradsReduced
  BY DEF IInv, StageInv, SyncInv, GradsReduced, ReducedOnce
<1> QED BY <1>1, Inductive, PTL

-----------------------------------------------------------------------------
(***************************************************************************)
(* The window of partial activation checkpoints.                           *)
(***************************************************************************)

\* At most n numbers of a window no longer than m have a remainder below n.
LEMMA WindowResidues ==
  ASSUME NEW m \in Nat \ {0}, NEW n \in Nat, NEW b \in Nat, NEW f \in Nat,
         f - b <= m
  PROVE  LET S == {k \in b + 1 .. f : ~((k - 1) % m >= n)}
         IN IsFiniteSet(S) /\ Cardinality(S) <= n
<1> DEFINE S == {k \in b + 1 .. f : ~((k - 1) % m >= n)}
           T == 0 .. n - 1
           h == [k \in S |-> (k - 1) % m]
<1>1. IsFiniteSet(S) /\ Cardinality(S) \in Nat
  <2>1. IsFiniteSet(b + 1 .. f) /\ S \in SUBSET (b + 1 .. f)
    BY FS_Interval
  <2>2. IsFiniteSet(S)
    BY <2>1, FS_Subset
  <2> QED BY <2>2, FS_CardinalityType
<1>2. IsFiniteSet(T) /\ Cardinality(T) = n
  BY FS_Interval
<1>3. h \in [S -> T]
  OBVIOUS
<1>4. \A x, y \in S : h[x] = h[y] => x = y
  <2> SUFFICES ASSUME NEW x \in S, NEW y \in S, (x - 1) % m = (y - 1) % m
               PROVE  x = y
    OBVIOUS
  <2> DEFINE i == x - 1
             j == y - 1
  <2>1. i \in Nat /\ j \in Nat /\ i - j < m /\ j - i < m /\ i % m = j % m
    OBVIOUS
  <2>2. i = j
    <3> HIDE DEF i, j
    <3> QED BY <2>1, Residue
  <2> QED BY <2>1, <2>2
<1> HIDE DEF S, T, h
<1>5. ~(n < Cardinality(S))
  BY <1>1, <1>2, <1>3, <1>4, FS_PigeonHole
<1> QED BY <1>1, <1>5 DEF S

\* A stage never keeps the activations of more than num_warmup_microbatches
\* + 1 microbatches, and at most
\* num_microbatches_with_partial_activation_checkpoints of them are fully
\* stored.
THEOREM CheckpointWindow == Spec => []PartialCheckpointWindow
<1>1. IInv => PartialCheckpointWindow
  <2> SUFFICES ASSUME IInv, NEW s \in Stages, NEW n \in 0 .. P
               PROVE  Cardinality({k \in Outstanding(s) : ~CheckpointAll(s, k, n)}) <= n
    BY DEF PartialCheckpointWindow
  <2> DEFINE m == MaxOutstanding(s)
             b == Len(main_grad[s])
             f == Len(fwd[s])
  <2>1. /\ M \in Nat /\ NumWarmup(s) \in 0 .. M /\ m = NumWarmup(s) + 1
        /\ args.forward_only \in BOOLEAN /\ n \in Nat
    BY CallType, PAssumption DEF IInv, TypeOK, MaxOutstanding
  <2>2. b \in Nat /\ f \in Nat
    BY DEF IInv, TypeOK
  <2>3. CASE args.forward_only
    <3>1. {k \in Outstanding(s) : ~CheckpointAll(s, k, n)} = {}
      BY <2>3 DEF Outstanding
    <3> QED BY <2>1, <3>1, FS_EmptySet
  <2>4. CASE ~args.forward_only
    <3>1. f - b <= m
      <4>1. pc[s] \in Labels /\ CountInv(s)
        BY DEF IInv, TypeOK, StageInv
      <4> DEFINE W == NumWarmup(s)
      <4>2. CASE pc[s] \in {"warmup", "warmup_forward"}
        <5>1. f <= W /\ b = 0
          BY <2>1, <2>2, <4>1, <4>2 DEF CountInv
        <5> QED BY <2>1, <2>2, <5>1
      <4>3. CASE pc[s] \in {"steady_forward", "steady_backward", "steady_recv"}
        <5>1. b = f - W \/ b = f - W - 1
          BY <2>1, <2>2, <2>4, <4>1, <4>3 DEF CountInv
        <5>2. W \in Nat /\ m = W + 1
          BY <2>1
        <5> HIDE DEF W, m, b, f
        <5> QED BY <2>2, <5>1, <5>2
      <4>4. CASE pc[s] \in {"cooldown", "cooldown_backward", "done"}
        <5>1. f = M /\ (M - W <= b \/ b = M)
          BY <2>1, <2>2, <2>4, <4>1, <4>4 DEF CountInv
        <5> QED BY <2>1, <2>2, <5>1
      <4> QED BY <4>1, <4>2, <4>3, <4>4 DEF Labels
    <3>2. m \in Nat \ {0}
      BY <2>1
    <3> HIDE DEF m, b, f
    <3>3. Cardinality({k \in b + 1 .. f : ~((k - 1) % m >= n)}) <= n
      BY <2>1, <2>2, <3>1, <3>2, WindowResidues
    <3> QED BY <2>4, <3>3 DEF Outstanding, CheckpointAll, m, b, f
  <2> QED BY <2>1, <2>3, <2>4
<1> QED BY <1>1, Inductive, PTL

-----------------------------------------------------------------------------
(***************************************************************************)
(* The schedule implements the abstract flush.                             *)
(***************************************************************************)

ForwardSet(s) == {fwd[s][k] : k \in 1 .. Len(fwd[s])}
BackwardSet(s) == {main_grad[s][k] : k \in 1 .. Len(main_grad[s])}
FlushFwd == [s \in Stages |-> ForwardSet(s)]
FlushBwd == [s \in Stages |-> BackwardSet(s)]

\* Under IInv the abstract sets of passes are intervals from 1.
LEMMA FlushSets ==
  ASSUME IInv, NEW s \in Stages
  PROVE  /\ ForwardSet(s) = 1 .. Len(fwd[s]) /\ Len(fwd[s]) \in Nat
         /\ BackwardSet(s) = 1 .. Len(main_grad[s]) /\ Len(main_grad[s]) \in Nat
<1>1. /\ fwd[s] \in Seq(Nat) /\ main_grad[s] \in Seq(Nat)
      /\ IsRun(fwd[s], 0) /\ IsRun(main_grad[s], 0)
  BY DEF IInv, TypeOK, StageInv, OrderInv
<1>2. ForwardSet(s) = 1 .. Len(fwd[s]) /\ Len(fwd[s]) \in Nat
  BY <1>1, RunSet DEF ForwardSet
<1>3. BackwardSet(s) = 1 .. Len(main_grad[s]) /\ Len(main_grad[s]) \in Nat
  <2> DEFINE q == main_grad[s]
  <2>1. {q[k] : k \in 1 .. Len(q)} = 1 .. Len(q) /\ Len(q) \in Nat
    <3>1. q \in Seq(Nat) /\ IsRun(q, 0)
      BY <1>1
    <3> HIDE DEF q
    <3> QED BY <3>1, RunSet
  <2> QED BY <2>1 DEF BackwardSet
<1> QED BY <1>2, <1>3

\* What a stage has from a neighbour, the neighbour has produced.
LEMMA PeerAhead ==
  ASSUME IInv, NEW s \in Stages, NEW d \in Dirs, HasPeer(s, d), Holds(s, d)
  PROVE  Produced(s, Opposite(d)) + 1 <= Produced(Peer(s, d), Opposite(d))
<1> DEFINE t == Peer(s, d)
           e == Opposite(d)
<1>1. /\ t \in Stages /\ e \in Dirs /\ HasPeer(t, e) /\ Peer(t, e) = s
      /\ Opposite(e) = d
  BY PeerFacts, RequestFacts
<1>2. Received(s, d) = Produced(s, e) + 1
  BY DEF Received
<1>3. Len(chan[t][e]) = Sent(t, e) - (Produced(s, e) + 1) /\ Len(chan[t][e]) \in Nat
  BY <1>1, <1>2 DEF IInv, TypeOK, LinkInv
<1>4. /\ Produced(t, e) \in Nat /\ Produced(s, e) \in Nat
      /\ Sent(t, e) = Produced(t, e) \/ Sent(t, e) = Produced(t, e) - 1
  BY <1>1, CountType DEF IInv
<1> HIDE DEF t, e
<1> QED BY <1>3, <1>4 DEF t, e

\* The Cardinality of the instance is that of FiniteSets.
LEMMA FlushCardinality == \A S : Flush!Cardinality(S) = Cardinality(S)
BY DEF Flush!Cardinality, Cardinality

\* A forward pass implements Forward of the abstract flush.
LEMMA ForwardFlush ==
  ASSUME IInv, NEW s \in Stages, NEW l \in Awaits("prev"), At(s, l), ForwardStep(s),
         args' = args, main_grad' = main_grad,
         Len(fwd[s]) < M,
         ~args.forward_only => Len(fwd[s]) - Len(main_grad[s]) < P - s
  PROVE  Flush!Next
<1> DEFINE f == Len(fwd[s])
           b == Len(main_grad[s])
<1>1. /\ f \in Nat /\ b \in Nat /\ s \in Nat /\ M \in Nat /\ P \in Nat
      /\ ForwardSet(s) = 1 .. f /\ BackwardSet(s) = 1 .. b
  BY FlushSets, CallType, PAssumption DEF IInv, TypeOK
<1>2. /\ fwd' \in [Stages -> Seq(Nat)]
      /\ \A t \in Stages \ {s} : fwd'[t] = fwd[t]
      /\ Len(fwd'[s]) = f + 1 /\ IsRun(fwd'[s], 0)
  BY ForwardRun
<1>3. ForwardSet(s)' = ForwardSet(s) \cup {f + 1}
  <2>1. ForwardSet(s)' = 1 .. f + 1
    BY <1>2, RunSet DEF ForwardSet
  <2> QED BY <1>1, <2>1
<1>4. /\ FlushFwd' = [FlushFwd EXCEPT ![s] = @ \cup {f + 1}]
      /\ FlushBwd' = FlushBwd
  <2>1. \A t \in Stages \ {s} : ForwardSet(t)' = ForwardSet(t)
    BY <1>2 DEF ForwardSet
  <2>2. \A t \in Stages : BackwardSet(t)' = BackwardSet(t)
    BY DEF BackwardSet
  <2> QED BY <1>3, <2>1, <2>2 DEF FlushFwd, FlushBwd
<1>5. s > 0 => f + 1 \in FlushFwd[s-1]
  <2> SUFFICES ASSUME s > 0 PROVE f + 1 \in FlushFwd[s-1]
    OBVIOUS
  <2>1. /\ HasPeer(s, "prev") /\ Holds(s, "prev") /\ Peer(s, "prev") = s - 1
        /\ s - 1 \in Stages
    BY PeerFacts, RequestFacts, Standing DEF Peer
  <2>2. Produced(s, "next") + 1 <= Produced(s - 1, "next")
    BY <2>1, PeerAhead, RequestFacts
  <2>3. f + 1 <= Len(fwd[s-1])
    BY <2>2 DEF Produced
  <2>4. ForwardSet(s-1) = 1 .. Len(fwd[s-1]) /\ Len(fwd[s-1]) \in Nat
    BY <2>1, FlushSets
  <2>5. f + 1 \in ForwardSet(s-1)
    BY <1>1, <2>3, <2>4
  <2> QED BY <2>1, <2>5 DEF FlushFwd
<1>6. ~args.forward_only => Cardinality(FlushFwd[s] \ FlushBwd[s]) < P - s
  <2> SUFFICES ASSUME ~args.forward_only
               PROVE  Cardinality(FlushFwd[s] \ FlushBwd[s]) < P - s
    OBVIOUS
  <2>1. f - b < P - s
    OBVIOUS
  <2>2. FlushFwd[s] \ FlushBwd[s] = b + 1 .. f
    <3>1. \A x, y \in Nat : (1 .. x) \ (1 .. y) = y + 1 .. x
      OBVIOUS
    <3> QED BY <1>1, <3>1 DEF FlushFwd, FlushBwd
  <2>3. Cardinality(b + 1 .. f) = IF b + 1 > f THEN 0 ELSE f - (b + 1) + 1
    <3>1. b + 1 \in Int /\ f \in Int
      BY <1>1
    <3> HIDE DEF f, b
    <3> QED BY <3>1, FS_Interval
  <2>4. s < P
    BY CallType DEF IInv, TypeOK
  <2> HIDE DEF f, b
  <2>5. (IF b + 1 > f THEN 0 ELSE f - (b + 1) + 1) < P - s
    BY <1>1, <2>1, <2>4
  <2> QED BY <2>2, <2>3, <2>5
<1>7. f + 1 \notin FlushFwd[s] /\ f + 1 \in 1 .. M /\ M' = M
  BY <1>1 DEF FlushFwd, M
<1> HIDE DEF f, b
<1>8. PICK m \in 1 .. M : m = f + 1
  BY <1>7
<1>9. Flush!Forward(s, m)
  <2>1. Flush!Cardinality(FlushFwd[s] \ FlushBwd[s]) = Cardinality(FlushFwd[s] \ FlushBwd[s])
    BY FlushCardinality
  <2>2. [t \in Stages |-> P - t][s] = P - s
    OBVIOUS
  <2>3. /\ m \notin FlushFwd[s] /\ M' = M
        /\ s > 0 => m \in FlushFwd[s-1]
        /\ FlushFwd' = [FlushFwd EXCEPT ![s] = @ \cup {m}]
    BY <1>4, <1>5, <1>7, <1>8
  <2> QED BY <1>4, <1>6, <2>1, <2>2, <2>3
     DEF Flush!Forward, FlushFwd, FlushBwd, ForwardSet, BackwardSet
<1>10. Flush!Forward(s, m) \/ Flush!Backward(s, m)
  BY <1>9
<1>11. s \in Flush!Stages /\ m \in Flush!Microbatches
  BY DEF Flush!Microbatches, Flush!Stages, Stages
<1> QED BY <1>10, <1>11 DEF Flush!Next

\* A backward pass implements Backward of the abstract flush.
LEMMA BackwardFlush ==
  ASSUME IInv, NEW s \in Stages, NEW l \in Awaits("next"), At(s, l),
         BackwardStep(s, Len(main_grad[s]) + 1), args' = args, fwd' = fwd,
         ~args.forward_only, Len(main_grad[s]) < Len(fwd[s]), Len(main_grad[s]) < M
  PROVE  Flush!Next
<1> DEFINE f == Len(fwd[s])
           b == Len(main_grad[s])
<1>1. /\ f \in Nat /\ b \in Nat /\ s \in Nat /\ M \in Nat /\ P \in Nat
      /\ ForwardSet(s) = 1 .. f /\ BackwardSet(s) = 1 .. b
  BY FlushSets, CallType, PAssumption DEF IInv, TypeOK
<1>2. /\ main_grad' \in [Stages -> Seq(Nat)]
      /\ \A t \in Stages \ {s} : main_grad'[t] = main_grad[t]
      /\ Len(main_grad'[s]) = b + 1 /\ IsRun(main_grad'[s], 0)
  BY BackwardRun
<1>3. BackwardSet(s)' = BackwardSet(s) \cup {b + 1}
  <2>1. BackwardSet(s)' = 1 .. b + 1
    BY <1>2, RunSet DEF BackwardSet
  <2> QED BY <1>1, <2>1
<1>4. /\ FlushBwd' = [FlushBwd EXCEPT ![s] = @ \cup {b + 1}]
      /\ FlushFwd' = FlushFwd
  <2>1. \A t \in Stages \ {s} : BackwardSet(t)' = BackwardSet(t)
    BY <1>2 DEF BackwardSet
  <2>2. \A t \in Stages : ForwardSet(t)' = ForwardSet(t)
    BY DEF ForwardSet
  <2> QED BY <1>3, <2>1, <2>2 DEF FlushFwd, FlushBwd
<1>5. s < P - 1 => b + 1 \in FlushBwd[s+1]
  <2> SUFFICES ASSUME s < P - 1 PROVE b + 1 \in FlushBwd[s+1]
    OBVIOUS
  <2>1. /\ HasPeer(s, "next") /\ Holds(s, "next") /\ Peer(s, "next") = s + 1
        /\ s + 1 \in Stages
    BY PeerFacts, RequestFacts, Standing DEF Peer
  <2>2. Produced(s, "prev") + 1 <= Produced(s + 1, "prev")
    BY <2>1, PeerAhead, RequestFacts
  <2>3. b + 1 <= Len(main_grad[s+1])
    BY <2>2, RequestFacts DEF Produced
  <2>4. BackwardSet(s+1) = 1 .. Len(main_grad[s+1]) /\ Len(main_grad[s+1]) \in Nat
    BY <2>1, FlushSets
  <2>5. b + 1 \in BackwardSet(s+1)
    BY <1>1, <2>3, <2>4
  <2> QED BY <2>1, <2>5 DEF FlushBwd
<1>6. b + 1 \in FlushFwd[s] \ FlushBwd[s] /\ b + 1 \in 1 .. M /\ M' = M
  BY <1>1 DEF FlushFwd, FlushBwd, M
<1> HIDE DEF f, b
<1>7. PICK m \in 1 .. M : m = b + 1
  BY <1>6
<1>8. Flush!Backward(s, m)
  <2>1. /\ m \in FlushFwd[s] \ FlushBwd[s] /\ M' = M
        /\ s < P - 1 => m \in FlushBwd[s+1]
        /\ FlushBwd' = [FlushBwd EXCEPT ![s] = @ \cup {m}]
    BY <1>4, <1>5, <1>6, <1>7
  <2> QED BY <1>4, <2>1
     DEF Flush!Backward, FlushFwd, FlushBwd, ForwardSet, BackwardSet
<1>9. Flush!Forward(s, m) \/ Flush!Backward(s, m)
  BY <1>8
<1>10. s \in Flush!Stages /\ m \in Flush!Microbatches
  BY DEF Flush!Microbatches, Flush!Stages, Stages
<1> QED BY <1>9, <1>10 DEF Flush!Next

\* A step without a pass is a stutter of the abstract flush.
LEMMA FlushStutter ==
  ASSUME args' = args, fwd' = fwd, main_grad' = main_grad
  PROVE  UNCHANGED Flush!vars
BY DEF Flush!vars, M

\* Every forward and backward pass of a stage is a step of the flush.
LEMMA PassFlush ==
  ASSUME IInv, NEW s \in Stages,
         \/ WarmupForward(s) \/ SteadyForward(s)
         \/ SteadyBackward(s) \/ CooldownBackward(s)
  PROVE  Flush!Next
<1> DEFINE f == Len(fwd[s])
           b == Len(main_grad[s])
           W == NumWarmup(s)
<1>1. /\ TypeOK /\ StageInv(s)
      /\ f \in Nat /\ b \in Nat /\ s \in Nat /\ M \in Nat /\ P \in Nat
      /\ args.forward_only \in BOOLEAN
      /\ W \in 0 .. M /\ W <= P - s - 1
  BY FlushSets, CallType, PAssumption DEF IInv, TypeOK
<1>2. CASE WarmupForward(s)
  <2>1. /\ At(s, "warmup_forward") /\ "warmup_forward" \in Awaits("prev")
        /\ ForwardStep(s) /\ args' = args /\ main_grad' = main_grad
    BY <1>2 DEF WarmupForward, Awaits
  <2>2. f < W /\ b = 0
    BY <1>1, <2>1 DEF StageInv, CountInv, At
  <2>3. f < M /\ f - b < P - s
    <3> HIDE DEF f, b, W
    <3> QED BY <1>1, <2>2
  <2> QED BY <2>1, <2>3, ForwardFlush
<1>3. CASE SteadyForward(s)
  <2>1. /\ At(s, "steady_forward") /\ "steady_forward" \in Awaits("prev")
        /\ ForwardStep(s) /\ args' = args /\ main_grad' = main_grad
    BY <1>3 DEF SteadyForward, Awaits
  <2>2. f < M /\ (~args.forward_only => b = f - W)
    BY <1>1, <2>1 DEF StageInv, CountInv, At
  <2>3. ~args.forward_only => f - b < P - s
    <3> HIDE DEF f, b, W
    <3> QED BY <1>1, <2>2
  <2> QED BY <2>1, <2>2, <2>3, ForwardFlush
<1>4. CASE SteadyBackward(s)
  <2>1. At(s, "steady_backward") /\ "steady_backward" \in Awaits("next")
    BY <1>4 DEF SteadyBackward, Awaits
  <2>2. /\ ~args.forward_only /\ W < f /\ f <= M /\ b = f - W - 1
        /\ tensor_send[s]["next"] = f
        /\ Len(output_tensors[s]) = f - 1 - b /\ IsRun(output_tensors[s], b)
        /\ output_tensors[s] \in Seq(Nat)
    BY <1>1, <2>1 DEF StageInv, CountInv, ValueInv, SavedInv, SavedFrom, SavedTo,
                      At, TypeOK
  <2>3. /\ b < f /\ b < M /\ b \in Nat
        /\ tensor_send[s]["next"] = b + Len(output_tensors[s]) + 1
    <3> HIDE DEF f, b, W
    <3> QED BY <1>1, <2>2
  <2>4. Pop(Append(output_tensors[s], tensor_send[s]["next"])).first = b + 1
    BY <2>2, <2>3, AppendPopRun
  <2>5. BackwardStep(s, b + 1) /\ args' = args /\ fwd' = fwd
    BY <1>4, <2>4 DEF SteadyBackward
  <2> QED BY <2>1, <2>2, <2>3, <2>5, BackwardFlush
<1>5. CASE CooldownBackward(s)
  <2>1. /\ At(s, "cooldown_backward") /\ "cooldown_backward" \in Awaits("next")
        /\ args' = args /\ fwd' = fwd
    BY <1>5 DEF CooldownBackward, Awaits
  <2>2. /\ ~args.forward_only /\ f = M /\ b < M /\ tensor_send[s]["next"] = b + 1
    BY <1>1, <2>1 DEF StageInv, CountInv, ValueInv, At
  <2>3. BackwardStep(s, b + 1) /\ b < f
    BY <1>5, <2>2 DEF CooldownBackward
  <2> QED BY <2>1, <2>2, <2>3, BackwardFlush
<1> QED BY <1>2, <1>3, <1>4, <1>5

\* Every step of the schedule is one of the abstract flush, or a stutter.
LEMMA FlushStep ==
  ASSUME IInv, [Next]_vars
  PROVE  [Flush!Next]_Flush!vars
<1>1. ASSUME Transfer PROVE UNCHANGED Flush!vars
  <2>1. args' = args /\ fwd' = fwd /\ main_grad' = main_grad
    BY <1>1 DEF Transfer, Buffer, Receive, Handover, local
  <2> QED BY <2>1, FlushStutter
<1>2. ASSUME NEW s \in Stages, Step(s) PROVE Flush!Next \/ UNCHANGED Flush!vars
  <2>1. CASE \/ WarmupForward(s) \/ SteadyForward(s)
             \/ SteadyBackward(s) \/ CooldownBackward(s)
    BY <2>1, PassFlush
  <2>2. CASE \/ WarmupRecv(s) \/ EndWarmup(s) \/ SteadyRecv(s)
             \/ CooldownRecv(s) \/ Finish(s)
    <3>1. args' = args /\ fwd' = fwd /\ main_grad' = main_grad
      BY <2>2 DEF WarmupRecv, EndWarmup, SteadyRecv, CooldownRecv, Finish, local
    <3> QED BY <3>1, FlushStutter
  <2> QED BY <1>2, <2>1, <2>2 DEF Step
<1>3. ASSUME UNCHANGED vars PROVE UNCHANGED Flush!vars
  <2>1. args' = args /\ fwd' = fwd /\ main_grad' = main_grad
    BY <1>3 DEF vars, local
  <2> QED BY <2>1, FlushStutter
<1> QED BY <1>1, <1>2, <1>3 DEF Next, Returned

\* The schedule starts where the abstract flush does.
LEMMA FlushInit == Init => Flush!Init
<1> SUFFICES ASSUME Init PROVE Flush!Init
  OBVIOUS
<1>1. M \in Nat \ {0} /\ args.forward_only \in BOOLEAN
  BY CallType DEF Init
<1>2. \A s \in Stages : ForwardSet(s) = {} /\ BackwardSet(s) = {}
  <2>1. \A s \in Stages : Len(fwd[s]) = 0 /\ Len(main_grad[s]) = 0
    BY DEF Init
  <2> QED BY <2>1 DEF ForwardSet, BackwardSet
<1>3. FlushFwd = [s \in Stages |-> {}] /\ FlushBwd = [s \in Stages |-> {}]
  BY <1>2 DEF FlushFwd, FlushBwd
<1> QED BY <1>1, <1>3 DEF Flush!Init, FlushFwd, FlushBwd, ForwardSet, BackwardSet,
                          Flush!Stages, Stages

\* The safety part of ImplementsFlush: every behaviour of the schedule is
\* one of the abstract flush, in which a microbatch's forward pass follows
\* the one of the stage before, its backward pass the one of the stage
\* after, and stage s never holds more than P - s activations.
THEOREM ImplementsFlushSafety == Spec => Flush!Init /\ [][Flush!Next]_Flush!vars
<1> QED BY FlushInit, FlushStep, Inductive, PTL DEF Spec
=============================================================================
