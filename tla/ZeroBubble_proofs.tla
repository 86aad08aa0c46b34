-------------------------- MODULE ZeroBubble_proofs --------------------------
(***************************************************************************)
(* Proofs about ZeroBubble, for every number of stages and every batch.    *)
(***************************************************************************)
EXTENDS ZeroBubble, FiniteSetTheorems, SequenceTheorems, TLAPS

-----------------------------------------------------------------------------
\* Facts about numbers.

\* Division with remainder.
LEMMA Quotient ==
  ASSUME NEW j \in Int, NEW s \in Nat \ {0}
  PROVE  /\ j \div s \in Int
         /\ j % s \in 0 .. s - 1
         /\ j = (j \div s) * s + (j % s)
  OBVIOUS

\* Numbers less than m apart have different remainders.
LEMMA Residue ==
  ASSUME NEW m \in Nat \ {0}, NEW i \in Nat, NEW j \in Nat,
         i % m = j % m, i - j < m, j - i < m
  PROVE  i = j
<1> DEFINE p == i \div m
           q == j \div m
<1>1. p \in Int /\ q \in Int /\ i % m \in Int
  OBVIOUS
<1>2. i % m = i - m * p /\ j % m = j - m * q
  OBVIOUS
<1> HIDE DEF p, q
<1>3. i - j = m * p - m * q
  BY <1>1, <1>2
<1>4. \A x, y \in Int : m * (x - y) = m * x - m * y
  OBVIOUS
<1>5. \A x \in Int : x >= 1 => m * x >= m
  OBVIOUS
<1>6. ~(p - q >= 1)
  <2>1. m * (p - q) = m * p - m * q
    BY <1>1, <1>4
  <2>2. p - q >= 1 => m * (p - q) >= m
    BY <1>1, <1>5
  <2> QED BY <1>1, <1>3, <2>1, <2>2
<1>7. ~(q - p >= 1)
  <2>1. m * (q - p) = m * q - m * p
    BY <1>1, <1>4
  <2>2. q - p >= 1 => m * (q - p) >= m
    BY <1>1, <1>5
  <2> QED BY <1>1, <1>3, <2>1, <2>2
<1> QED BY <1>1, <1>3, <1>6, <1>7

\* q holds the consecutive numbers that follow a.
IsRun(q, a) == \A k \in 1 .. Len(q) : q[k] = a + k

\* Appending the next number to a run gives a longer run.
LEMMA RunAppend ==
  ASSUME NEW q \in Seq(Nat), NEW a \in Nat, IsRun(q, a), NEW x, x = a + Len(q) + 1
  PROVE  /\ Append(q, x) \in Seq(Nat) /\ Len(Append(q, x)) = Len(q) + 1
         /\ IsRun(Append(q, x), a)
<1>1. x \in Nat /\ Append(q, x) \in Seq(Nat)
  OBVIOUS
<1> QED BY <1>1 DEF IsRun

\* The tail of a run is the run that starts one later.
LEMMA RunTail ==
  ASSUME NEW q \in Seq(Nat), NEW a \in Nat, IsRun(q, a), Len(q) > 0
  PROVE  /\ Head(q) = a + 1
         /\ Tail(q) \in Seq(Nat) /\ Len(Tail(q)) = Len(q) - 1
         /\ IsRun(Tail(q), a + 1)
<1>1. Tail(q) \in Seq(Nat) /\ Len(Tail(q)) = Len(q) - 1 /\ q # <<>>
  OBVIOUS
<1>2. \A k \in 1 .. Len(Tail(q)) : Tail(q)[k] = q[k+1]
  BY <1>1
<1> QED BY <1>1, <1>2 DEF IsRun

\* The members of a run from 1 are the numbers up to its length.
LEMMA RunSet ==
  ASSUME NEW q \in Seq(Nat), IsRun(q, 0)
  PROVE  {q[k] : k \in 1 .. Len(q)} = 1 .. Len(q)
<1>1. \A k \in 1 .. Len(q) : q[k] = k
  BY DEF IsRun
<1> QED BY <1>1

-----------------------------------------------------------------------------
Tensors == [inputs : Nat, labels : Nat, outputs : Nat, input_grad : Nat]
Instruction == [op : Ops, buffer : Nat]

\* Instructions of one step are executed in this order, ...
Position ==
  [op \in Ops |->
    CASE op = "RecvActivation" -> 1 [] op = "LoadMicroBatch" -> 2
      [] op = "ForwardPass" -> 3 [] op = "RecvGrad" -> 4
      [] op = "SendActivation" -> 5
      [] op \in {"BackwardPass", "BackwardOnlyPass"} -> 6
      [] op = "SendGrad" -> 7 [] op = "WeightPass" -> 8
      [] op = "ReduceGrads" -> 9 [] op = "OptimizerStep" -> 10]

ForwardOps == {"RecvActivation", "LoadMicroBatch", "ForwardPass", "SendActivation"}
BackwardOps == {"RecvGrad", "BackwardPass", "BackwardOnlyPass", "SendGrad"}
Passes == {"BackwardPass", "BackwardOnlyPass"}

\* ... on the buffers of microbatches m (forward) and n (backward).
BufferOf(s, op, m, n) == IF op \in ForwardOps THEN BufferId(s, m - 1)
                         ELSE IF op \in BackwardOps THEN BufferId(s, n - 1)
                         ELSE 0
Ordered(p) == \A i, j \in 1 .. Len(p) : i < j => Position[p[i].op] < Position[p[j].op]
Listed(p, s, m, n) ==
  /\ p \in Seq(Instruction) /\ Ordered(p)
  /\ \A k \in 1 .. Len(p) : p[k].buffer = BufferOf(s, p[k].op, m, n)
OpsOf(p) == {p[k].op : k \in 1 .. Len(p)}

\* The instructions of the current step that stage s has not executed.
Left(s) == OpsOf(cmds[s])
Pending(s, ops) == IF Left(s) \cap ops # {} THEN 1 ELSE 0

CmdsInv(s) == Listed(cmds[s], s, forward[s], backward[s])

\* Which instructions are left together, and after which counts.
LeftInv(s) ==
  LET L == Left(s)
  IN /\ First(s) => L \cap {"RecvActivation", "SendGrad"} = {}
     /\ Last(s) => L \cap {"SendActivation", "RecvGrad"} = {}
     /\ "LoadMicroBatch" \in L => First(s) \/ Last(s)
     /\ L \cap {"RecvActivation", "LoadMicroBatch"} # {} => "ForwardPass" \in L
     /\ "ForwardPass" \in L /\ ~Last(s) => "SendActivation" \in L
     /\ "RecvGrad" \in L => L \cap Passes # {}
     /\ {"ForwardPass"} \subseteq L /\ L \cap Passes # {} /\ ~Last(s) => "RecvGrad" \in L
     /\ L \cap Passes # {} /\ ~First(s) => "SendGrad" \in L
     /\ ~(Passes \subseteq L) /\ ~({"BackwardPass", "WeightPass"} \subseteq L)
     /\ L \cap ForwardOps # {} => forward[s] > 0
     /\ L \cap BackwardOps # {} => backward[s] > 0
     /\ L \cap {"BackwardPass", "WeightPass"} # {} => weight[s] > 0
     /\ "SendActivation" \in L /\ L \cap Passes = {} => backward[s] < forward[s]
     /\ "BackwardPass" \in L /\ args.exact => First(s)
     /\ L \cap {"ReduceGrads", "OptimizerStep"} # {} => ended[s]
     /\ "ReduceGrads" \in L => "OptimizerStep" \in L
     /\ ended[s] => /\ AtEnd(s) /\ L \subseteq {"ReduceGrads", "OptimizerStep"}

\* The sections of steps(), by the three counters.
CountInv(s) ==
  LET f == forward[s]
      b == backward[s]
      w == weight[s]
      A == Min2(P - s - 1, M)
      C == Min2(P - 1, M)
  IN \/ f <= A /\ b = 0 /\ w = 0
     \/ A <= f /\ f <= C /\ b = f - A /\ w = 0
     \/ C <= f /\ f <= M /\ b = f - A /\ w = f - C
     \/ f = M /\ M - A <= b /\ b <= M /\ w = b + A - C
     \/ f = M /\ b = M /\ M + A - C <= w /\ w <= M

\* The passes made are those counted, without the pending ones.
PassInv(s) ==
  /\ Len(fwd[s]) = forward[s] - Pending(s, {"ForwardPass"})
  /\ Len(bwd[s]) = backward[s] - Pending(s, Passes)
  /\ IsRun(fwd[s], 0) /\ IsRun(bwd[s], 0)
  /\ First(s) \/ Last(s) => loaded[s] = forward[s] - Pending(s, {"LoadMicroBatch"})

\* What stage s holds in the buffer of microbatch m.
Held(s, m) == pipe_buffers[s][BufferId(s, m - 1)]

\* The tensors of microbatches outstanding and in work.
BufferInv(s) ==
  LET L == Left(s)
      f == forward[s]
      b == backward[s]
  IN /\ \A m \in Len(bwd[s]) + 1 .. Len(fwd[s]) : Held(s, m).inputs = m /\ Held(s, m).outputs = m
     /\ "ForwardPass" \in L =>
          /\ First(s) /\ "LoadMicroBatch" \notin L => Held(s, f).inputs = f
          /\ ~First(s) /\ "RecvActivation" \notin L => Held(s, f).inputs = f
          /\ Last(s) /\ "LoadMicroBatch" \notin L => Held(s, f).labels = f
     /\ "SendGrad" \in L /\ L \cap Passes = {} => Held(s, b).input_grad = b
     /\ ~Last(s) /\ L \cap Passes # {} /\ "RecvGrad" \notin L => grad_layer[s] = b
     /\ Last(s) => loss = Len(fwd[s])

\* The gradients that weight passes and optimizer steps find.
Accumulated(s) == IF args.bf16 THEN hp_grad[s] ELSE lp_grad[s]
Applied(s) == weight[s] - Pending(s, {"BackwardPass", "WeightPass"})
GradInv(s) ==
  LET a == Accumulated(s)
      q == weight_grad_queue[s]
  IN /\ cache[s] = <<>>
     /\ Len(a.weight) = Applied(s) /\ Len(q) = Len(bwd[s]) - Applied(s)
     /\ Len(a.other) = Len(bwd[s]) /\ IsRun(a.other, 0)
     /\ \A k \in 1 .. Len(q) : Len(q[k]) = 1 /\ q[k][1] \in 1 .. Len(bwd[s])
     /\ \A k \in 1 .. Len(a.weight) : a.weight[k] \in 1 .. Len(bwd[s])
     /\ \A m \in 1 .. Len(bwd[s]) : \/ \E k \in 1 .. Len(a.weight) : a.weight[k] = m
                                    \/ \E k \in 1 .. Len(q) : q[k][1] = m
     /\ args.exact => /\ IsRun(a.weight, 0)
                      /\ \A k \in 1 .. Len(q) : q[k][1] = Len(a.weight) + k
     /\ "OptimizerStep" \in Left(s) /\ "ReduceGrads" \notin Left(s) => hp_grad[s] = a

\* A link holds, in order, what was sent on it and not yet received.
Count(s, op) == IF op = "SendActivation" THEN forward[s] ELSE backward[s]
SentBy(s, op) == Count(s, op) - Pending(s, {op})
ReceivedBy(t, op) == Count(t, op) - Pending(t, {RecvOf(op)})
Sends == {"SendActivation", "SendGrad"}
LinkInv(s, op) ==
  LET got == ReceivedBy(Peer(s, op), op)
  IN /\ Len(Link(op)[s]) = SentBy(s, op) - got
     /\ IsRun(Link(op)[s], got)

Shape ==
  /\ cmds = [s \in Stages |-> cmds[s]]
  /\ pipe_buffers = [s \in Stages |-> pipe_buffers[s]]

StageInv(s) == /\ CmdsInv(s) /\ LeftInv(s) /\ CountInv(s) /\ PassInv(s)
               /\ BufferInv(s) /\ GradInv(s)

\* The inductive invariant.
IInv == /\ TypeOK /\ Shape
        /\ \A s \in Stages : StageInv(s)
        /\ \A s \in Stages, op \in Sends : Peer(s, op) \in Stages => LinkInv(s, op)

-----------------------------------------------------------------------------
(***************************************************************************)
(* Lists of instructions.                                                  *)
(***************************************************************************)

\* What the assumptions on the constants say of a batch.
LEMMA CallType ==
  ASSUME args \in Calls
  PROVE  /\ M \in Nat /\ M > 0 /\ P \in Nat /\ P > 1
         /\ args.exact \in BOOLEAN /\ args.bf16 \in BOOLEAN /\ args.send_buffer \in Nat
         /\ \A s \in Stages : s \in Nat /\ s < P /\ P - s \in Nat \ {0}
BY PAssumption, CallsAssumption DEF Call, M, Stages

\* Instructions have a place in a step.
LEMMA PositionType == Position \in [Ops -> Nat]
<1> DEFINE place(op) ==
      CASE op = "RecvActivation" -> 1 [] op = "LoadMicroBatch" -> 2
        [] op = "ForwardPass" -> 3 [] op = "RecvGrad" -> 4
        [] op = "SendActivation" -> 5
        [] op \in {"BackwardPass", "BackwardOnlyPass"} -> 6
        [] op = "SendGrad" -> 7 [] op = "WeightPass" -> 8
        [] op = "ReduceGrads" -> 9 [] op = "OptimizerStep" -> 10
<1>1. \A op \in Ops : place(op) \in Nat
  BY DEF Ops
<1> QED BY <1>1 DEF Position

\* A list of at most one instruction.
LEMMA OnlyListed ==
  ASSUME NEW s, NEW m, NEW n, NEW c \in BOOLEAN, NEW op \in Ops, NEW b \in Nat,
         b = BufferOf(s, op, m, n)
  PROVE  Listed(Only(c, op, b), s, m, n) /\ OpsOf(Only(c, op, b)) = IF c THEN {op} ELSE {}
<1> DEFINE p == Only(c, op, b)
<1>1. CASE c
  <2>1. p = <<Cmd(op, b)>> /\ Cmd(op, b) \in Instruction /\ Cmd(op, b).op = op
        /\ Cmd(op, b).buffer = b
    BY <1>1 DEF Only, Cmd, Instruction
  <2>2. p \in Seq(Instruction) /\ Len(p) = 1 /\ p[1] = Cmd(op, b)
    BY <2>1
  <2> HIDE DEF p
  <2>3. \A k \in 1 .. Len(p) : k = 1
    BY <2>2
  <2>4. OpsOf(p) = {op}
    BY <2>1, <2>2, <2>3 DEF OpsOf
  <2>5. Ordered(p)
    BY <2>3 DEF Ordered
  <2>6. \A k \in 1 .. Len(p) : p[k].buffer = BufferOf(s, p[k].op, m, n)
    BY <2>1, <2>2, <2>3
  <2> QED BY <1>1, <2>2, <2>4, <2>5, <2>6 DEF Listed, p
<1>2. CASE ~c
  <2>1. p = <<>>
    BY <1>2 DEF Only
  <2> QED BY <1>2, <2>1 DEF Listed, Ordered, OpsOf
<1> QED BY <1>1, <1>2

\* Lists put together, of instructions that come in this order.
LEMMA ConcatListed ==
  ASSUME NEW s, NEW m, NEW n, NEW p, NEW q, Listed(p, s, m, n), Listed(q, s, m, n),
         \A x \in OpsOf(p), y \in OpsOf(q) : Position[x] < Position[y]
  PROVE  Listed(p \o q, s, m, n) /\ OpsOf(p \o q) = OpsOf(p) \cup OpsOf(q)
<1> DEFINE r == p \o q
<1>1. /\ p \in Seq(Instruction) /\ q \in Seq(Instruction) /\ r \in Seq(Instruction)
      /\ Len(p) \in Nat /\ Len(q) \in Nat /\ Len(r) = Len(p) + Len(q)
      /\ \A k \in 1 .. Len(r) : r[k] = IF k <= Len(p) THEN p[k] ELSE q[k - Len(p)]
  BY DEF Listed
<1> HIDE DEF r
<1>2. \A k \in 1 .. Len(r) : \/ k \in 1 .. Len(p) /\ r[k] = p[k]
                             \/ k > Len(p) /\ k - Len(p) \in 1 .. Len(q) /\ r[k] = q[k - Len(p)]
  BY <1>1
<1>3. OpsOf(r) = OpsOf(p) \cup OpsOf(q)
  <2>1. OpsOf(r) \subseteq OpsOf(p) \cup OpsOf(q)
    BY <1>2 DEF OpsOf
  <2>2. ASSUME NEW k \in 1 .. Len(p) PROVE p[k].op \in OpsOf(r)
    <3>1. k \in 1 .. Len(r) /\ r[k] = p[k]
      BY <1>1
    <3> QED BY <3>1 DEF OpsOf
  <2>3. ASSUME NEW k \in 1 .. Len(q) PROVE q[k].op \in OpsOf(r)
    <3> DEFINE j == k + Len(p)
    <3>1. j \in 1 .. Len(r) /\ ~(j <= Len(p)) /\ j - Len(p) = k
      BY <1>1
    <3> HIDE DEF j
    <3>2. r[j] = q[k]
      BY <1>1, <3>1
    <3> QED BY <3>1, <3>2 DEF OpsOf
  <2> QED BY <2>1, <2>2, <2>3 DEF OpsOf
<1>4. Ordered(r)
  <2> SUFFICES ASSUME NEW i \in 1 .. Len(r), NEW j \in 1 .. Len(r), i < j
               PROVE  Position[r[i].op] < Position[r[j].op]
    BY DEF Ordered
  <2>1. CASE i \in 1 .. Len(p) /\ j \in 1 .. Len(p)
    BY <1>1, <2>1 DEF Listed, Ordered
  <2>2. CASE i \in 1 .. Len(p) /\ j > Len(p)
    <3>1. r[i].op \in OpsOf(p) /\ r[j].op \in OpsOf(q)
      BY <1>2, <2>2 DEF OpsOf
    <3> QED BY <3>1
  <2>3. CASE i > Len(p)
    <3>1. /\ r[i] = q[i - Len(p)] /\ r[j] = q[j - Len(p)] /\ i - Len(p) < j - Len(p)
          /\ i - Len(p) \in 1 .. Len(q) /\ j - Len(p) \in 1 .. Len(q)
      BY <1>1, <1>2, <2>3
    <3> QED BY <3>1 DEF Listed, Ordered
  <2> QED BY <1>1, <1>2, <2>1, <2>2, <2>3
<1>5. \A k \in 1 .. Len(r) : r[k].buffer = BufferOf(s, r[k].op, m, n)
  BY <1>2 DEF Listed
<1> QED BY <1>1, <1>3, <1>4, <1>5 DEF Listed, r

\* The first instruction comes before all that remain.
LEMMA TailListed ==
  ASSUME NEW s, NEW m, NEW n, NEW p, Listed(p, s, m, n), p # <<>>
  PROVE  /\ Head(p).op \in OpsOf(p) /\ Head(p).op \in Ops
         /\ Head(p).buffer = BufferOf(s, Head(p).op, m, n)
         /\ Listed(Tail(p), s, m, n)
         /\ OpsOf(Tail(p)) = OpsOf(p) \ {Head(p).op}
         /\ \A x \in OpsOf(Tail(p)) : x \in Ops /\ Position[Head(p).op] < Position[x]
<1> DEFINE q == Tail(p)
<1>1. /\ p \in Seq(Instruction) /\ Len(p) \in Nat /\ Len(p) > 0 /\ Head(p) = p[1]
      /\ q \in Seq(Instruction) /\ Len(q) = Len(p) - 1
      /\ \A k \in 1 .. Len(q) : q[k] = p[k+1]
  BY DEF Listed
<1> HIDE DEF q
<1>2. \A k \in 1 .. Len(p) : p[k].op \in Ops
  <2>1. \A k \in 1 .. Len(p) : p[k] \in Instruction
    BY <1>1
  <2> QED BY <2>1 DEF Instruction
<1>3. Listed(q, s, m, n)
  <2>1. Ordered(q)
    BY SMTT(60), <1>1 DEF Listed, Ordered
  <2> QED BY <1>1, <2>1 DEF Listed
<1>4. \A k \in 1 .. Len(q) : q[k].op \in Ops /\ Position[p[1].op] < Position[q[k].op]
  <2>1. \A k \in 1 .. Len(q) : k + 1 \in 1 .. Len(p) /\ 1 \in 1 .. Len(p) /\ 1 < k + 1
    BY <1>1
  <2> QED BY <1>1, <1>2, <2>1 DEF Listed, Ordered
<1>5. p[1].op \notin OpsOf(q)
  <2>1. \A x \in Ops : ~(Position[x] < Position[x])
    BY PositionType
  <2> QED BY <1>4, <2>1 DEF OpsOf
<1>6. OpsOf(p) = {p[1].op} \cup OpsOf(q)
  <2>1. \A k \in 1 .. Len(p) : k = 1 \/ (k - 1 \in 1 .. Len(q) /\ p[k] = q[k-1])
    BY <1>1
  <2>2. \A k \in 1 .. Len(q) : k + 1 \in 1 .. Len(p) /\ q[k] = p[k+1]
    BY <1>1
  <2>3. 1 \in 1 .. Len(p)
    BY <1>1
  <2>4. OpsOf(p) \subseteq {p[1].op} \cup OpsOf(q)
    <3>1. ASSUME NEW k \in 1 .. Len(p) PROVE p[k].op \in {p[1].op} \cup OpsOf(q)
      <4>1. CASE k = 1
        BY <4>1
      <4>2. CASE k - 1 \in 1 .. Len(q) /\ p[k] = q[k-1]
        BY <4>2 DEF OpsOf
      <4> QED BY <2>1, <4>1, <4>2
    <3> QED BY <3>1 DEF OpsOf
  <2>5. OpsOf(q) \subseteq OpsOf(p)
    BY <2>2 DEF OpsOf
  <2>6. p[1].op \in OpsOf(p)
    BY <2>3 DEF OpsOf
  <2> QED BY <2>4, <2>5, <2>6
<1>7. p[1].buffer = BufferOf(s, p[1].op, m, n)
  BY <1>1 DEF Listed
<1> QED BY <1>1, <1>2, <1>3, <1>4, <1>5, <1>6, <1>7 DEF OpsOf, q

\* The buffers of a list depend only on the counters of what is in it.
LEMMA Relisted ==
  ASSUME NEW s, NEW m, NEW n, NEW i, NEW j, NEW p, Listed(p, s, m, n),
         OpsOf(p) \cap ForwardOps # {} => i = m, OpsOf(p) \cap BackwardOps # {} => j = n
  PROVE  Listed(p, s, i, j)
<1>1. ASSUME NEW k \in 1 .. Len(p) PROVE p[k].buffer = BufferOf(s, p[k].op, i, j)
  <2>1. p[k].op \in OpsOf(p)
    BY DEF OpsOf
  <2>2. p[k].buffer = BufferOf(s, p[k].op, m, n)
    BY DEF Listed
  <2> QED BY <2>1, <2>2 DEF BufferOf
<1> QED BY <1>1 DEF Listed

-----------------------------------------------------------------------------
(***************************************************************************)
(* The steps of a stage.                                                   *)
(***************************************************************************)

\* Where the instructions stand in a step.
LEMMA Positions ==
  /\ Position["RecvActivation"] = 1 /\ Position["LoadMicroBatch"] = 2
  /\ Position["ForwardPass"] = 3 /\ Position["RecvGrad"] = 4
  /\ Position["SendActivation"] = 5 /\ Position["BackwardPass"] = 6
  /\ Position["BackwardOnlyPass"] = 6 /\ Position["SendGrad"] = 7
  /\ Position["WeightPass"] = 8 /\ Position["ReduceGrads"] = 9
  /\ Position["OptimizerStep"] = 10
BY DEF Position, Ops

\* Executing op leaves the instructions that come after it.
LEMMA Execution ==
  ASSUME IInv, NEW s \in Stages, NEW op, Executes(s, op), cmds'[s] = Tail(cmds[s]),
         forward'[s] = forward[s], backward'[s] = backward[s], weight'[s] = weight[s],
         ended'[s] = ended[s], args' = args
  PROVE  /\ op \in Ops /\ op \in Left(s) /\ Left(s) \subseteq Ops
         /\ Left(s)' = Left(s) \ {op}
         /\ \A x \in Left(s) : x = op \/ Position[op] < Position[x]
         /\ Buffer(s) = BufferOf(s, op, forward[s], backward[s])
         /\ CmdsInv(s)' /\ CountInv(s)'
<1>1. CmdsInv(s) /\ CountInv(s) /\ cmds[s] # <<>> /\ Head(cmds[s]).op = op
  BY DEF IInv, StageInv, Executes
<1> DEFINE p == cmds[s]
<1>2. /\ Head(p).op \in OpsOf(p) /\ Head(p).op \in Ops
      /\ Head(p).buffer = BufferOf(s, Head(p).op, forward[s], backward[s])
      /\ Listed(Tail(p), s, forward[s], backward[s])
      /\ OpsOf(Tail(p)) = OpsOf(p) \ {Head(p).op}
      /\ \A x \in OpsOf(Tail(p)) : x \in Ops /\ Position[Head(p).op] < Position[x]
  <2>1. Listed(p, s, forward[s], backward[s]) /\ p # <<>>
    BY <1>1 DEF CmdsInv
  <2> HIDE DEF p
  <2> QED BY <2>1, TailListed
<1>3. CountInv(s)'
  BY <1>1 DEF CountInv, M
<1>4. Left(s)' = OpsOf(Tail(p)) /\ Left(s) = OpsOf(p)
  BY DEF Left
<1>5. CmdsInv(s)'
  BY <1>2 DEF CmdsInv
<1> QED BY <1>1, <1>2, <1>3, <1>4, <1>5 DEF Buffer

\* ... among which the same relations hold.
LEMMA LeftStep ==
  ASSUME IInv, NEW s \in Stages, NEW op, Executes(s, op), cmds'[s] = Tail(cmds[s]),
         forward'[s] = forward[s], backward'[s] = backward[s], weight'[s] = weight[s],
         ended'[s] = ended[s], args' = args
  PROVE  LeftInv(s)'
<1>1. /\ op \in Ops /\ op \in Left(s) /\ Left(s) \subseteq Ops
      /\ Left(s)' = Left(s) \ {op}
      /\ \A x \in Left(s) : x = op \/ Position[op] < Position[x]
  BY Execution
<1>2. LeftInv(s)
  BY DEF IInv, StageInv
<1>3. AtEnd(s)' = AtEnd(s)
  BY DEF AtEnd, M
<1>4. CASE op \in {"RecvActivation", "LoadMicroBatch"}
  BY <1>1, <1>2, <1>3, <1>4, Positions
     DEF LeftInv, Passes, ForwardOps, BackwardOps, First, Last
<1>5. CASE op = "ForwardPass"
  BY <1>1, <1>2, <1>3, <1>5, Positions
     DEF LeftInv, Passes, ForwardOps, BackwardOps, First, Last
<1>6. CASE op \in {"RecvGrad", "SendActivation"}
  BY <1>1, <1>2, <1>3, <1>6, Positions
     DEF LeftInv, Passes, ForwardOps, BackwardOps, First, Last
<1>7. CASE op \in Passes \cup {"SendGrad"}
  BY <1>1, <1>2, <1>3, <1>7, Positions
     DEF LeftInv, Passes, ForwardOps, BackwardOps, First, Last
<1>8. CASE op \in {"WeightPass", "ReduceGrads", "OptimizerStep"}
  BY <1>1, <1>2, <1>3, <1>8, Positions
     DEF LeftInv, Passes, ForwardOps, BackwardOps, First, Last
<1> QED BY <1>1, <1>4, <1>5, <1>6, <1>7, <1>8 DEF Ops, Passes

Same(t) ==
  /\ forward'[t] = forward[t] /\ backward'[t] = backward[t] /\ weight'[t] = weight[t]
  /\ ended'[t] = ended[t] /\ cmds'[t] = cmds[t] /\ loaded'[t] = loaded[t]
  /\ pipe_buffers'[t] = pipe_buffers[t] /\ grad_layer'[t] = grad_layer[t]
  /\ cache'[t] = cache[t] /\ weight_grad_queue'[t] = weight_grad_queue[t]
  /\ lp_grad'[t] = lp_grad[t] /\ hp_grad'[t] = hp_grad[t]
  /\ fwd'[t] = fwd[t] /\ bwd'[t] = bwd[t]
  /\ Last(t) => loss' = loss

\* A stage keeps its part of the invariant in a step that leaves its
\* variables alone.
LEMMA Frame ==
  ASSUME NEW t \in Stages, Same(t), args' = args, StageInv(t)
  PROVE  /\ StageInv(t)' /\ Left(t)' = Left(t)
         /\ \A op : SentBy(t, op)' = SentBy(t, op) /\ ReceivedBy(t, op)' = ReceivedBy(t, op)
<1>1. Left(t)' = Left(t) /\ CmdsInv(t)'
  BY DEF Same, StageInv, CmdsInv, Left
<1>2. LeftInv(t)'
  BY <1>1 DEF Same, StageInv, LeftInv, AtEnd, M
<1>3. CountInv(t)'
  BY DEF Same, StageInv, CountInv, M
<1>4. PassInv(t)'
  BY <1>1 DEF Same, StageInv, PassInv, Pending, IsRun
<1>5. BufferInv(t)'
  BY <1>1 DEF Same, StageInv, BufferInv, Held
<1>6. GradInv(t)'
  <2>1. Accumulated(t)' = Accumulated(t) /\ Applied(t)' = Applied(t)
    BY <1>1 DEF Same, Accumulated, Applied, Pending
  <2> QED BY <1>1, <2>1 DEF Same, StageInv, GradInv, IsRun
<1>7. ASSUME NEW op PROVE SentBy(t, op)' = SentBy(t, op) /\ ReceivedBy(t, op)' = ReceivedBy(t, op)
  BY <1>1 DEF Same, SentBy, ReceivedBy, Count, Pending
<1> QED BY <1>1, <1>2, <1>3, <1>4, <1>5, <1>6, <1>7 DEF StageInv

\* The neighbours a stage sends to are stages, and others.
LEMMA PeerFacts ==
  ASSUME NEW s \in Stages
  PROVE  /\ Peer(s, "SendActivation") \in Stages <=> ~Last(s)
         /\ Peer(s, "SendGrad") \in Stages <=> ~First(s)
         /\ \A op \in Sends : Peer(s, op) \in Stages => Peer(s, op) # s
BY PAssumption DEF Peer, Stages, First, Last, Sends

\* To prove that a step of stage s preserves IInv, look at s and at what
\* it has sent and received.
LEMMA LocalStep ==
  ASSUME IInv, NEW s \in Stages, TypeOK', Shape', args' = args,
         acts' = acts, grads' = grads, \A t \in Stages \ {s} : Same(t), StageInv(s)',
         \A op \in Sends : Peer(s, op) \in Stages => SentBy(s, op)' = SentBy(s, op),
         \A t \in Stages, op \in Sends :
           Peer(t, op) = s => ReceivedBy(s, op)' = ReceivedBy(s, op)
  PROVE  IInv'
<1>1. \A t \in Stages \ {s} :
        /\ StageInv(t)'
        /\ \A op \in Sends : /\ SentBy(t, op)' = SentBy(t, op)
                             /\ ReceivedBy(t, op)' = ReceivedBy(t, op)
  BY Frame DEF IInv
<1>2. ASSUME NEW t \in Stages, NEW op \in Sends, Peer(t, op) \in Stages
      PROVE  LinkInv(t, op)'
  <2>1. SentBy(t, op)' = SentBy(t, op)
    BY <1>1, <1>2
  <2>2. ReceivedBy(Peer(t, op), op)' = ReceivedBy(Peer(t, op), op)
    BY <1>1, <1>2
  <2>3. LinkInv(t, op) /\ Link(op)' = Link(op)
    BY <1>2 DEF IInv, Link
  <2> QED BY <2>1, <2>2, <2>3 DEF LinkInv, IsRun
<1> QED BY <1>1, <1>2 DEF IInv

\* Instructions that exchange nothing leave the links as they are.
LEMMA ComputeStep ==
  ASSUME IInv, NEW s \in Stages, NEW op, Exec(s, op), TypeOK', UNCHANGED <<args, schedule, links>>,
         op \notin {"SendActivation", "SendGrad", "RecvActivation", "RecvGrad"},
         \A t \in Stages \ {s} : /\ loaded'[t] = loaded[t] /\ grad_layer'[t] = grad_layer[t]
                                 /\ pipe_buffers'[t] = pipe_buffers[t]
                                 /\ cache'[t] = cache[t] /\ weight_grad_queue'[t] = weight_grad_queue[t]
                                 /\ lp_grad'[t] = lp_grad[t] /\ hp_grad'[t] = hp_grad[t]
                                 /\ fwd'[t] = fwd[t] /\ bwd'[t] = bwd[t],
         Last(s) \/ loss' = loss,
         pipe_buffers' = [t \in Stages |-> pipe_buffers'[t]],
         PassInv(s)', BufferInv(s)', GradInv(s)'
  PROVE  IInv'
<1>1. /\ cmds = [t \in Stages |-> cmds[t]]
      /\ cmds' = [cmds EXCEPT ![s] = Tail(@)] /\ Executes(s, op)
      /\ args' = args /\ acts' = acts /\ grads' = grads
      /\ forward' = forward /\ backward' = backward /\ weight' = weight /\ ended' = ended
  BY DEF Exec, IInv, Shape, schedule, links
<1>2. cmds'[s] = Tail(cmds[s]) /\ \A t \in Stages \ {s} : cmds'[t] = cmds[t]
  BY <1>1
<1>3. Left(s)' = Left(s) \ {op} /\ CmdsInv(s)' /\ CountInv(s)' /\ LeftInv(s)'
  BY <1>1, <1>2, Execution, LeftStep
<1>4. StageInv(s)'
  BY <1>3 DEF StageInv
<1>5. \A e \in Sends : /\ SentBy(s, e)' = SentBy(s, e)
                       /\ ReceivedBy(s, e)' = ReceivedBy(s, e)
  BY <1>1, <1>3 DEF SentBy, ReceivedBy, Count, Pending, Sends, RecvOf
<1>6. \A t \in Stages \ {s} : Same(t)
  <2>1. \A t \in Stages \ {s} : Last(t) => loss' = loss
    BY DEF Last
  <2> QED BY <1>1, <1>2, <2>1 DEF Same
<1>7. Shape'
  BY <1>1 DEF Shape
<1> QED BY <1>1, <1>4, <1>5, <1>6, <1>7, LocalStep

-----------------------------------------------------------------------------
(***************************************************************************)
(* Yield: the next step of the schedule.                                   *)
(***************************************************************************)

ForwardSet(s) ==
  (IF ~First(s) THEN {"RecvActivation"} ELSE {})
    \cup (IF First(s) \/ Last(s) THEN {"LoadMicroBatch"} ELSE {}) \cup {"ForwardPass"}
ExchangeSet(s) ==
  (IF ~Last(s) THEN {"RecvGrad"} ELSE {}) \cup (IF ~Last(s) THEN {"SendActivation"} ELSE {})
SendGradSet(s) == IF ~First(s) THEN {"SendGrad"} ELSE {}

\* The buffers of a stage are numbered from 0.
LEMMA BufferIdType ==
  ASSUME NEW s \in Stages, NEW m \in Int
  PROVE  BufferId(s, m) \in 0 .. P - s - 1
<1>1. P - s \in Nat \ {0}
  BY PAssumption DEF Stages
<1> DEFINE d == P - s
<1>2. m % d \in 0 .. d - 1
  <2>1. d \in Nat \ {0}
    BY <1>1
  <2> HIDE DEF d
  <2> QED BY <2>1, Quotient
<1> QED BY <1>1, <1>2 DEF BufferId

\* ForwardCmds, Exchange, B, BW and W, as lists on the buffers of the next
\* microbatches.
LEMMA Pieces ==
  ASSUME NEW s \in Stages, forward[s] \in Nat, backward[s] \in Nat
  PROVE  LET Lists(p, ops) == /\ Listed(p, s, forward[s] + 1, backward[s] + 1)
                              /\ OpsOf(p) = ops
             f == BufferId(s, forward[s])
             b == BufferId(s, backward[s])
         IN /\ Lists(ForwardCmds(s), ForwardSet(s))
            /\ Lists(Exchange(s), ExchangeSet(s))
            /\ Lists(Only(~Last(s), "SendActivation", f),
                     IF ~Last(s) THEN {"SendActivation"} ELSE {})
            /\ Lists(Only(~Last(s), "RecvGrad", b), IF ~Last(s) THEN {"RecvGrad"} ELSE {})
            /\ Lists(B(s), {"BackwardOnlyPass"} \cup SendGradSet(s))
            /\ Lists(BW(s), {"BackwardPass"} \cup SendGradSet(s))
            /\ Lists(W, {"WeightPass"})
            /\ Lists(<<Cmd("ReduceGrads", None), Cmd("OptimizerStep", None)>>,
                     {"ReduceGrads", "OptimizerStep"})
<1> DEFINE m == forward[s] + 1
           n == backward[s] + 1
           f == BufferId(s, forward[s])
           b == BufferId(s, backward[s])
           Lists(p, ops) == Listed(p, s, m, n) /\ OpsOf(p) = ops
<1>1. /\ f \in Nat /\ b \in Nat
      /\ \A op \in ForwardOps : BufferOf(s, op, m, n) = f
      /\ \A op \in BackwardOps : BufferOf(s, op, m, n) = b
      /\ \A op \in {"WeightPass", "ReduceGrads", "OptimizerStep"} : BufferOf(s, op, m, n) = 0
  <2>1. m - 1 = forward[s] /\ n - 1 = backward[s]
    OBVIOUS
  <2>2. f \in Nat /\ b \in Nat
    BY BufferIdType
  <2> QED BY <2>1, <2>2 DEF BufferOf, ForwardOps, BackwardOps
<1> HIDE DEF m, n, f, b
<1>2. ASSUME NEW c \in BOOLEAN PROVE
        /\ \A op \in ForwardOps : Lists(Only(c, op, f), IF c THEN {op} ELSE {})
        /\ \A op \in BackwardOps : Lists(Only(c, op, b), IF c THEN {op} ELSE {})
        /\ \A op \in {"WeightPass", "ReduceGrads", "OptimizerStep"} :
             Lists(Only(c, op, 0), IF c THEN {op} ELSE {})
  <2>1. ForwardOps \cup BackwardOps \cup {"WeightPass", "ReduceGrads", "OptimizerStep"} \subseteq Ops
    BY DEF ForwardOps, BackwardOps, Ops
  <2> QED BY <1>1, <2>1, OnlyListed
<1>3. /\ \A op \in ForwardOps : Lists(<<Cmd(op, f)>>, {op})
      /\ \A op \in BackwardOps : Lists(<<Cmd(op, b)>>, {op})
      /\ Lists(<<Cmd("WeightPass", 0)>>, {"WeightPass"})
  <2>1. \A op, x : Only(TRUE, op, x) = <<Cmd(op, x)>>
    BY DEF Only
  <2>2. /\ \A op \in ForwardOps : Lists(Only(TRUE, op, f), {op})
        /\ \A op \in BackwardOps : Lists(Only(TRUE, op, b), {op})
        /\ Lists(Only(TRUE, "WeightPass", 0), {"WeightPass"})
    <3> HIDE DEF Lists
    <3> QED BY <1>2
  <2> HIDE DEF Lists
  <2> QED BY <2>1, <2>2
<1>4. ASSUME NEW p, NEW q, NEW X, NEW Y, Lists(p, X), Lists(q, Y),
             \A x \in X, y \in Y : Position[x] < Position[y]
      PROVE  Lists(p \o q, X \cup Y)
  BY <1>4, ConcatListed
<1>5. Lists(Only(~First(s), "RecvActivation", f), IF ~First(s) THEN {"RecvActivation"} ELSE {})
  BY <1>2 DEF ForwardOps, First
<1>6. Lists(Only(First(s) \/ Last(s), "LoadMicroBatch", f),
            IF First(s) \/ Last(s) THEN {"LoadMicroBatch"} ELSE {})
  BY <1>2 DEF ForwardOps, First, Last
<1>7. Lists(<<Cmd("ForwardPass", f)>>, {"ForwardPass"})
  BY <1>3 DEF ForwardOps
<1>8. Lists(Only(~Last(s), "SendActivation", f), IF ~Last(s) THEN {"SendActivation"} ELSE {})
  BY <1>2 DEF ForwardOps, Last
<1>9. Lists(Only(~Last(s), "RecvGrad", b), IF ~Last(s) THEN {"RecvGrad"} ELSE {})
  BY <1>2 DEF BackwardOps, Last
<1>10. Lists(<<Cmd("BackwardOnlyPass", b)>>, {"BackwardOnlyPass"})
  BY <1>3 DEF BackwardOps
<1>11. Lists(<<Cmd("BackwardPass", b)>>, {"BackwardPass"})
  BY <1>3 DEF BackwardOps
<1>12. Lists(Only(~First(s), "SendGrad", b), SendGradSet(s))
  BY <1>2 DEF BackwardOps, First, SendGradSet
<1>13. Lists(W, {"WeightPass"})
  BY <1>3 DEF W, None
<1> HIDE DEF Lists
<1>14. Lists(ForwardCmds(s), ForwardSet(s))
  <2> DEFINE p == Only(~First(s), "RecvActivation", f)
             q == Only(First(s) \/ Last(s), "LoadMicroBatch", f)
             X == IF ~First(s) THEN {"RecvActivation"} ELSE {}
             Y == IF First(s) \/ Last(s) THEN {"LoadMicroBatch"} ELSE {}
  <2>1. Lists(p, X) /\ Lists(q, Y)
    BY <1>5, <1>6
  <2>2. \A x \in X, y \in Y : Position[x] < Position[y]
    BY Positions
  <2>3. \A x \in X \cup Y, y \in {"ForwardPass"} : Position[x] < Position[y]
    BY Positions
  <2>4. ForwardCmds(s) = p \o q \o <<Cmd("ForwardPass", f)>>
    BY DEF ForwardCmds, f
  <2>5. ForwardSet(s) = X \cup Y \cup {"ForwardPass"}
    BY DEF ForwardSet
  <2> HIDE DEF p, q, X, Y
  <2>6. Lists(p \o q, X \cup Y)
    BY <1>4, <2>1, <2>2
  <2>7. Lists(p \o q \o <<Cmd("ForwardPass", f)>>, X \cup Y \cup {"ForwardPass"})
    BY <1>4, <1>7, <2>3, <2>6
  <2> QED BY <2>4, <2>5, <2>7
<1>15. Lists(Exchange(s), ExchangeSet(s))
  <2> DEFINE X == IF ~Last(s) THEN {"RecvGrad"} ELSE {}
             Y == IF ~Last(s) THEN {"SendActivation"} ELSE {}
  <2>1. \A x \in X, y \in Y : Position[x] < Position[y]
    BY Positions
  <2>2. Lists(Only(~Last(s), "RecvGrad", b) \o Only(~Last(s), "SendActivation", f), X \cup Y)
    <3> HIDE DEF X, Y
    <3> QED BY <1>4, <1>8, <1>9, <2>1 DEF X, Y
  <2> QED BY <2>2 DEF Exchange, ExchangeSet, f, b
<1>16. /\ Lists(B(s), {"BackwardOnlyPass"} \cup SendGradSet(s))
       /\ Lists(BW(s), {"BackwardPass"} \cup SendGradSet(s))
  <2>1. /\ \A x \in {"BackwardOnlyPass"}, y \in SendGradSet(s) : Position[x] < Position[y]
        /\ \A x \in {"BackwardPass"}, y \in SendGradSet(s) : Position[x] < Position[y]
    BY Positions DEF SendGradSet
  <2>2. /\ Lists(<<Cmd("BackwardOnlyPass", b)>> \o Only(~First(s), "SendGrad", b),
                 {"BackwardOnlyPass"} \cup SendGradSet(s))
        /\ Lists(<<Cmd("BackwardPass", b)>> \o Only(~First(s), "SendGrad", b),
                 {"BackwardPass"} \cup SendGradSet(s))
    BY <1>4, <1>10, <1>11, <1>12, <2>1
  <2> QED BY <2>2 DEF B, BW, b
<1>17. Lists(<<Cmd("ReduceGrads", None), Cmd("OptimizerStep", None)>>,
             {"ReduceGrads", "OptimizerStep"})
  <2> DEFINE x == Cmd("ReduceGrads", None)
             y == Cmd("OptimizerStep", None)
             p == <<x, y>>
  <2>1. /\ x \in Instruction /\ x.op = "ReduceGrads" /\ x.buffer = 0
        /\ y \in Instruction /\ y.op = "OptimizerStep" /\ y.buffer = 0
    BY DEF Cmd, Instruction, Ops, None
  <2> HIDE DEF x, y
  <2>2. p \in Seq(Instruction) /\ Len(p) = 2 /\ p[1] = x /\ p[2] = y
    BY <2>1
  <2> HIDE DEF p
  <2>3. \A k \in 1 .. Len(p) : k = 1 \/ k = 2
    BY <2>2
  <2>4. OpsOf(p) = {"ReduceGrads", "OptimizerStep"}
    BY <2>1, <2>2, <2>3 DEF OpsOf
  <2>5. Ordered(p)
    BY <2>1, <2>2, <2>3, Positions DEF Ordered
  <2>6. \A k \in 1 .. Len(p) : p[k].buffer = BufferOf(s, p[k].op, m, n)
    BY <1>1, <2>1, <2>2, <2>3
  <2>7. Lists(p, {"ReduceGrads", "OptimizerStep"})
    BY <2>2, <2>4, <2>5, <2>6 DEF Lists, Listed
  <2> QED BY <2>7 DEF p, x, y
<1> QED BY <1>8, <1>9, <1>13, <1>14, <1>15, <1>16, <1>17 DEF Lists, m, n, f, b

FBWSet(s) ==
  IF ~First(s) /\ (forward[s] + 1 = M \/ args.exact)
  THEN {"BackwardOnlyPass"} \cup SendGradSet(s) \cup {"WeightPass"}
  ELSE {"BackwardPass"} \cup SendGradSet(s)
BWSet(s) == IF First(s) THEN {"BackwardPass"} \cup SendGradSet(s)
            ELSE {"BackwardOnlyPass"} \cup SendGradSet(s) \cup {"WeightPass"}

\* The instructions of the next step.
NextSet(s) ==
  CASE InF(s) -> ForwardSet(s) \cup (IF ~Last(s) THEN {"SendActivation"} ELSE {})
    [] InFB(s) -> ForwardSet(s) \cup ExchangeSet(s) \cup {"BackwardOnlyPass"} \cup SendGradSet(s)
    [] InFBW(s) -> ForwardSet(s) \cup ExchangeSet(s) \cup FBWSet(s)
    [] InBW(s) -> (IF ~Last(s) THEN {"RecvGrad"} ELSE {}) \cup BWSet(s)
    [] InW(s) -> {"WeightPass"}
    [] AtEnd(s) -> {"ReduceGrads", "OptimizerStep"}

\* The lengths of the first two sections of steps().
LEMMA Lengths ==
  ASSUME args \in Calls, NEW s \in Stages
  PROVE  LET A == Min2(P - s - 1, M)
             C == Min2(P - 1, M)
         IN /\ A \in 0 .. M /\ C \in 0 .. M /\ A <= C /\ A <= P - s - 1 /\ C <= P - 1
            /\ First(s) => A = C
            /\ Last(s) => A = 0
BY CallType DEF Min2, First, Last

\* A stage is in one section of steps().
LEMMA Sections ==
  ASSUME IInv, NEW s \in Stages
  PROVE  /\ InF(s) \/ InFB(s) \/ InFBW(s) \/ InBW(s) \/ InW(s) \/ AtEnd(s)
         /\ InFB(s) => ~InF(s)
         /\ InFBW(s) => ~InF(s) /\ ~InFB(s)
         /\ InBW(s) => ~InF(s) /\ ~InFB(s) /\ ~InFBW(s)
         /\ InW(s) => ~InF(s) /\ ~InFB(s) /\ ~InFBW(s) /\ ~InBW(s)
         /\ AtEnd(s) => ~InF(s) /\ ~InFB(s) /\ ~InFBW(s) /\ ~InBW(s) /\ ~InW(s)
<1>1. /\ forward[s] \in Nat /\ backward[s] \in Nat /\ weight[s] \in Nat
      /\ M \in Nat /\ P \in Nat /\ s \in Nat
  BY CallType DEF IInv, TypeOK
<1>2. CountInv(s)
  BY DEF IInv, StageInv
<1>3. forward[s] <= M /\ backward[s] <= M /\ weight[s] <= M
  <2> DEFINE A == Min2(P - s - 1, M)
             C == Min2(P - 1, M)
  <2>1. A \in 0 .. M /\ C \in 0 .. M /\ A <= C
    BY Lengths DEF IInv, TypeOK
  <2> HIDE DEF A, C
  <2> QED BY <1>1, <1>2, <2>1 DEF CountInv, A, C
<1> QED BY <1>1, <1>3 DEF InF, InFB, InFBW, InBW, InW, AtEnd, Min2

\* NextCmds lists NextSet on the buffers of the next microbatches.
LEMMA NextListed ==
  ASSUME IInv, NEW s \in Stages
  PROVE  /\ Listed(NextCmds(s), s, forward[s] + 1, backward[s] + 1)
         /\ OpsOf(NextCmds(s)) = NextSet(s)
<1> DEFINE m == forward[s] + 1
           n == backward[s] + 1
           f == BufferId(s, forward[s])
           b == BufferId(s, backward[s])
           Lists(p, ops) == Listed(p, s, m, n) /\ OpsOf(p) = ops
           SA == IF ~Last(s) THEN {"SendActivation"} ELSE {}
           RG == IF ~Last(s) THEN {"RecvGrad"} ELSE {}
           SG == SendGradSet(s)
<1>1. forward[s] \in Nat /\ backward[s] \in Nat
  BY DEF IInv, TypeOK
<1>2. /\ Lists(ForwardCmds(s), ForwardSet(s))
      /\ Lists(Exchange(s), ExchangeSet(s))
      /\ Lists(Only(~Last(s), "SendActivation", f), SA)
      /\ Lists(Only(~Last(s), "RecvGrad", b), RG)
      /\ Lists(B(s), {"BackwardOnlyPass"} \cup SG)
      /\ Lists(BW(s), {"BackwardPass"} \cup SG)
      /\ Lists(W, {"WeightPass"})
      /\ Lists(<<Cmd("ReduceGrads", None), Cmd("OptimizerStep", None)>>,
               {"ReduceGrads", "OptimizerStep"})
  BY <1>1, Pieces
<1>3. ASSUME NEW p, NEW q, NEW X, NEW Y, Lists(p, X), Lists(q, Y),
             \A x \in X, y \in Y : Position[x] < Position[y]
      PROVE  Lists(p \o q, X \cup Y)
  BY <1>3, ConcatListed
<1> HIDE DEF Lists
<1>4. /\ \A x \in ForwardSet(s) : Position[x] <= 3 /\ Position[x] \in Nat
      /\ \A x \in ExchangeSet(s) \cup SA \cup RG : Position[x] \in {4, 5}
      /\ \A x \in {"BackwardOnlyPass", "BackwardPass"} \cup SG : Position[x] \in {6, 7}
      /\ \A x \in {"WeightPass"} : Position[x] = 8
  BY Positions DEF ForwardSet, ExchangeSet, SendGradSet
<1> HIDE DEF SA, RG, SG
<1>5. Lists(ForwardCmds(s) \o Only(~Last(s), "SendActivation", f), ForwardSet(s) \cup SA)
  BY <1>2, <1>3, <1>4
<1>6. Lists(ForwardCmds(s) \o Exchange(s), ForwardSet(s) \cup ExchangeSet(s))
  BY <1>2, <1>3, <1>4
<1>7. Lists(B(s) \o W, {"BackwardOnlyPass"} \cup SG \cup {"WeightPass"})
  <2>1. \A x \in {"BackwardOnlyPass"} \cup SG, y \in {"WeightPass"} : Position[x] < Position[y]
    BY <1>4
  <2> QED BY <1>2, <1>3, <2>1
<1>8. Lists(ForwardCmds(s) \o Exchange(s) \o B(s),
            ForwardSet(s) \cup ExchangeSet(s) \cup {"BackwardOnlyPass"} \cup SG)
  <2>1. Lists(ForwardCmds(s) \o Exchange(s) \o B(s),
              ForwardSet(s) \cup ExchangeSet(s) \cup ({"BackwardOnlyPass"} \cup SG))
    <3>1. \A x \in ForwardSet(s) \cup ExchangeSet(s), y \in {"BackwardOnlyPass"} \cup SG :
            Position[x] < Position[y]
      BY <1>4
    <3> QED BY <1>2, <1>3, <1>6, <3>1
  <2> QED BY <2>1 DEF Lists
<1>9. Lists(FBWPass(s), FBWSet(s))
  BY <1>2, <1>7 DEF FBWPass, FBWSet, SG
<1>10. /\ \A x \in FBWSet(s) \cup BWSet(s) : Position[x] \in {6, 7, 8}
  BY <1>4 DEF FBWSet, BWSet, SG
<1>11. Lists(ForwardCmds(s) \o Exchange(s) \o FBWPass(s),
             ForwardSet(s) \cup ExchangeSet(s) \cup FBWSet(s))
  BY <1>3, <1>4, <1>6, <1>9, <1>10
<1>12. Lists(IF First(s) THEN BW(s) ELSE B(s) \o W, BWSet(s))
  BY <1>2, <1>7 DEF BWSet, SG
<1>13. Lists(Only(~Last(s), "RecvGrad", b) \o (IF First(s) THEN BW(s) ELSE B(s) \o W),
             RG \cup BWSet(s))
  BY <1>2, <1>3, <1>4, <1>10, <1>12
<1>14. Lists(NextCmds(s), NextSet(s))
  <2>1. CASE InF(s)
    BY <1>5, <2>1, Sections DEF NextCmds, NextSet, f, SA
  <2>2. CASE InFB(s)
    BY <1>8, <2>2, Sections DEF NextCmds, NextSet, SG
  <2>3. CASE InFBW(s)
    BY <1>11, <2>3, Sections DEF NextCmds, NextSet
  <2>4. CASE InBW(s)
    BY <1>13, <2>4, Sections DEF NextCmds, NextSet, b, RG
  <2>5. CASE InW(s)
    BY <1>2, <2>5, Sections DEF NextCmds, NextSet
  <2>6. CASE AtEnd(s)
    BY <1>2, <2>6, Sections DEF NextCmds, NextSet
  <2> QED BY <2>1, <2>2, <2>3, <2>4, <2>5, <2>6, Sections
<1> QED BY <1>14 DEF Lists

\* The instructions of each section.
LEMMA NextSets ==
  ASSUME IInv, NEW s \in Stages
  PROVE  /\ InF(s) => NextSet(s) = ForwardSet(s) \cup (IF ~Last(s) THEN {"SendActivation"} ELSE {})
         /\ InFB(s) => NextSet(s) = ForwardSet(s) \cup ExchangeSet(s)
                                     \cup {"BackwardOnlyPass"} \cup SendGradSet(s)
         /\ InFBW(s) => NextSet(s) = ForwardSet(s) \cup ExchangeSet(s) \cup FBWSet(s)
         /\ InBW(s) => NextSet(s) = (IF ~Last(s) THEN {"RecvGrad"} ELSE {}) \cup BWSet(s)
         /\ InW(s) => NextSet(s) = {"WeightPass"}
         /\ AtEnd(s) => NextSet(s) = {"ReduceGrads", "OptimizerStep"}
BY Sections DEF NextSet

\* What Yield does to a stage, section by section.
Yields(s, ops, f, b, w, e) ==
  /\ Left(s)' = ops
  /\ forward'[s] = forward[s] + f /\ backward'[s] = backward[s] + b
  /\ weight'[s] = weight[s] + w /\ ended'[s] = e

\* What a yield changes: the commands and counters of its own stage.
LEMMA YieldFacts ==
  ASSUME IInv, NEW s \in Stages, Yield(s)
  PROVE  /\ Left(s) = {} /\ ~ended[s]
         /\ cmds'[s] = NextCmds(s)
         /\ \A t \in Stages \ {s} : Same(t)
         /\ forward' \in [Stages -> Nat] /\ backward' \in [Stages -> Nat]
         /\ weight' \in [Stages -> Nat] /\ ended' \in [Stages -> BOOLEAN]
         /\ InF(s) => Yields(s, ForwardSet(s) \cup (IF ~Last(s) THEN {"SendActivation"} ELSE {}),
                              1, 0, 0, FALSE)
         /\ InFB(s) => Yields(s, ForwardSet(s) \cup ExchangeSet(s)
                                \cup {"BackwardOnlyPass"} \cup SendGradSet(s),
                              1, 1, 0, FALSE)
         /\ InFBW(s) => Yields(s, ForwardSet(s) \cup ExchangeSet(s) \cup FBWSet(s),
                              1, 1, 1, FALSE)
         /\ InBW(s) => Yields(s, (IF ~Last(s) THEN {"RecvGrad"} ELSE {}) \cup BWSet(s),
                              0, 1, 1, FALSE)
         /\ InW(s) => Yields(s, {"WeightPass"},
                              0, 0, 1, FALSE)
         /\ AtEnd(s) => Yields(s, {"ReduceGrads", "OptimizerStep"},
                              0, 0, 0, TRUE)
<1>1. /\ forward \in [Stages -> Nat] /\ backward \in [Stages -> Nat]
      /\ weight \in [Stages -> Nat] /\ ended \in [Stages -> BOOLEAN]
      /\ cmds = [t \in Stages |-> cmds[t]]
  BY DEF IInv, TypeOK, Shape
<1>2. cmds[s] = <<>> /\ ~ended[s] /\ cmds' = [cmds EXCEPT ![s] = NextCmds(s)]
  BY DEF Yield
<1>3. Left(s) = {}
  BY <1>2 DEF Left, OpsOf
<1>4. cmds'[s] = NextCmds(s) /\ \A t \in Stages \ {s} : cmds'[t] = cmds[t]
  BY <1>1, <1>2
<1>5. Left(s)' = NextSet(s)
  BY <1>4, NextListed DEF Left
<1>6. ASSUME NEW counter \in [Stages -> Nat], NEW c \in BOOLEAN
      PROVE  /\ Bump(counter, s, c) \in [Stages -> Nat]
             /\ Bump(counter, s, c)[s] = counter[s] + (IF c THEN 1 ELSE 0)
             /\ \A t \in Stages \ {s} : Bump(counter, s, c)[t] = counter[t]
  BY DEF Bump
<1>7. /\ InF(s) \in BOOLEAN /\ InFB(s) \in BOOLEAN /\ InFBW(s) \in BOOLEAN
      /\ InBW(s) \in BOOLEAN /\ InW(s) \in BOOLEAN /\ AtEnd(s) \in BOOLEAN
  BY DEF InF, InFB, InFBW, InBW, InW, AtEnd
<1> DEFINE cf == InF(s) \/ InFB(s) \/ InFBW(s)
           cb == InFB(s) \/ InFBW(s) \/ InBW(s)
           cw == InFBW(s) \/ InBW(s) \/ InW(s)
<1>8. /\ forward' = Bump(forward, s, cf) /\ backward' = Bump(backward, s, cb)
      /\ weight' = Bump(weight, s, cw) /\ ended' = [ended EXCEPT ![s] = AtEnd(s)]
      /\ cf \in BOOLEAN /\ cb \in BOOLEAN /\ cw \in BOOLEAN
  BY <1>7 DEF Yield
<1> HIDE DEF cf, cb, cw
<1>9. /\ forward' \in [Stages -> Nat] /\ backward' \in [Stages -> Nat]
      /\ weight' \in [Stages -> Nat] /\ ended' \in [Stages -> BOOLEAN]
      /\ forward'[s] = forward[s] + (IF cf THEN 1 ELSE 0)
      /\ backward'[s] = backward[s] + (IF cb THEN 1 ELSE 0)
      /\ weight'[s] = weight[s] + (IF cw THEN 1 ELSE 0)
      /\ ended'[s] = AtEnd(s)
      /\ \A t \in Stages \ {s} : /\ forward'[t] = forward[t] /\ backward'[t] = backward[t]
                                 /\ weight'[t] = weight[t] /\ ended'[t] = ended[t]
  BY <1>1, <1>6, <1>7, <1>8
<1>10. \A t \in Stages \ {s} : Same(t)
  BY <1>4, <1>9 DEF Same, Yield, links, store, params
<1>11. /\ InF(s) => Yields(s, NextSet(s), 1, 0, 0, FALSE)
       /\ InFB(s) => Yields(s, NextSet(s), 1, 1, 0, FALSE)
       /\ InFBW(s) => Yields(s, NextSet(s), 1, 1, 1, FALSE)
       /\ InBW(s) => Yields(s, NextSet(s), 0, 1, 1, FALSE)
       /\ InW(s) => Yields(s, NextSet(s), 0, 0, 1, FALSE)
       /\ AtEnd(s) => Yields(s, NextSet(s), 0, 0, 0, TRUE)
  BY <1>5, <1>7, <1>9, Sections DEF Yields, cf, cb, cw
<1> QED BY <1>2, <1>3, <1>4, <1>9, <1>10, <1>11, NextSets

\* The counters move on within the sections.
LEMMA YieldCounts ==
  ASSUME IInv, NEW s \in Stages, Yield(s)
  PROVE  CountInv(s)'
<1> DEFINE A == Min2(P - s - 1, M)
           C == Min2(P - 1, M)
           Counts(f, b, w) == \/ f <= A /\ b = 0 /\ w = 0
                              \/ A <= f /\ f <= C /\ b = f - A /\ w = 0
                              \/ C <= f /\ f <= M /\ b = f - A /\ w = f - C
                              \/ f = M /\ M - A <= b /\ b <= M /\ w = b + A - C
                              \/ f = M /\ b = M /\ M + A - C <= w /\ w <= M
           Goal == Counts(forward'[s], backward'[s], weight'[s])
<1>1. A \in 0 .. M /\ C \in 0 .. M /\ A <= C
  BY Lengths DEF IInv, TypeOK
<1>2. /\ forward[s] \in Nat /\ backward[s] \in Nat /\ weight[s] \in Nat
      /\ M \in Nat /\ M > 0
  BY CallType DEF IInv, TypeOK
<1>3. Counts(forward[s], backward[s], weight[s])
  BY DEF IInv, StageInv, CountInv
<1>4. /\ InF(s) <=> forward[s] < A
      /\ InFB(s) <=> A <= forward[s] /\ forward[s] < C
      /\ InFBW(s) <=> A <= forward[s] /\ C <= forward[s] /\ forward[s] < M
  <2>1. /\ InF(s) <=> forward[s] < A
        /\ InFB(s) <=> ~InF(s) /\ forward[s] < C
        /\ InFBW(s) <=> ~InF(s) /\ ~InFB(s) /\ forward[s] < M
    BY DEF InF, InFB, InFBW
  <2> HIDE DEF A, C
  <2> QED BY <1>1, <1>2, <2>1
<1>0. SUFFICES Goal
  <2>1. M' = M
    BY DEF Yield, M
  <2> QED BY <2>1 DEF CountInv
<1> HIDE DEF A, C
<1>5. CASE InF(s)
  <2>1. /\ forward'[s] = forward[s] + 1 /\ backward'[s] = backward[s] + 0
        /\ weight'[s] = weight[s] + 0
    BY <1>5, YieldFacts DEF Yields
  <2> QED BY <1>1, <1>2, <1>3, <1>4, <1>5, <2>1
<1>6. CASE InFB(s)
  <2>1. /\ forward'[s] = forward[s] + 1 /\ backward'[s] = backward[s] + 1
        /\ weight'[s] = weight[s] + 0
    BY <1>6, YieldFacts DEF Yields
  <2> QED BY <1>1, <1>2, <1>3, <1>4, <1>6, <2>1
<1>7. CASE InFBW(s)
  <2>1. /\ forward'[s] = forward[s] + 1 /\ backward'[s] = backward[s] + 1
        /\ weight'[s] = weight[s] + 1
    BY <1>7, YieldFacts DEF Yields
  <2> QED BY <1>1, <1>2, <1>3, <1>4, <1>7, <2>1
<1>8. CASE InBW(s)
  <2>1. /\ forward'[s] = forward[s] + 0 /\ backward'[s] = backward[s] + 1
        /\ weight'[s] = weight[s] + 1
    BY <1>8, YieldFacts DEF Yields
  <2> QED BY <1>1, <1>2, <1>3, <1>8, <2>1 DEF InBW
<1>9. CASE InW(s)
  <2>1. /\ forward'[s] = forward[s] + 0 /\ backward'[s] = backward[s] + 0
        /\ weight'[s] = weight[s] + 1
    BY <1>9, YieldFacts DEF Yields
  <2> QED BY <1>1, <1>2, <1>3, <1>9, <2>1 DEF InW
<1>10. CASE AtEnd(s)
  <2>1. /\ forward'[s] = forward[s] + 0 /\ backward'[s] = backward[s] + 0
        /\ weight'[s] = weight[s] + 0
    BY <1>10, YieldFacts DEF Yields
  <2> QED BY <1>1, <1>2, <1>3, <1>10, <2>1 DEF AtEnd
<1> QED BY <1>5, <1>6, <1>7, <1>8, <1>9, <1>10, Sections

\* What is left of a step just yielded is all of it.
LEMMA YieldLeft ==
  ASSUME IInv, NEW s \in Stages, Yield(s)
  PROVE  LeftInv(s)'
<1>1. /\ forward[s] \in Nat /\ backward[s] \in Nat /\ weight[s] \in Nat
      /\ M \in Nat /\ M > 0 /\ P > 1
  BY CallType DEF IInv, TypeOK
<1>2. args' = args /\ M' = M
  BY DEF Yield, M
<1>3. CASE InF(s)
  <2>1. /\ ~ended'[s] /\ forward'[s] = forward[s] + 1 /\ backward'[s] = backward[s]
        /\ Left(s)' = ForwardSet(s) \cup (IF ~Last(s) THEN {"SendActivation"} ELSE {})
    <3>1. Yields(s, ForwardSet(s) \cup (IF ~Last(s) THEN {"SendActivation"} ELSE {}),
                  1, 0, 0, FALSE)
      BY <1>3, YieldFacts
    <3> QED BY <1>1, <3>1 DEF Yields
  <2>2. backward'[s] < forward'[s]
    <3> DEFINE A == Min2(P - s - 1, M)
               C == Min2(P - 1, M)
    <3>1. A \in 0 .. M /\ C \in 0 .. M /\ A <= C /\ forward[s] < A
      BY <1>3, Lengths DEF IInv, TypeOK, InF
    <3> HIDE DEF A, C
    <3>2. backward[s] <= forward[s]
      BY <1>1, <3>1 DEF IInv, StageInv, CountInv, A, C
    <3> QED BY <1>1, <2>1, <3>2
  <2> QED BY <1>1, <1>2, <2>1, <2>2
        DEF LeftInv, ForwardSet, Passes, ForwardOps, BackwardOps, First, Last
<1>4. CASE InFB(s)
  <2>1. /\ ~ended'[s] /\ forward'[s] = forward[s] + 1 /\ backward'[s] = backward[s] + 1
        /\ Left(s)' = ForwardSet(s) \cup ExchangeSet(s) \cup {"BackwardOnlyPass"}
                        \cup SendGradSet(s)
    BY <1>1, <1>2, <1>4, YieldFacts DEF Yields
  <2>2. CASE First(s)
    BY <1>1, <1>2, <2>1, <2>2
       DEF LeftInv, ForwardSet, ExchangeSet, SendGradSet, Passes, ForwardOps, BackwardOps,
           First, Last
  <2>3. CASE Last(s)
    BY <1>1, <1>2, <2>1, <2>3
       DEF LeftInv, ForwardSet, ExchangeSet, SendGradSet, Passes, ForwardOps, BackwardOps,
           First, Last
  <2>4. CASE ~First(s) /\ ~Last(s)
    BY <1>1, <1>2, <2>1, <2>4
       DEF LeftInv, ForwardSet, ExchangeSet, SendGradSet, Passes, ForwardOps, BackwardOps,
           First, Last
  <2> QED BY <2>2, <2>3, <2>4
<1>5. CASE InFBW(s)
  <2>1. /\ ~ended'[s] /\ forward'[s] = forward[s] + 1 /\ backward'[s] = backward[s] + 1
        /\ weight'[s] = weight[s] + 1
        /\ Left(s)' = ForwardSet(s) \cup ExchangeSet(s) \cup FBWSet(s)
    BY <1>1, <1>2, <1>5, YieldFacts DEF Yields
  <2>2. CASE First(s)
    BY <1>1, <1>2, <2>1, <2>2
       DEF LeftInv, ForwardSet, ExchangeSet, SendGradSet, FBWSet, Passes, ForwardOps,
           BackwardOps, First, Last
  <2>3. CASE Last(s)
    BY <1>1, <1>2, <2>1, <2>3
       DEF LeftInv, ForwardSet, ExchangeSet, SendGradSet, FBWSet, Passes, ForwardOps,
           BackwardOps, First, Last
  <2>4. CASE ~First(s) /\ ~Last(s)
    BY <1>1, <1>2, <2>1, <2>4
       DEF LeftInv, ForwardSet, ExchangeSet, SendGradSet, FBWSet, Passes, ForwardOps,
           BackwardOps, First, Last
  <2> QED BY <2>2, <2>3, <2>4
<1>6. CASE InBW(s)
  <2>1. /\ ~ended'[s] /\ forward'[s] = forward[s] /\ backward'[s] = backward[s] + 1
        /\ weight'[s] = weight[s] + 1
        /\ Left(s)' = (IF ~Last(s) THEN {"RecvGrad"} ELSE {}) \cup BWSet(s)
    <3>1. Yields(s, (IF ~Last(s) THEN {"RecvGrad"} ELSE {}) \cup BWSet(s), 0, 1, 1, FALSE)
      BY <1>6, YieldFacts
    <3> QED BY <1>1, <3>1 DEF Yields
  <2> QED BY <1>1, <1>2, <2>1
        DEF LeftInv, SendGradSet, BWSet, Passes, ForwardOps, BackwardOps, First, Last
<1>7. CASE InW(s)
  <2>1. /\ ~ended'[s] /\ weight'[s] = weight[s] + 1 /\ Left(s)' = {"WeightPass"}
    BY <1>1, <1>2, <1>7, YieldFacts DEF Yields
  <2> QED BY <1>1, <1>2, <2>1 DEF LeftInv, Passes, ForwardOps, BackwardOps
<1>8. CASE AtEnd(s)
  <2>1. /\ ended'[s] /\ AtEnd(s)' /\ Left(s)' = {"ReduceGrads", "OptimizerStep"}
    <3>1. Yields(s, {"ReduceGrads", "OptimizerStep"}, 0, 0, 0, TRUE)
      BY <1>8, YieldFacts
    <3>2. /\ forward'[s] = forward[s] /\ backward'[s] = backward[s] /\ weight'[s] = weight[s]
          /\ ended'[s] /\ Left(s)' = {"ReduceGrads", "OptimizerStep"}
      BY <1>1, <3>1 DEF Yields
    <3> QED BY <1>2, <1>8, <3>2 DEF AtEnd
  <2> QED BY <1>1, <1>2, <2>1 DEF LeftInv, Passes, ForwardOps, BackwardOps
<1> QED BY <1>3, <1>4, <1>5, <1>6, <1>7, <1>8, Sections

\* The counters count what the step contains.
StepCounts(s, K) ==
  /\ forward'[s] = forward[s] + (IF "ForwardPass" \in K THEN 1 ELSE 0)
  /\ backward'[s] = backward[s] + (IF K \cap Passes # {} THEN 1 ELSE 0)
  /\ weight'[s] = weight[s] + (IF K \cap {"BackwardPass", "WeightPass"} # {} THEN 1 ELSE 0)
StepWhole(s, K) ==
  /\ First(s) \/ Last(s) => ("LoadMicroBatch" \in K <=> "ForwardPass" \in K)
  /\ ~First(s) => /\ "RecvActivation" \in K <=> "ForwardPass" \in K
                  /\ "SendGrad" \in K <=> K \cap Passes # {}
  /\ ~Last(s) => /\ "SendActivation" \in K <=> "ForwardPass" \in K
                 /\ "RecvGrad" \in K <=> K \cap Passes # {}
  /\ K \cap ForwardOps # {} => "ForwardPass" \in K
  /\ K \cap BackwardOps # {} => K \cap Passes # {}
  /\ "OptimizerStep" \in K => "ReduceGrads" \in K

\* The commands a yield hands out: their counts, and what comes with them.
LEMMA YieldWhole ==
  ASSUME IInv, NEW s \in Stages, Yield(s)
  PROVE  StepCounts(s, Left(s)') /\ StepWhole(s, Left(s)')
<1>1. /\ forward[s] \in Nat /\ backward[s] \in Nat /\ weight[s] \in Nat /\ P > 1
  BY CallType DEF IInv, TypeOK
<1>2. CASE InF(s)
  <2> DEFINE K == Left(s)'
  <2>1. Yields(s, ForwardSet(s) \cup (IF ~Last(s) THEN {"SendActivation"} ELSE {}),
                1, 0, 0, FALSE)
    BY <1>2, YieldFacts
  <2>2. K = ForwardSet(s) \cup (IF ~Last(s) THEN {"SendActivation"} ELSE {})
    BY <2>1 DEF Yields
  <2>3. forward'[s] = forward[s] + 1 /\ backward'[s] = backward[s] + 0
        /\ weight'[s] = weight[s] + 0
    BY <2>1 DEF Yields
  <2> HIDE DEF K
  <2>4. /\ "ForwardPass" \in K
        /\ K \cap Passes = {}
        /\ K \cap {"BackwardPass", "WeightPass"} = {}
    BY <2>2 DEF ForwardSet, Passes
  <2>5. StepWhole(s, K)
    BY <1>1, <2>2
       DEF StepWhole, ForwardSet, Passes, ForwardOps, BackwardOps,
           First, Last
  <2>6. StepCounts(s, K)
    BY <1>1, <2>3, <2>4 DEF StepCounts
  <2> QED BY <2>5, <2>6 DEF K
<1>3. CASE InFB(s)
  <2> DEFINE K == Left(s)'
  <2>1. Yields(s, ForwardSet(s) \cup ExchangeSet(s) \cup {"BackwardOnlyPass"} \cup SendGradSet(s),
                1, 1, 0, FALSE)
    BY <1>3, YieldFacts
  <2>2. K = ForwardSet(s) \cup ExchangeSet(s) \cup {"BackwardOnlyPass"} \cup SendGradSet(s)
    BY <2>1 DEF Yields
  <2>3. forward'[s] = forward[s] + 1 /\ backward'[s] = backward[s] + 1
        /\ weight'[s] = weight[s] + 0
    BY <2>1 DEF Yields
  <2> HIDE DEF K
  <2>4. /\ "ForwardPass" \in K
        /\ K \cap Passes # {}
        /\ K \cap {"BackwardPass", "WeightPass"} = {}
    BY <2>2 DEF ForwardSet, ExchangeSet, SendGradSet, Passes
  <2>5. StepWhole(s, K)
    BY <1>1, <2>2
       DEF StepWhole, ForwardSet, ExchangeSet, SendGradSet, Passes, ForwardOps, BackwardOps,
           First, Last
  <2>6. StepCounts(s, K)
    BY <1>1, <2>3, <2>4 DEF StepCounts
  <2> QED BY <2>5, <2>6 DEF K
<1>4. CASE InFBW(s)
  <2> DEFINE K == Left(s)'
  <2>1. Yields(s, ForwardSet(s) \cup ExchangeSet(s) \cup FBWSet(s), 1, 1, 1, FALSE)
    BY <1>4, YieldFacts
  <2>2. K = ForwardSet(s) \cup ExchangeSet(s) \cup FBWSet(s)
    BY <2>1 DEF Yields
  <2>3. forward'[s] = forward[s] + 1 /\ backward'[s] = backward[s] + 1
        /\ weight'[s] = weight[s] + 1
    BY <2>1 DEF Yields
  <2> HIDE DEF K
  <2>4. /\ "ForwardPass" \in K
        /\ K \cap Passes # {}
        /\ K \cap {"BackwardPass", "WeightPass"} # {}
    BY <2>2 DEF ForwardSet, ExchangeSet, SendGradSet, FBWSet, Passes
  <2>5. StepWhole(s, K)
    BY <1>1, <2>2
       DEF StepWhole, ForwardSet, ExchangeSet, SendGradSet, FBWSet, Passes, ForwardOps, BackwardOps,
           First, Last
  <2>6. StepCounts(s, K)
    BY <1>1, <2>3, <2>4 DEF StepCounts
  <2> QED BY <2>5, <2>6 DEF K
<1>5. CASE InBW(s)
  <2> DEFINE K == Left(s)'
  <2>1. Yields(s, (IF ~Last(s) THEN {"RecvGrad"} ELSE {}) \cup BWSet(s), 0, 1, 1, FALSE)
    BY <1>5, YieldFacts
  <2>2. K = (IF ~Last(s) THEN {"RecvGrad"} ELSE {}) \cup BWSet(s)
    BY <2>1 DEF Yields
  <2>3. forward'[s] = forward[s] + 0 /\ backward'[s] = backward[s] + 1
        /\ weight'[s] = weight[s] + 1
    BY <2>1 DEF Yields
  <2> HIDE DEF K
  <2>4. /\ "ForwardPass" \notin K
        /\ K \cap Passes # {}
        /\ K \cap {"BackwardPass", "WeightPass"} # {}
    BY <2>2 DEF SendGradSet, BWSet, Passes
  <2>5. StepWhole(s, K)
    BY <1>1, <2>2
       DEF StepWhole, SendGradSet, BWSet, Passes, ForwardOps, BackwardOps,
           First, Last
  <2>6. StepCounts(s, K)
    BY <1>1, <2>3, <2>4 DEF StepCounts
  <2> QED BY <2>5, <2>6 DEF K
<1>6. CASE InW(s)
  <2> DEFINE K == Left(s)'
  <2>1. Yields(s, {"WeightPass"}, 0, 0, 1, FALSE)
    BY <1>6, YieldFacts
  <2>2. K = {"WeightPass"}
    BY <2>1 DEF Yields
  <2>3. forward'[s] = forward[s] + 0 /\ backward'[s] = backward[s] + 0
        /\ weight'[s] = weight[s] + 1
    BY <2>1 DEF Yields
  <2> HIDE DEF K
  <2>4. /\ "ForwardPass" \notin K
        /\ K \cap Passes = {}
        /\ K \cap {"BackwardPass", "WeightPass"} # {}
    BY <2>2 DEF Passes
  <2>5. StepWhole(s, K)
    BY <1>1, <2>2
       DEF StepWhole, Passes, ForwardOps, BackwardOps,
           First, Last
  <2>6. StepCounts(s, K)
    BY <1>1, <2>3, <2>4 DEF StepCounts
  <2> QED BY <2>5, <2>6 DEF K
<1>7. CASE AtEnd(s)
  <2> DEFINE K == Left(s)'
  <2>1. Yields(s, {"ReduceGrads", "OptimizerStep"}, 0, 0, 0, TRUE)
    BY <1>7, YieldFacts
  <2>2. K = {"ReduceGrads", "OptimizerStep"}
    BY <2>1 DEF Yields
  <2>3. forward'[s] = forward[s] + 0 /\ backward'[s] = backward[s] + 0
        /\ weight'[s] = weight[s] + 0
    BY <2>1 DEF Yields
  <2> HIDE DEF K
  <2>4. /\ "ForwardPass" \notin K
        /\ K \cap Passes = {}
        /\ K \cap {"BackwardPass", "WeightPass"} = {}
    BY <2>2 DEF Passes
  <2>5. StepWhole(s, K)
    BY <1>1, <2>2
       DEF StepWhole, Passes, ForwardOps, BackwardOps,
           First, Last
  <2>6. StepCounts(s, K)
    BY <1>1, <2>3, <2>4 DEF StepCounts
  <2> QED BY <2>5, <2>6 DEF K
<1> QED BY <1>2, <1>3, <1>4, <1>5, <1>6, <1>7, Sections

\* Instructions on buffers of stage s name buffers it has.
LEMMA ListedType ==
  ASSUME NEW s \in Stages, NEW m \in Nat, NEW n \in Nat, NEW p, Listed(p, s, m, n)
  PROVE  p \in Seq([op : Ops, buffer : 0 .. P-s-1])
<1>1. p \in Seq(Instruction) /\ Len(p) \in Nat
  BY DEF Listed
<1>2. \A k \in 1 .. Len(p) : p[k] \in Instruction
  BY <1>1
<1>3. P - s \in Nat \ {0}
  BY PAssumption DEF Stages
<1>4. ASSUME NEW op PROVE BufferOf(s, op, m, n) \in 0 .. P-s-1
  <2>1. BufferId(s, m - 1) \in 0 .. P-s-1 /\ BufferId(s, n - 1) \in 0 .. P-s-1
    BY BufferIdType
  <2>2. 0 \in 0 .. P-s-1
    BY <1>3
  <2> QED BY <2>1, <2>2 DEF BufferOf
<1>5. ASSUME NEW k \in 1 .. Len(p) PROVE p[k] \in [op : Ops, buffer : 0 .. P-s-1]
  <2>1. p[k] = [op |-> p[k].op, buffer |-> p[k].buffer] /\ p[k].op \in Ops
    BY <1>2 DEF Instruction
  <2>2. p[k].buffer \in 0 .. P-s-1
    BY <1>4 DEF Listed
  <2> QED BY <2>1, <2>2
<1>6. p = [k \in 1 .. Len(p) |-> p[k]]
  BY <1>1
<1> DEFINE T == [op : Ops, buffer : 0 .. P-s-1]
<1> SUFFICES p \in Seq(T)
  OBVIOUS
<1>7. \A k \in 1 .. Len(p) : p[k] \in T
  BY <1>5
<1> HIDE DEF T
<1> QED BY <1>1, <1>6, <1>7

\* A step that the generator yields preserves IInv.
LEMMA YieldStep ==
  ASSUME IInv, NEW s \in Stages, Yield(s)
  PROVE  IInv'
<1> DEFINE K == Left(s)'
<1>1. /\ Left(s) = {} /\ cmds'[s] = NextCmds(s) /\ \A t \in Stages \ {s} : Same(t)
      /\ forward' \in [Stages -> Nat] /\ backward' \in [Stages -> Nat]
      /\ weight' \in [Stages -> Nat] /\ ended' \in [Stages -> BOOLEAN]
  BY YieldFacts
<1>2. StepCounts(s, K) /\ StepWhole(s, K)
  BY YieldWhole
<1>3. /\ args' = args /\ loaded' = loaded /\ pipe_buffers' = pipe_buffers
      /\ grad_layer' = grad_layer /\ loss' = loss /\ acts' = acts /\ grads' = grads
      /\ cache' = cache /\ weight_grad_queue' = weight_grad_queue
      /\ lp_grad' = lp_grad /\ hp_grad' = hp_grad /\ fwd' = fwd /\ bwd' = bwd
  BY DEF Yield, links, store, params
<1>4. /\ forward[s] \in Nat /\ backward[s] \in Nat /\ weight[s] \in Nat
      /\ Len(fwd[s]) \in Nat /\ Len(bwd[s]) \in Nat /\ loaded[s] \in Nat
      /\ TypeOK /\ Shape /\ StageInv(s)
  <2>1. TypeOK /\ Shape /\ StageInv(s)
    BY DEF IInv
  <2>2. fwd[s] \in Seq(Nat) /\ bwd[s] \in Seq(Nat)
    BY <2>1 DEF TypeOK
  <2>3. forward[s] \in Nat /\ backward[s] \in Nat /\ weight[s] \in Nat /\ loaded[s] \in Nat
    BY <2>1 DEF TypeOK
  <2> QED BY <2>1, <2>2, <2>3
<1>5. CmdsInv(s)'
  <2>1. Listed(NextCmds(s), s, forward[s] + 1, backward[s] + 1)
    BY NextListed
  <2>2. K = OpsOf(NextCmds(s))
    BY <1>1 DEF Left
  <2>3. K \cap ForwardOps # {} => forward'[s] = forward[s] + 1
    BY <1>2 DEF StepCounts, StepWhole
  <2>4. K \cap BackwardOps # {} => backward'[s] = backward[s] + 1
    BY <1>2 DEF StepCounts, StepWhole
  <2> HIDE DEF K
  <2>5. Listed(NextCmds(s), s, forward'[s], backward'[s])
    BY <2>1, <2>2, <2>3, <2>4, Relisted
  <2> QED BY <1>1, <2>5 DEF CmdsInv
<1>6. LeftInv(s)' /\ CountInv(s)'
  BY YieldLeft, YieldCounts
<1>7. PassInv(s)'
  <2>1. PassInv(s) /\ Pending(s, {"ForwardPass"}) = 0 /\ Pending(s, Passes) = 0
        /\ Pending(s, {"LoadMicroBatch"}) = 0
    BY <1>1, <1>4 DEF StageInv, Pending
  <2>2. /\ Pending(s, {"ForwardPass"})' = (IF "ForwardPass" \in K THEN 1 ELSE 0)
        /\ Pending(s, Passes)' = (IF K \cap Passes # {} THEN 1 ELSE 0)
        /\ First(s) \/ Last(s) =>
             Pending(s, {"LoadMicroBatch"})' = (IF "ForwardPass" \in K THEN 1 ELSE 0)
    BY <1>2 DEF Pending, StepWhole
  <2>3. /\ Len(fwd[s]) = forward'[s] - Pending(s, {"ForwardPass"})'
        /\ Len(bwd[s]) = backward'[s] - Pending(s, Passes)'
    BY <1>2, <1>4, <2>1, <2>2 DEF PassInv, StepCounts
  <2>4. First(s) \/ Last(s) => loaded[s] = forward'[s] - Pending(s, {"LoadMicroBatch"})'
    BY <1>2, <1>4, <2>1, <2>2 DEF PassInv, StepCounts
  <2> QED BY <1>3, <2>1, <2>3, <2>4 DEF PassInv, IsRun
<1>8. BufferInv(s)'
  <2>1. BufferInv(s) /\ StepWhole(s, K)
    BY <1>2, <1>4 DEF StageInv
  <2>2. \A m \in Len(bwd[s]) + 1 .. Len(fwd[s]) : Held(s, m).inputs = m /\ Held(s, m).outputs = m
    BY <2>1 DEF BufferInv
  <2>3. \A m : Held(s, m)' = Held(s, m)
    BY <1>3 DEF Held
  <2>4. /\ "ForwardPass" \in K =>
             /\ First(s) => "LoadMicroBatch" \in K
             /\ ~First(s) => "RecvActivation" \in K
             /\ Last(s) => "LoadMicroBatch" \in K
        /\ "SendGrad" \in K => K \cap Passes # {}
        /\ ~Last(s) /\ K \cap Passes # {} => "RecvGrad" \in K
    BY <2>1 DEF StepWhole, BackwardOps
  <2>5. Last(s) => loss = Len(fwd[s])
    BY <2>1 DEF BufferInv
  <2> HIDE DEF K
  <2> QED BY <1>3, <2>2, <2>3, <2>4, <2>5 DEF BufferInv, K
<1>9. GradInv(s)'
  <2>1. GradInv(s) /\ Applied(s) = weight[s]
    BY <1>1, <1>4 DEF StageInv, Applied, Pending
  <2>2. Applied(s)' = weight[s]
    <3>1. Pending(s, {"BackwardPass", "WeightPass"})' =
            (IF K \cap {"BackwardPass", "WeightPass"} # {} THEN 1 ELSE 0)
      BY DEF Pending
    <3> QED BY <1>2, <1>4, <3>1 DEF Applied, StepCounts
  <2>3. Accumulated(s)' = Accumulated(s)
    BY <1>3 DEF Accumulated
  <2>4. ~("OptimizerStep" \in K /\ "ReduceGrads" \notin K)
    BY <1>2 DEF StepWhole
  <2> QED BY <1>3, <2>1, <2>2, <2>3, <2>4 DEF GradInv, IsRun
<1>10. /\ \A op \in Sends : Peer(s, op) \in Stages => SentBy(s, op)' = SentBy(s, op)
       /\ \A t \in Stages, op \in Sends :
            Peer(t, op) = s => ReceivedBy(s, op)' = ReceivedBy(s, op)
  <2>1. ~Last(s) => SentBy(s, "SendActivation")' = SentBy(s, "SendActivation")
    <3> SUFFICES ASSUME ~Last(s) PROVE SentBy(s, "SendActivation")' = SentBy(s, "SendActivation")
      OBVIOUS
    <3>1. Pending(s, {"SendActivation"}) = 0 /\ Pending(s, {"SendActivation"})' = (IF "ForwardPass" \in K THEN 1 ELSE 0)
      BY <1>1, <1>2 DEF Pending, StepWhole
    <3>2. forward'[s] = forward[s] + (IF "ForwardPass" \in K THEN 1 ELSE 0)
      BY <1>2 DEF StepCounts
    <3>3. SentBy(s, "SendActivation") = forward[s] - Pending(s, {"SendActivation"})
          /\ SentBy(s, "SendActivation")' = forward'[s] - Pending(s, {"SendActivation"})'
      BY DEF SentBy, Count
    <3> QED BY <1>4, <3>1, <3>2, <3>3
  <2>2. ~First(s) => SentBy(s, "SendGrad")' = SentBy(s, "SendGrad")
    <3> SUFFICES ASSUME ~First(s) PROVE SentBy(s, "SendGrad")' = SentBy(s, "SendGrad")
      OBVIOUS
    <3>1. Pending(s, {"SendGrad"}) = 0 /\ Pending(s, {"SendGrad"})' = (IF K \cap Passes # {} THEN 1 ELSE 0)
      BY <1>1, <1>2 DEF Pending, StepWhole
    <3>2. backward'[s] = backward[s] + (IF K \cap Passes # {} THEN 1 ELSE 0)
      BY <1>2 DEF StepCounts
    <3>3. SentBy(s, "SendGrad") = backward[s] - Pending(s, {"SendGrad"})
          /\ SentBy(s, "SendGrad")' = backward'[s] - Pending(s, {"SendGrad"})'
      BY DEF SentBy, Count
    <3> QED BY <1>4, <3>1, <3>2, <3>3
  <2>3. ~First(s) => ReceivedBy(s, "SendActivation")' = ReceivedBy(s, "SendActivation")
    <3> SUFFICES ASSUME ~First(s) PROVE ReceivedBy(s, "SendActivation")' = ReceivedBy(s, "SendActivation")
      OBVIOUS
    <3>1. Pending(s, {"RecvActivation"}) = 0 /\ Pending(s, {"RecvActivation"})' = (IF "ForwardPass" \in K THEN 1 ELSE 0)
      BY <1>1, <1>2 DEF Pending, StepWhole
    <3>2. forward'[s] = forward[s] + (IF "ForwardPass" \in K THEN 1 ELSE 0)
      BY <1>2 DEF StepCounts
    <3>3. ReceivedBy(s, "SendActivation") = forward[s] - Pending(s, {"RecvActivation"})
          /\ ReceivedBy(s, "SendActivation")' = forward'[s] - Pending(s, {"RecvActivation"})'
      BY DEF ReceivedBy, Count, RecvOf
    <3> QED BY <1>4, <3>1, <3>2, <3>3
  <2>4. ~Last(s) => ReceivedBy(s, "SendGrad")' = ReceivedBy(s, "SendGrad")
    <3> SUFFICES ASSUME ~Last(s) PROVE ReceivedBy(s, "SendGrad")' = ReceivedBy(s, "SendGrad")
      OBVIOUS
    <3>1. Pending(s, {"RecvGrad"}) = 0 /\ Pending(s, {"RecvGrad"})' = (IF K \cap Passes # {} THEN 1 ELSE 0)
      BY <1>1, <1>2 DEF Pending, StepWhole
    <3>2. backward'[s] = backward[s] + (IF K \cap Passes # {} THEN 1 ELSE 0)
      BY <1>2 DEF StepCounts
    <3>3. ReceivedBy(s, "SendGrad") = backward[s] - Pending(s, {"RecvGrad"})
          /\ ReceivedBy(s, "SendGrad")' = backward'[s] - Pending(s, {"RecvGrad"})'
      BY DEF ReceivedBy, Count, RecvOf
    <3> QED BY <1>4, <3>1, <3>2, <3>3
  <2>5. \A t \in Stages : /\ Peer(t, "SendActivation") = s => ~First(s)
                          /\ Peer(t, "SendGrad") = s => ~Last(s)
    BY PAssumption DEF Peer, Stages, First, Last
  <2> QED BY <2>1, <2>2, <2>3, <2>4, <2>5, PeerFacts DEF Sends
<1>11. TypeOK' /\ Shape'
  <2>1. cmds' = [cmds EXCEPT ![s] = NextCmds(s)] /\ cmds = [t \in Stages |-> cmds[t]]
    BY <1>4 DEF Yield, Shape
  <2>2. cmds'[s] \in Seq([op : Ops, buffer : 0 .. P-s-1])
    <3>1. forward'[s] \in Nat /\ backward'[s] \in Nat
      BY <1>1
    <3> QED BY <1>5, <3>1, ListedType DEF CmdsInv
  <2>3. \A t \in Stages : cmds'[t] \in Seq([op : Ops, buffer : 0 .. P-t-1])
    BY <1>1, <1>4, <2>2 DEF TypeOK, Same
  <2>4. cmds' = [t \in Stages |-> cmds'[t]]
    BY <2>1
  <2>5. Shape'
    BY <1>3, <1>4, <2>4 DEF Shape
  <2>6. TypeOK'
    BY <1>1, <1>3, <1>4, <2>3 DEF TypeOK
  <2> QED BY <2>5, <2>6
<1>12. StageInv(s)'
  BY <1>5, <1>6, <1>7, <1>8, <1>9 DEF StageInv
<1> QED BY <1>1, <1>3, <1>10, <1>11, <1>12, LocalStep

-----------------------------------------------------------------------------
(***************************************************************************)
(* Computing.                                                              *)
(***************************************************************************)

\* What the counters say of each other.
LEMMA Counters ==
  ASSUME IInv, NEW s \in Stages
  PROVE  /\ TypeOK /\ Shape /\ StageInv(s)
         /\ args.exact \in BOOLEAN /\ args.bf16 \in BOOLEAN
         /\ s \in Nat /\ P \in Nat /\ P - s \in Nat \ {0} /\ ~(First(s) /\ Last(s))
         /\ forward[s] \in Nat /\ backward[s] \in Nat /\ weight[s] \in Nat
         /\ fwd[s] \in Seq(Nat) /\ bwd[s] \in Seq(Nat)
         /\ Len(fwd[s]) \in Nat /\ Len(bwd[s]) \in Nat
         /\ backward[s] <= forward[s] /\ forward[s] - backward[s] <= P - s - 1
         /\ weight[s] <= backward[s] /\ forward[s] - weight[s] <= P - 1
         /\ forward[s] <= M /\ M \in Nat
         /\ First(s) => weight[s] = backward[s]
         /\ Last(s) => backward[s] = forward[s]
<1>1. TypeOK /\ Shape /\ StageInv(s)
  BY DEF IInv
<1>2. /\ fwd[s] \in Seq(Nat) /\ bwd[s] \in Seq(Nat)
      /\ forward[s] \in Nat /\ backward[s] \in Nat /\ weight[s] \in Nat
  BY <1>1 DEF TypeOK
<1>3. /\ args.exact \in BOOLEAN /\ args.bf16 \in BOOLEAN
      /\ s \in Nat /\ P \in Nat /\ P - s \in Nat \ {0} /\ ~(First(s) /\ Last(s)) /\ M \in Nat
  BY <1>1, CallType DEF TypeOK, First, Last
<1> DEFINE A == Min2(P - s - 1, M)
           C == Min2(P - 1, M)
<1>4. /\ A \in 0 .. M /\ C \in 0 .. M /\ A <= C /\ A <= P - s - 1 /\ C <= P - 1
      /\ First(s) => A = C
      /\ Last(s) => A = 0
  BY <1>1, Lengths DEF TypeOK
<1> DEFINE f == forward[s]
           b == backward[s]
           w == weight[s]
<1>5. \/ f <= A /\ b = 0 /\ w = 0
      \/ A <= f /\ f <= C /\ b = f - A /\ w = 0
      \/ C <= f /\ f <= M /\ b = f - A /\ w = f - C
      \/ f = M /\ M - A <= b /\ b <= M /\ w = b + A - C
      \/ f = M /\ b = M /\ M + A - C <= w /\ w <= M
  BY <1>1 DEF StageInv, CountInv
<1> HIDE DEF A, C
<1>6. /\ backward[s] <= forward[s] /\ forward[s] - backward[s] <= A
      /\ weight[s] <= backward[s] /\ forward[s] - weight[s] <= C
      /\ forward[s] <= M
      /\ A = C => weight[s] = backward[s]
      /\ A = 0 => backward[s] = forward[s]
  <2>1. f \in Nat /\ b \in Nat /\ w \in Nat
    BY <1>2
  <2> HIDE DEF f, b, w
  <2>2. /\ b <= f /\ f - b <= A /\ w <= b /\ f - w <= C /\ f <= M
        /\ A = C => w = b
        /\ A = 0 => b = f
    BY <1>3, <1>4, <1>5, <2>1
  <2> QED BY <2>2 DEF f, b, w
<1> QED BY SMTT(60), <1>1, <1>2, <1>3, <1>4, <1>6

\* TypeOK, variable by variable.
Types ==
  /\ args \in Calls
  /\ forward \in [Stages -> Nat] /\ backward \in [Stages -> Nat]
  /\ weight \in [Stages -> Nat] /\ ended \in [Stages -> BOOLEAN]
  /\ loaded \in [Stages -> Nat] /\ grad_layer \in [Stages -> Nat] /\ loss \in Nat
  /\ \A s \in Stages : cmds[s] \in Seq([op : Ops, buffer : 0 .. P-s-1])
  /\ \A s \in Stages : pipe_buffers[s] \in [0 .. P-s-1 -> Tensors]
  /\ acts \in [Stages -> Seq(Nat)] /\ grads \in [Stages -> Seq(Nat)]
  /\ cache \in [Stages -> Seq(Nat)] /\ weight_grad_queue \in [Stages -> Seq(Seq(Nat))]
  /\ fwd \in [Stages -> Seq(Nat)] /\ bwd \in [Stages -> Seq(Nat)]
  /\ lp_grad \in [Stages -> Grads] /\ hp_grad \in [Stages -> Grads]

\* Types says what TypeOK says, one variable at a time.
LEMMA TypesFlat == (TypeOK => Types) /\ (Types' => TypeOK')
<1>1. TypeOK => Types
  BY DEF TypeOK, Types, Tensors
<1>2. Types' => TypeOK'
  BY DEF TypeOK, Types, Tensors
<1> QED BY <1>1, <1>2

\* The microbatches outstanding are in different buffers.
LEMMA Buffers ==
  ASSUME NEW s \in Stages, NEW i \in Nat, NEW j \in Nat, i < j, j - i <= P - s - 1
  PROVE  BufferId(s, i) # BufferId(s, j)
<1> DEFINE d == P - s
<1>1. d \in Nat \ {0} /\ j - i < d /\ i - j < d
  BY PAssumption DEF Stages
<1>2. ASSUME i % d = j % d PROVE FALSE
  <2> HIDE DEF d
  <2>1. i = j
    BY <1>1, <1>2, Residue
  <2> QED BY <2>1
<1> QED BY <1>2 DEF BufferId

\* Only buffer b of stage s is written, with r.
Writes(s, b, r) ==
  /\ pipe_buffers' = [t \in Stages |-> pipe_buffers'[t]]
  /\ \A t \in Stages \ {s} : pipe_buffers'[t] = pipe_buffers[t]
  /\ pipe_buffers'[s] \in [0 .. P-s-1 -> Tensors]
  /\ pipe_buffers'[s][b] = r
  /\ \A c \in 0 .. P-s-1 : c # b => pipe_buffers'[s][c] = pipe_buffers[s][c]

\* The assignment of one slot of a buffer writes that slot and no other.
LEMMA WriteFacts ==
  ASSUME TypeOK, Shape, NEW s \in Stages, NEW b \in 0 .. P-s-1, NEW r \in Tensors,
         pipe_buffers' = [pipe_buffers EXCEPT ![s] = [pipe_buffers[s] EXCEPT ![b] = r]]
  PROVE  Writes(s, b, r)
<1>1. pipe_buffers = [t \in Stages |-> pipe_buffers[t]]
  BY DEF Shape
<1>2. pipe_buffers[s] \in [0 .. P-s-1 -> Tensors]
  BY DEF TypeOK, Tensors
<1> HIDE DEF Tensors
<1>3. pipe_buffers'[s] = [pipe_buffers[s] EXCEPT ![b] = r]
  BY <1>1
<1>4. /\ pipe_buffers' = [t \in Stages |-> pipe_buffers'[t]]
      /\ \A t \in Stages \ {s} : pipe_buffers'[t] = pipe_buffers[t]
  BY <1>1
<1> QED BY <1>2, <1>3, <1>4 DEF Writes

\* What the invariant says of the instruction a stage executes.
LEMMA Executing ==
  ASSUME IInv, NEW s \in Stages, NEW op, Exec(s, op), UNCHANGED <<args, schedule>>
  PROVE  /\ op \in Ops /\ op \in Left(s) /\ Left(s) \subseteq Ops
         /\ Left(s)' = Left(s) \ {op}
         /\ \A x \in Left(s) : x = op \/ Position[op] < Position[x]
         /\ Buffer(s) = BufferOf(s, op, forward[s], backward[s])
         /\ Buffer(s) \in 0 .. P-s-1
         /\ \A t \in Stages : cmds'[t] \in Seq([op : Ops, buffer : 0 .. P-t-1])
         /\ forward' = forward /\ backward' = backward /\ weight' = weight
         /\ ended' = ended /\ M' = M
<1>1. /\ forward' = forward /\ backward' = backward /\ weight' = weight
      /\ ended' = ended /\ M' = M
  BY DEF schedule, M
<1>2. /\ cmds = [t \in Stages |-> cmds[t]]
      /\ cmds' = [cmds EXCEPT ![s] = Tail(@)] /\ Executes(s, op)
  BY DEF Exec, IInv, Shape
<1>3. cmds'[s] = Tail(cmds[s]) /\ \A t \in Stages \ {s} : cmds'[t] = cmds[t]
  BY <1>2
<1>4. /\ op \in Ops /\ op \in Left(s) /\ Left(s) \subseteq Ops
      /\ Left(s)' = Left(s) \ {op}
      /\ \A x \in Left(s) : x = op \/ Position[op] < Position[x]
      /\ Buffer(s) = BufferOf(s, op, forward[s], backward[s])
  BY <1>1, <1>2, <1>3, Execution
<1>5. \A t \in Stages : cmds[t] \in Seq([op : Ops, buffer : 0 .. P-t-1])
  BY DEF IInv, TypeOK
<1> DEFINE T == [op : Ops, buffer : 0 .. P-s-1]
<1>6. cmds[s] \in Seq(T) /\ cmds[s] # <<>>
  BY <1>2, <1>5 DEF Executes
<1>7. Tail(cmds[s]) \in Seq(T) /\ Head(cmds[s]) \in T
  <2> HIDE DEF T
  <2> QED BY <1>6
<1>8. \A t \in Stages : cmds'[t] \in Seq([op : Ops, buffer : 0 .. P-t-1])
  BY <1>3, <1>5, <1>7
<1>9. Buffer(s) \in 0 .. P-s-1
  BY <1>7 DEF Buffer
<1> QED BY <1>1, <1>4, <1>8, <1>9

\* Instructions other than those on gradients leave GradInv as it is.
LEMMA GradFrame ==
  ASSUME IInv, NEW s \in Stages, NEW op, Left(s)' = Left(s) \ {op},
         op \notin {"BackwardPass", "BackwardOnlyPass", "WeightPass", "ReduceGrads"},
         args' = args, weight'[s] = weight[s], bwd'[s] = bwd[s], cache'[s] = cache[s],
         weight_grad_queue'[s] = weight_grad_queue[s], lp_grad'[s] = lp_grad[s],
         hp_grad'[s] = hp_grad[s]
  PROVE  GradInv(s)'
<1>1. GradInv(s)
  BY DEF IInv, StageInv
<1>2. Accumulated(s)' = Accumulated(s)
  BY DEF Accumulated
<1>3. Applied(s)' = Applied(s)
  BY DEF Applied, Pending
<1>4. /\ "OptimizerStep" \in Left(s)' => "OptimizerStep" \in Left(s)
      /\ "ReduceGrads" \in Left(s)' <=> "ReduceGrads" \in Left(s)
  OBVIOUS
<1> QED BY <1>1, <1>2, <1>3, <1>4, ZenonT(40) DEF GradInv, IsRun

\* Filling the buffer of the microbatch in work spares those outstanding.
LEMMA FillKeeps ==
  ASSUME IInv, NEW s \in Stages, NEW r, Writes(s, BufferId(s, forward[s] - 1), r),
         NEW m \in Len(bwd[s]) + 1 .. Len(fwd[s]), m < forward[s]
  PROVE  Held(s, m)' = Held(s, m)
<1> DEFINE f == forward[s]
           b == backward[s]
<1>1. /\ f \in Nat /\ b \in Nat /\ f - b <= P - s - 1 /\ m \in Nat /\ b <= m
      /\ P - s - 1 \in Nat
  <2>1. Len(bwd[s]) = b - Pending(s, Passes)
    BY DEF IInv, StageInv, PassInv
  <2>2. Pending(s, Passes) \in {0, 1}
    BY DEF Pending
  <2>3. /\ f \in Nat /\ b \in Nat /\ f - b <= P - s - 1 /\ P - s \in Nat \ {0}
        /\ s \in Nat /\ P \in Nat /\ Len(bwd[s]) \in Nat /\ Len(fwd[s]) \in Nat
    BY Counters
  <2> HIDE DEF f, b
  <2> QED BY <2>1, <2>2, <2>3
<1>2. BufferId(s, m - 1) # BufferId(s, f - 1)
  <2> DEFINE i == m - 1
             j == f - 1
  <2>1. i \in Int /\ j \in Nat /\ i < j /\ j - i <= P - s - 1
    BY <1>1
  <2>2. i \in Nat
    <3>1. m >= 1
      BY Counters
    <3> QED BY <1>1, <3>1
  <2> HIDE DEF i, j
  <2>3. BufferId(s, i) # BufferId(s, j)
    BY <2>1, <2>2, Buffers
  <2> QED BY <2>3 DEF i, j
<1>3. BufferId(s, m - 1) \in 0 .. P-s-1
  BY SMTT(60), BufferIdType
<1> QED BY <1>2, <1>3 DEF Writes, Held

\* Loading a microbatch preserves IInv.
LEMMA LoadStep ==
  ASSUME IInv, NEW s \in Stages, LoadMicroBatch(s)
  PROVE  IInv'
<1> DEFINE op == "LoadMicroBatch"
           f == forward[s]
           b == BufferId(s, f - 1)
           L == Left(s)
<1>1. Exec(s, op) /\ UNCHANGED <<args, schedule, links>>
  BY DEF LoadMicroBatch
<1>2. /\ op \in L /\ L \subseteq Ops /\ L' = L \ {op}
      /\ \A x \in L : x = op \/ Position[op] < Position[x]
      /\ Buffer(s) = BufferOf(s, op, f, backward[s]) /\ Buffer(s) \in 0 .. P-s-1
      /\ \A t \in Stages : cmds'[t] \in Seq([op : Ops, buffer : 0 .. P-t-1])
      /\ forward' = forward /\ backward' = backward /\ weight' = weight /\ ended' = ended
  BY <1>1, Executing
<1>3. /\ Buffer(s) = b /\ "ForwardPass" \in L /\ "RecvActivation" \notin L
      /\ (First(s) \/ Last(s)) /\ f > 0
      /\ loaded[s] = f - 1 /\ Len(fwd[s]) = f - 1
  <2>1. Buffer(s) = b
    BY <1>2 DEF BufferOf, ForwardOps
  <2>2. "RecvActivation" \notin L
    BY <1>2, Positions
  <2>3. LeftInv(s) /\ PassInv(s)
    BY DEF IInv, StageInv
  <2>4. "ForwardPass" \in L /\ (First(s) \/ Last(s)) /\ f > 0
    BY <1>2, <2>3 DEF LeftInv, ForwardOps
  <2> QED BY <1>2, <2>1, <2>2, <2>3, <2>4 DEF PassInv, Pending
<1>4. /\ TypeOK /\ Shape /\ f \in Nat /\ ~(First(s) /\ Last(s))
      /\ pipe_buffers[s] \in [0 .. P-s-1 -> Tensors]
  BY Counters DEF TypeOK, Tensors
<1> DEFINE r == IF First(s) THEN [pipe_buffers[s][b] EXCEPT !.inputs = f]
                ELSE [pipe_buffers[s][b] EXCEPT !.labels = f]
<1>5. Writes(s, b, r)
  <2>1. b \in 0 .. P-s-1 /\ loaded[s] + 1 = f
    BY <1>2, <1>3, <1>4
  <2>2. r \in Tensors
    BY <1>4, <2>1 DEF Tensors
  <2>3. pipe_buffers' = [pipe_buffers EXCEPT ![s] = [pipe_buffers[s] EXCEPT ![b] = r]]
    BY <1>3, <2>1 DEF LoadMicroBatch
  <2> HIDE DEF r, b
  <2> QED BY <1>4, <2>1, <2>2, <2>3, WriteFacts
<1>6. /\ loaded' = [loaded EXCEPT ![s] = f] /\ loaded' \in [Stages -> Nat] /\ loaded'[s] = f
  <2>1. loaded \in [Stages -> Nat] /\ loaded[s] + 1 = f
    BY <1>3, <1>4 DEF TypeOK
  <2> QED BY <1>4, <2>1 DEF LoadMicroBatch
<1>7. /\ grad_layer' = grad_layer /\ loss' = loss /\ acts' = acts /\ grads' = grads
      /\ cache' = cache /\ weight_grad_queue' = weight_grad_queue
      /\ lp_grad' = lp_grad /\ hp_grad' = hp_grad /\ fwd' = fwd /\ bwd' = bwd
      /\ args' = args
  BY DEF LoadMicroBatch, links, store, params
<1>8. PassInv(s)'
  <2>1. PassInv(s)
    BY DEF IInv, StageInv
  <2>2. /\ Pending(s, {"ForwardPass"})' = Pending(s, {"ForwardPass"})
        /\ Pending(s, Passes)' = Pending(s, Passes)
        /\ Pending(s, {"LoadMicroBatch"})' = 0
    BY <1>2 DEF Pending, Passes
  <2> QED BY <1>2, <1>4, <1>6, <1>7, <2>1, <2>2 DEF PassInv, IsRun
<1>9. BufferInv(s)'
  <2>1. BufferInv(s)
    BY DEF IInv, StageInv
  <2>2. \A m \in Len(bwd[s]) + 1 .. Len(fwd[s]) : Held(s, m)' = Held(s, m)
    <3>1. \A m \in Len(bwd[s]) + 1 .. Len(fwd[s]) : m < forward[s]
      BY <1>3, Counters
    <3> HIDE DEF r
    <3> QED BY <1>5, <3>1, FillKeeps
  <2>3. Held(s, f)' = r /\ r.input_grad = Held(s, f).input_grad
        /\ (First(s) => r.inputs = f) /\ (~First(s) => r.labels = f /\ r.inputs = Held(s, f).inputs)
    BY <1>2, <1>3, <1>4, <1>5 DEF Writes, Held, Tensors
  <2>4. Held(s, backward[s])'.input_grad = Held(s, backward[s]).input_grad
    <3>1. backward[s] - 1 \in Int /\ backward'[s] = backward[s]
      BY <1>2, Counters
    <3>2. BufferId(s, backward[s] - 1) \in 0 .. P-s-1
      BY <3>1, BufferIdType
    <3>3. CASE BufferId(s, backward[s] - 1) = b
      BY <1>2, <2>3, <3>1, <3>3 DEF Held
    <3>4. CASE BufferId(s, backward[s] - 1) # b
      BY <3>1, <3>2, <3>4, <1>5 DEF Writes, Held
    <3> QED BY <3>3, <3>4
  <2>5. L \cap Passes # {} <=> L' \cap Passes # {}
    BY <1>2 DEF Passes
  <2>6. \A m \in Len(bwd[s]) + 1 .. Len(fwd[s]) : Held(s, m)'.inputs = m /\ Held(s, m)'.outputs = m
    BY <2>1, <2>2 DEF BufferInv
  <2>7. /\ First(s) => r.inputs = f
        /\ ~First(s) => r.inputs = f /\ r.labels = f
    BY <1>3, <2>1, <2>3 DEF BufferInv
  <2>8. "SendGrad" \in L' /\ L' \cap Passes = {} => Held(s, backward[s])'.input_grad = backward[s]
    BY <1>2, <2>1, <2>4, <2>5 DEF BufferInv
  <2>9. /\ ~Last(s) /\ L' \cap Passes # {} /\ "RecvGrad" \notin L' => grad_layer[s] = backward[s]
        /\ Last(s) => loss = Len(fwd[s])
    BY <1>2, <2>1, <2>5 DEF BufferInv
  <2> HIDE DEF r
  <2> QED BY <1>2, <1>3, <1>4, <1>7, <2>3, <2>6, <2>7, <2>8, <2>9 DEF BufferInv
<1>10. GradInv(s)'
  BY <1>2, <1>7, GradFrame
<1>11. TypeOK'
  <2>1. \A t \in Stages : pipe_buffers'[t] \in [0 .. P-t-1 -> Tensors]
    BY <1>4, <1>5 DEF Writes, TypeOK, Tensors
  <2>2. Types
    BY <1>4, TypesFlat
  <2>3. Types'
    BY <1>2, <1>6, <1>7, <2>1, <2>2 DEF Types
  <2> QED BY <2>3, TypesFlat
<1>12. \A t \in Stages \ {s} : loaded'[t] = loaded[t]
  BY <1>4 DEF LoadMicroBatch, TypeOK
<1> QED BY <1>1, <1>5, <1>7, <1>8, <1>9, <1>10, <1>11, <1>12, ComputeStep DEF Writes

\* A forward pass preserves IInv: it runs on microbatch f.
LEMMA ForwardValue ==
  ASSUME IInv, NEW s \in Stages, ForwardPass(s)
  PROVE  /\ Buffer(s) = BufferId(s, forward[s] - 1) /\ forward[s] > 0
         /\ Held(s, forward[s]).inputs = forward[s]
         /\ Last(s) => Held(s, forward[s]).labels = forward[s]
         /\ Len(fwd[s]) = forward[s] - 1
<1> DEFINE L == Left(s)
           op == "ForwardPass"
<1>1. Exec(s, op) /\ UNCHANGED <<args, schedule>>
  BY DEF ForwardPass
<1>2. /\ op \in L /\ \A x \in L : x = op \/ Position[op] < Position[x]
      /\ Buffer(s) = BufferOf(s, op, forward[s], backward[s])
  BY <1>1, Executing
<1>3. "RecvActivation" \notin L /\ "LoadMicroBatch" \notin L
  BY <1>2, Positions
<1>4. LeftInv(s) /\ PassInv(s) /\ BufferInv(s)
  BY DEF IInv, StageInv
<1>5. forward[s] > 0
  BY <1>2, <1>4 DEF LeftInv, ForwardOps
<1>6. Len(fwd[s]) = forward[s] - 1
  BY <1>2, <1>4 DEF PassInv, Pending
<1>7. Buffer(s) = BufferId(s, forward[s] - 1)
  BY <1>2 DEF BufferOf, ForwardOps
<1> QED BY <1>2, <1>3, <1>4, <1>5, <1>6, <1>7 DEF BufferInv

\* ForwardPass keeps the invariant.
LEMMA ForwardStep ==
  ASSUME IInv, NEW s \in Stages, ForwardPass(s)
  PROVE  IInv'
<1> DEFINE op == "ForwardPass"
           f == forward[s]
           b == BufferId(s, f - 1)
           L == Left(s)
<1>1. Exec(s, op) /\ UNCHANGED <<args, schedule, links>>
  BY DEF ForwardPass
<1>2. /\ op \in L /\ L \subseteq Ops /\ L' = L \ {op}
      /\ \A x \in L : x = op \/ Position[op] < Position[x]
      /\ Buffer(s) \in 0 .. P-s-1
      /\ \A t \in Stages : cmds'[t] \in Seq([op : Ops, buffer : 0 .. P-t-1])
      /\ forward' = forward /\ backward' = backward /\ weight' = weight /\ ended' = ended
  BY <1>1, Executing
<1>3. /\ Buffer(s) = b /\ f > 0 /\ Held(s, f).inputs = f
      /\ Last(s) => Held(s, f).labels = f
      /\ Len(fwd[s]) = f - 1
  BY ForwardValue
<1>4. /\ TypeOK /\ Shape /\ f \in Nat /\ ~(First(s) /\ Last(s)) /\ fwd[s] \in Seq(Nat)
      /\ Len(bwd[s]) \in Nat
  BY Counters
<1>5. Types
  BY <1>4, TypesFlat
<1>6. pipe_buffers[s] \in [0 .. P-s-1 -> Tensors]
  BY <1>5 DEF Types
<1> DEFINE r == [pipe_buffers[s][b] EXCEPT !.outputs = f]
<1>7. Writes(s, b, r)
  <2>1. b \in 0 .. P-s-1 /\ pipe_buffers[s][b].inputs = f
    BY <1>2, <1>3 DEF Held
  <2>2. r \in Tensors
    BY <1>4, <1>6, <2>1 DEF Tensors
  <2>3. pipe_buffers' = [pipe_buffers EXCEPT ![s] = [pipe_buffers[s] EXCEPT ![b] = r]]
    BY <1>3, <2>1 DEF ForwardPass
  <2> HIDE DEF r, b
  <2> QED BY <1>4, <2>1, <2>2, <2>3, WriteFacts
<1>8. /\ fwd' = [fwd EXCEPT ![s] = Append(@, f)]
      /\ loss' = IF Last(s) THEN f ELSE loss
  BY <1>3 DEF ForwardPass, Held
<1>9. /\ fwd' \in [Stages -> Seq(Nat)] /\ fwd'[s] \in Seq(Nat) /\ Len(fwd'[s]) = f
      /\ IsRun(fwd'[s], 0)
      /\ \A t \in Stages \ {s} : fwd'[t] = fwd[t]
  <2>1. PassInv(s)
    BY DEF IInv, StageInv
  <2>2. IsRun(fwd[s], 0) /\ f = 0 + Len(fwd[s]) + 1
    BY <1>3, <1>4, <2>1 DEF PassInv
  <2> DEFINE q == Append(fwd[s], f)
  <2>3. q \in Seq(Nat) /\ Len(q) = Len(fwd[s]) + 1 /\ IsRun(q, 0)
    BY <1>4, <2>2, RunAppend
  <2>4. fwd' = [fwd EXCEPT ![s] = q] /\ fwd \in [Stages -> Seq(Nat)]
    BY <1>5, <1>8 DEF Types
  <2> HIDE DEF q
  <2> QED BY <1>3, <1>4, <2>3, <2>4
<1>10. /\ grad_layer' = grad_layer /\ loaded' = loaded /\ acts' = acts /\ grads' = grads
       /\ cache' = cache /\ weight_grad_queue' = weight_grad_queue
       /\ lp_grad' = lp_grad /\ hp_grad' = hp_grad /\ bwd' = bwd
       /\ args' = args
  BY DEF ForwardPass, links, store, params
<1>11. PassInv(s)'
  <2>1. PassInv(s)
    BY DEF IInv, StageInv
  <2>2. /\ Pending(s, {"ForwardPass"})' = 0
        /\ Pending(s, Passes)' = Pending(s, Passes)
        /\ Pending(s, {"LoadMicroBatch"})' = Pending(s, {"LoadMicroBatch"})
    BY <1>2 DEF Pending, Passes
  <2> QED BY <1>2, <1>4, <1>9, <1>10, <2>1, <2>2 DEF PassInv, IsRun
<1>12. BufferInv(s)'
  <2>1. BufferInv(s)
    BY DEF IInv, StageInv
  <2>2. \A m \in Len(bwd[s]) + 1 .. Len(fwd[s]) : Held(s, m)' = Held(s, m)
    <3>1. \A m \in Len(bwd[s]) + 1 .. Len(fwd[s]) : m < forward[s]
      BY <1>3, <1>4
    <3> HIDE DEF r
    <3> QED BY <1>7, <3>1, FillKeeps
  <2>3. Held(s, f)' = r /\ r.input_grad = Held(s, f).input_grad /\ r.inputs = f /\ r.outputs = f
    BY <1>2, <1>3, <1>6, <1>7 DEF Writes, Held, Tensors
  <2>4. Held(s, backward[s])'.input_grad = Held(s, backward[s]).input_grad
    <3>1. backward[s] - 1 \in Int /\ backward'[s] = backward[s]
      BY <1>2, Counters
    <3>2. BufferId(s, backward[s] - 1) \in 0 .. P-s-1
      BY <3>1, BufferIdType
    <3>3. CASE BufferId(s, backward[s] - 1) = b
      BY <1>2, <2>3, <3>1, <3>3 DEF Held
    <3>4. CASE BufferId(s, backward[s] - 1) # b
      BY <3>1, <3>2, <3>4, <1>7 DEF Writes, Held
    <3> QED BY <3>3, <3>4
  <2>5. L \cap Passes # {} <=> L' \cap Passes # {}
    BY <1>2 DEF Passes
  <2>6. \A m \in Len(bwd[s]) + 1 .. f : Held(s, m)'.inputs = m /\ Held(s, m)'.outputs = m
    <3>1. \A m \in Len(bwd[s]) + 1 .. f : m = f \/ m \in Len(bwd[s]) + 1 .. Len(fwd[s])
      BY <1>3, <1>4
    <3>2. \A m \in Len(bwd[s]) + 1 .. Len(fwd[s]) :
            Held(s, m)'.inputs = m /\ Held(s, m)'.outputs = m
      BY <2>1, <2>2 DEF BufferInv
    <3> QED BY <1>2, <2>3, <3>1, <3>2
  <2>7. "SendGrad" \in L' /\ L' \cap Passes = {} => Held(s, backward[s])'.input_grad = backward[s]
    BY <1>2, <2>1, <2>4, <2>5 DEF BufferInv
  <2>8. ~Last(s) /\ L' \cap Passes # {} /\ "RecvGrad" \notin L' => grad_layer[s] = backward[s]
    BY <1>2, <2>1, <2>5 DEF BufferInv
  <2> HIDE DEF r
  <2> QED BY <1>2, <1>8, <1>9, <1>10, <2>6, <2>7, <2>8 DEF BufferInv
<1>13. GradInv(s)'
  BY <1>2, <1>10, GradFrame
<1>14. TypeOK'
  <2>1. \A t \in Stages : pipe_buffers'[t] \in [0 .. P-t-1 -> Tensors]
    BY <1>5, <1>7 DEF Writes, Types
  <2>2. loss' \in Nat
    BY <1>4, <1>5, <1>8 DEF Types
  <2>3. Types'
    BY <1>2, <1>5, <1>9, <1>10, <2>1, <2>2 DEF Types
  <2> QED BY <2>3, TypesFlat
<1> QED BY <1>1, <1>7, <1>8, <1>9, <1>10, <1>11, <1>12, <1>13, <1>14, ComputeStep DEF Writes

\* Appending a sequence of one element.
LEMMA ConcatOne ==
  ASSUME NEW a \in Seq(Nat), NEW h \in Seq(Nat), Len(h) = 1
  PROVE  /\ a \o h \in Seq(Nat) /\ Len(a \o h) = Len(a) + 1
         /\ \A k \in 1 .. Len(a) : (a \o h)[k] = a[k]
         /\ (a \o h)[Len(a) + 1] = h[1]
<1>1. /\ a \o h \in Seq(Nat) /\ Len(a \o h) = Len(a) + Len(h) /\ Len(a) \in Nat
      /\ \A k \in 1 .. Len(a) + Len(h) :
           (a \o h)[k] = IF k <= Len(a) THEN a[k] ELSE h[k - Len(a)]
  <2>1. Len(a) \in Nat
    OBVIOUS
  <2>2. /\ a \o h \in Seq(Nat) /\ Len(a \o h) = Len(a) + Len(h)
        /\ \A k \in 1 .. Len(a) + Len(h) :
             (a \o h)[k] = IF k <= Len(a) THEN a[k] ELSE h[k - Len(a)]
    BY ConcatProperties, Zenon
  <2> QED BY <2>1, <2>2
<1> DEFINE r == a \o h
<1>2. /\ Len(a) \in Nat /\ Len(h) = 1
      /\ \A k \in 1 .. Len(a) + 1 : r[k] = IF k <= Len(a) THEN a[k] ELSE h[k - Len(a)]
  BY <1>1
<1> HIDE DEF r
<1>3. \A k \in 1 .. Len(a) : r[k] = a[k]
  BY <1>2
<1>4. r[Len(a) + 1] = h[1]
  <2>1. Len(a) + 1 \in 1 .. Len(a) + 1 /\ ~(Len(a) + 1 <= Len(a)) /\ Len(a) + 1 - Len(a) = 1
    BY <1>2
  <2> QED BY <1>2, <2>1
<1> QED BY <1>1, <1>3, <1>4 DEF r

\* A run grows by the next number.
LEMMA ConcatRun ==
  ASSUME NEW a \in Seq(Nat), NEW h \in Seq(Nat), Len(h) = 1, IsRun(a, 0), h[1] = Len(a) + 1
  PROVE  IsRun(a \o h, 0)
<1> DEFINE r == a \o h
<1>1. /\ r \in Seq(Nat) /\ Len(r) = Len(a) + 1 /\ Len(a) \in Nat
      /\ \A k \in 1 .. Len(a) : r[k] = a[k]
      /\ r[Len(a) + 1] = h[1]
  BY ConcatOne
<1> HIDE DEF r
<1>2. \A k \in 1 .. Len(r) : k \in 1 .. Len(a) \/ k = Len(a) + 1
  BY <1>1
<1>3. \A k \in 1 .. Len(a) : a[k] = k
  BY DEF IsRun
<1>4. ASSUME NEW k \in 1 .. Len(r) PROVE r[k] = 0 + k
  <2>1. CASE k \in 1 .. Len(a)
    <3>1. r[k] = a[k] /\ a[k] = k /\ k \in Int
      BY <1>1, <1>3, <2>1
    <3> QED BY <3>1
  <2>2. CASE k = Len(a) + 1
    BY <1>1, <2>2
  <2> QED BY <1>2, <2>1, <2>2
<1> QED BY <1>4 DEF IsRun, r

\* What an accumulation adds, to the gradients it is meant for.
LEMMA Accumulation ==
  ASSUME Types, NEW s \in Stages, NEW g \in Grads, Accumulate(s, g), args' = args
  PROVE  /\ Accumulated(s)' = Join(Accumulated(s), g)
         /\ Accumulated(s).weight \in Seq(Nat) /\ Accumulated(s).other \in Seq(Nat)
         /\ lp_grad' \in [Stages -> Grads] /\ hp_grad' \in [Stages -> Grads]
         /\ \A t \in Stages \ {s} : lp_grad'[t] = lp_grad[t] /\ hp_grad'[t] = hp_grad[t]
<1>1. lp_grad \in [Stages -> Grads] /\ hp_grad \in [Stages -> Grads]
  BY DEF Types
<1>2. /\ lp_grad[s] \in Grads /\ hp_grad[s] \in Grads
      /\ \A h \in Grads : Join(h, g) \in Grads
  BY <1>1 DEF Join, Grads
<1>3. Accumulated(s) \in Grads
  BY <1>2 DEF Accumulated
<1>4. Accumulated(s).weight \in Seq(Nat) /\ Accumulated(s).other \in Seq(Nat)
  BY <1>3 DEF Grads
<1>5. CASE args.bf16
  <2>1. /\ lp_grad' = [lp_grad EXCEPT ![s] = g]
        /\ hp_grad' = [hp_grad EXCEPT ![s] = Join(hp_grad[s], g)]
    BY <1>5 DEF Accumulate
  <2>2. Accumulated(s)' = Join(Accumulated(s), g)
    BY <1>1, <1>5, <2>1 DEF Accumulated
  <2> QED BY <1>1, <1>2, <1>4, <2>1, <2>2
<1>6. CASE ~args.bf16
  <2>1. lp_grad' = [lp_grad EXCEPT ![s] = Join(lp_grad[s], g)] /\ hp_grad' = hp_grad
    BY <1>6 DEF Accumulate
  <2>2. Accumulated(s)' = Join(Accumulated(s), g)
    BY <1>1, <1>6, <2>1 DEF Accumulated
  <2> QED BY <1>1, <1>2, <1>4, <2>1, <2>2
<1> QED BY <1>5, <1>6

\* Writing to the buffer of the microbatch that comes or came last out
\* spares those outstanding.
LEMMA EmptyKeeps ==
  ASSUME IInv, NEW s \in Stages, NEW r, Writes(s, BufferId(s, backward[s] - 1), r),
         backward[s] > 0, NEW m \in Nat, backward[s] < m, m <= forward[s]
  PROVE  Held(s, m)' = Held(s, m)
<1> DEFINE i == backward[s] - 1
           j == m - 1
<1>1. i \in Nat /\ j \in Nat /\ i < j /\ j - i <= P - s - 1
  <2>1. /\ forward[s] \in Nat /\ backward[s] \in Nat /\ s \in Nat /\ P \in Nat
        /\ forward[s] - backward[s] <= P - s - 1
    BY Counters
  <2> QED BY <2>1
<1>2. BufferId(s, i) # BufferId(s, j) /\ BufferId(s, j) \in 0 .. P-s-1
  <2> HIDE DEF i, j
  <2> QED BY <1>1, Buffers, BufferIdType
<1> QED BY <1>2 DEF Writes, Held

\* A backward pass runs on microbatch b, with its gradient.
LEMMA GradientValue ==
  ASSUME IInv, NEW s \in Stages, NEW op \in Passes, Exec(s, op), UNCHANGED <<args, schedule>>
  PROVE  /\ Buffer(s) = BufferId(s, backward[s] - 1) /\ backward[s] > 0
         /\ Gradient(s) = backward[s]
         /\ Len(bwd[s]) = backward[s] - 1 /\ Len(fwd[s]) = forward[s]
         /\ "ForwardPass" \notin Left(s)
         /\ "OptimizerStep" \notin Left(s)
<1> DEFINE L == Left(s)
           b == backward[s]
<1>1. /\ op \in L /\ L \subseteq Ops
      /\ \A x \in L : x = op \/ Position[op] < Position[x]
      /\ Buffer(s) = BufferOf(s, op, forward[s], b)
  BY Executing
<1>2. op \in {"BackwardPass", "BackwardOnlyPass"} /\ Position[op] = 6
  BY Positions DEF Passes
<1>3. "ForwardPass" \notin L /\ "RecvGrad" \notin L
  BY <1>1, <1>2, Positions
<1>4. LeftInv(s) /\ PassInv(s) /\ BufferInv(s)
  BY DEF IInv, StageInv
<1>5. L \cap Passes # {}
  BY <1>1
<1>6. b > 0
  BY <1>1, <1>2, <1>4 DEF LeftInv, BackwardOps
<1>7. "OptimizerStep" \notin L
  BY <1>1, <1>2, <1>4 DEF LeftInv
<1>8. Buffer(s) = BufferId(s, b - 1)
  BY <1>1, <1>2 DEF BufferOf, BackwardOps, ForwardOps
<1>9. Len(bwd[s]) = b - 1 /\ Len(fwd[s]) = forward[s]
  <2>1. Pending(s, Passes) = 1 /\ Pending(s, {"ForwardPass"}) = 0
    BY <1>3, <1>5 DEF Pending
  <2> QED BY <1>4, <2>1, Counters DEF PassInv
<1>10. Held(s, b).inputs = b /\ Held(s, b).outputs = b
  <2>1. b \in Len(bwd[s]) + 1 .. Len(fwd[s])
    BY <1>9, Counters
  <2> QED BY <1>4, <2>1 DEF BufferInv
<1>11. /\ Last(s) => loss = b
       /\ ~Last(s) => grad_layer[s] = b
  BY <1>3, <1>4, <1>5, <1>9, Counters DEF BufferInv
<1>12. Gradient(s) = b
  BY <1>8, <1>10, <1>11 DEF Gradient, Held
<1> QED BY <1>3, <1>6, <1>7, <1>8, <1>9, <1>12

\* The gradient of the input of microbatch b takes the place of its
\* outputs, and b has been passed backward.
LEMMA InputGradientStep ==
  ASSUME IInv, NEW s \in Stages, NEW op \in Passes, Exec(s, op),
         UNCHANGED <<args, schedule>>, InputGradient(s),
         bwd' = [bwd EXCEPT ![s] = Append(@, Gradient(s))],
         fwd' = fwd, loaded' = loaded, grad_layer' = grad_layer, loss' = loss
  PROVE  /\ PassInv(s)' /\ BufferInv(s)' /\ Len(bwd'[s]) = backward[s]
         /\ pipe_buffers' = [t \in Stages |-> pipe_buffers'[t]]
         /\ \A t \in Stages : pipe_buffers'[t] \in [0 .. P-t-1 -> Tensors]
         /\ \A t \in Stages \ {s} : pipe_buffers'[t] = pipe_buffers[t] /\ bwd'[t] = bwd[t]
         /\ bwd' \in [Stages -> Seq(Nat)]
<1> DEFINE f == forward[s]
           n == backward[s]
           b == BufferId(s, n - 1)
           L == Left(s)
<1>1. /\ op \in L /\ L' = L \ {op} /\ Buffer(s) \in 0 .. P-s-1
      /\ forward' = forward /\ backward' = backward /\ weight' = weight /\ ended' = ended
  BY Executing
<1>2. /\ Buffer(s) = b /\ n > 0 /\ Gradient(s) = n /\ Len(bwd[s]) = n - 1 /\ Len(fwd[s]) = f
      /\ "ForwardPass" \notin L
  BY GradientValue
<1>3. /\ TypeOK /\ Shape /\ n \in Nat /\ f \in Nat /\ n <= f /\ bwd[s] \in Seq(Nat)
  BY Counters
<1>4. Types
  BY <1>3, TypesFlat
<1>5. pipe_buffers[s] \in [0 .. P-s-1 -> Tensors]
  BY <1>4 DEF Types
<1> DEFINE old == pipe_buffers[s][b]
           r == [old EXCEPT !.input_grad = n, !.outputs = IF Last(s) THEN @ ELSE None]
<1>6. /\ b \in 0 .. P-s-1 /\ old \in Tensors /\ r \in Tensors
      /\ r.input_grad = n
  <2>1. b \in 0 .. P-s-1
    BY <1>1, <1>2
  <2>2. old \in Tensors
    BY <1>5, <2>1
  <2> HIDE DEF old
  <2> QED BY <1>3, <2>1, <2>2 DEF Tensors, None
<1>7. Writes(s, b, r)
  <2>1. pipe_buffers' = [pipe_buffers EXCEPT ![s] = [pipe_buffers[s] EXCEPT ![b] = r]]
    <3>1. pipe_buffers' = [pipe_buffers EXCEPT
            ![s][b].input_grad = n, ![s][b].outputs = IF Last(s) THEN @ ELSE None]
      BY <1>2 DEF InputGradient
    <3>2. pipe_buffers = [t \in Stages |-> pipe_buffers[t]]
      BY <1>3 DEF Shape
    <3> QED BY <3>1, <3>2, <1>5, <1>6 DEF Tensors
  <2> HIDE DEF r, b
  <2> QED BY <1>3, <1>6, <2>1, WriteFacts
<1>8. /\ bwd' \in [Stages -> Seq(Nat)] /\ bwd'[s] \in Seq(Nat) /\ Len(bwd'[s]) = n
      /\ IsRun(bwd'[s], 0)
      /\ \A t \in Stages \ {s} : bwd'[t] = bwd[t]
  <2>1. PassInv(s)
    BY DEF IInv, StageInv
  <2>2. IsRun(bwd[s], 0) /\ n = 0 + Len(bwd[s]) + 1
    BY <1>2, <1>3, <2>1 DEF PassInv
  <2> DEFINE q == Append(bwd[s], n)
  <2>3. q \in Seq(Nat) /\ Len(q) = Len(bwd[s]) + 1 /\ IsRun(q, 0)
    BY <1>3, <2>2, RunAppend
  <2>4. bwd' = [bwd EXCEPT ![s] = q] /\ bwd \in [Stages -> Seq(Nat)]
    BY <1>2, <1>4 DEF Types
  <2> HIDE DEF q
  <2>5. bwd'[s] = q /\ bwd' \in [Stages -> Seq(Nat)] /\ \A t \in Stages \ {s} : bwd'[t] = bwd[t]
    BY <2>3, <2>4
  <2>6. Len(q) = n
    BY <1>2, <1>3, <2>3
  <2> QED BY <2>3, <2>5, <2>6
<1>9. LeftInv(s) /\ PassInv(s) /\ BufferInv(s)
  BY DEF IInv, StageInv
<1>10. L' \cap Passes = {}
  BY <1>1, <1>9 DEF LeftInv, Passes
<1>11. PassInv(s)'
  <2>1. /\ Pending(s, {"ForwardPass"})' = Pending(s, {"ForwardPass"})
        /\ Pending(s, Passes)' = 0
        /\ Pending(s, {"LoadMicroBatch"})' = Pending(s, {"LoadMicroBatch"})
    BY <1>1, <1>10 DEF Pending, Passes
  <2> QED BY <1>1, <1>3, <1>8, <1>9, <2>1 DEF PassInv, IsRun
<1>12. BufferInv(s)'
  <2>1. \A m \in n + 1 .. f : Held(s, m)' = Held(s, m)
    <3>1. \A m \in n + 1 .. f : m \in Nat /\ n < m /\ m <= f
      BY <1>3
    <3> HIDE DEF r
    <3> QED BY <1>2, <1>7, <3>1, EmptyKeeps
  <2>2. \A m \in n + 1 .. f : Held(s, m).inputs = m /\ Held(s, m).outputs = m
    <3>1. \A m \in n + 1 .. f : m \in Len(bwd[s]) + 1 .. Len(fwd[s])
      BY <1>2, <1>3
    <3> QED BY <1>9, <3>1 DEF BufferInv
  <2>3. Held(s, n)'.input_grad = n
    <3>1. n' = n /\ pipe_buffers'[s][b] = r
      BY <1>1, <1>7 DEF Writes
    <3>2. Held(s, n)' = pipe_buffers'[s][b]
      BY <3>1 DEF Held
    <3> QED BY <1>6, <3>1, <3>2
  <2>4. "ForwardPass" \notin L'
    BY <1>1, <1>2
  <2>5. Last(s) => loss = Len(fwd[s])
    BY <1>9 DEF BufferInv
  <2> HIDE DEF r
  <2> QED BY <1>1, <1>2, <1>8, <1>10, <2>1, <2>2, <2>3, <2>4, <2>5 DEF BufferInv
<1>13. \A t \in Stages : pipe_buffers'[t] \in [0 .. P-t-1 -> Tensors]
  BY <1>4, <1>7 DEF Writes, Types
<1> QED BY <1>7, <1>8, <1>11, <1>12, <1>13 DEF Writes

\* Of n microbatches passed backward, a has the weight gradients of some
\* and q those of the others; with exact semantics, in order.
Whole(a, q, applied, n, exact) ==
  /\ Len(a.weight) = applied /\ Len(q) = n - applied
  /\ Len(a.other) = n /\ IsRun(a.other, 0)
  /\ \A k \in 1 .. Len(q) : Len(q[k]) = 1 /\ q[k][1] \in 1 .. n
  /\ \A k \in 1 .. Len(a.weight) : a.weight[k] \in 1 .. n
  /\ \A m \in 1 .. n : \/ \E k \in 1 .. Len(a.weight) : a.weight[k] = m
                       \/ \E k \in 1 .. Len(q) : q[k][1] = m
  /\ exact => IsRun(a.weight, 0) /\ \A k \in 1 .. Len(q) : q[k][1] = Len(a.weight) + k

\* BackwardPass adds both kinds of gradients of the next microbatch.
LEMMA AddBoth ==
  ASSUME NEW a \in Grads, NEW q \in Seq(Seq(Nat)), NEW applied \in Nat, NEW n \in Nat,
         NEW exact \in BOOLEAN, Whole(a, q, applied, n, exact), exact => n = applied
  PROVE  Whole(Join(a, [weight |-> <<n+1>>, other |-> <<n+1>>]), q, applied + 1, n + 1, exact)
<1> DEFINE h == <<n+1>>
           w == a.weight \o h
           o == a.other \o h
           c == Join(a, [weight |-> h, other |-> h])
<1>1. a.weight \in Seq(Nat) /\ a.other \in Seq(Nat) /\ h \in Seq(Nat) /\ Len(h) = 1 /\ h[1] = n + 1
  BY DEF Grads
<1>2. c.weight = w /\ c.other = o
  BY DEF Join
<1> HIDE DEF h, c
<1>3. /\ w \in Seq(Nat) /\ Len(w) = Len(a.weight) + 1
      /\ \A k \in 1 .. Len(a.weight) : w[k] = a.weight[k]
      /\ w[Len(a.weight) + 1] = n + 1
  BY <1>1, ConcatOne
<1>4. Len(o) = Len(a.other) + 1
  BY <1>1, ConcatOne
<1>5. IsRun(o, 0)
  BY <1>1, ConcatRun DEF Whole
<1>6. exact => IsRun(w, 0)
  BY <1>1, ConcatRun DEF Whole
<1> HIDE DEF w, o
<1>7. Len(a.weight) = applied /\ Len(q) = n - applied /\ Len(a.other) = n
  BY DEF Whole
<1>8. \A k \in 1 .. Len(q) : Len(q[k]) = 1 /\ q[k][1] \in 1 .. n + 1
  BY DEF Whole
<1>9. \A k \in 1 .. Len(w) : w[k] \in 1 .. n + 1
  <2>1. \A k \in 1 .. Len(w) : k \in 1 .. Len(a.weight) \/ k = Len(a.weight) + 1
    BY <1>3, <1>7
  <2>2. \A k \in 1 .. Len(a.weight) : a.weight[k] \in 1 .. n + 1
    BY DEF Whole
  <2>3. n + 1 \in 1 .. n + 1
    OBVIOUS
  <2> QED BY <1>3, <2>1, <2>2, <2>3
<1>10. ASSUME NEW m \in 1 .. n + 1
       PROVE  \/ \E k \in 1 .. Len(w) : w[k] = m
              \/ \E k \in 1 .. Len(q) : q[k][1] = m
  <2>1. \A k \in 1 .. Len(a.weight) : k \in 1 .. Len(w)
    BY <1>3, <1>7
  <2>2. Len(a.weight) + 1 \in 1 .. Len(w)
    BY <1>3, <1>7
  <2>3. CASE m \in 1 .. n
    BY <1>3, <2>1, <2>3 DEF Whole
  <2>4. CASE m = n + 1
    BY <1>3, <2>2, <2>4
  <2> QED BY <2>3, <2>4
<1>11. exact => \A k \in 1 .. Len(q) : q[k][1] = Len(w) + k
  BY <1>7
<1>12. Len(w) = applied + 1 /\ Len(q) = n + 1 - (applied + 1) /\ Len(o) = n + 1
  BY <1>3, <1>4, <1>7
<1>13. Whole(c, q, applied + 1, n + 1, exact)
  BY <1>2, <1>5, <1>6, <1>8, <1>9, <1>10, <1>11, <1>12 DEF Whole
<1> QED BY <1>13 DEF c, h

\* BackwardOnlyPass queues that of the weights.
LEMMA AddOther ==
  ASSUME NEW a \in Grads, NEW q \in Seq(Seq(Nat)), NEW applied \in Nat, NEW n \in Nat,
         NEW exact \in BOOLEAN, Whole(a, q, applied, n, exact)
  PROVE  Whole(Join(a, [weight |-> <<>>, other |-> <<n+1>>]), Append(q, <<n+1>>),
               applied, n + 1, exact)
<1> DEFINE h == <<n+1>>
           o == a.other \o h
           c == Join(a, [weight |-> <<>>, other |-> h])
           r == Append(q, h)
<1>1. a.weight \in Seq(Nat) /\ a.other \in Seq(Nat) /\ h \in Seq(Nat) /\ Len(h) = 1 /\ h[1] = n + 1
  BY DEF Grads
<1>2. c.weight = a.weight /\ c.other = o
  BY <1>1, ConcatEmptySeq DEF Join
<1> HIDE DEF h, c
<1>3. /\ Len(q) \in Nat /\ Len(r) = Len(q) + 1
      /\ \A k \in 1 .. Len(q) : r[k] = q[k]
      /\ r[Len(q) + 1] = h
  BY <1>1
<1>4. Len(o) = Len(a.other) + 1
  BY <1>1, ConcatOne
<1>5. IsRun(o, 0)
  BY <1>1, ConcatRun DEF Whole
<1> HIDE DEF o, r
<1>6. Len(a.weight) = applied /\ Len(q) = n - applied /\ Len(a.other) = n
  BY DEF Whole
<1>7. \A k \in 1 .. Len(r) : k \in 1 .. Len(q) \/ k = Len(q) + 1
  BY <1>3
<1>8. \A k \in 1 .. Len(r) : Len(r[k]) = 1 /\ r[k][1] \in 1 .. n + 1
  <2>1. \A k \in 1 .. Len(q) : Len(q[k]) = 1 /\ q[k][1] \in 1 .. n + 1
    BY DEF Whole
  <2>2. n + 1 \in 1 .. n + 1
    OBVIOUS
  <2> QED BY <1>1, <1>3, <1>7, <2>1, <2>2
<1>9. \A k \in 1 .. Len(a.weight) : a.weight[k] \in 1 .. n + 1
  BY DEF Whole
<1>10. ASSUME NEW m \in 1 .. n + 1
       PROVE  \/ \E k \in 1 .. Len(a.weight) : a.weight[k] = m
              \/ \E k \in 1 .. Len(r) : r[k][1] = m
  <2>1. \A k \in 1 .. Len(q) : k \in 1 .. Len(r)
    BY <1>3
  <2>2. Len(q) + 1 \in 1 .. Len(r)
    BY <1>3
  <2>3. CASE m \in 1 .. n
    BY <1>3, <2>1, <2>3 DEF Whole
  <2>4. CASE m = n + 1
    BY <1>1, <1>3, <2>2, <2>4
  <2> QED BY <2>3, <2>4
<1>11. ASSUME exact, NEW k \in 1 .. Len(r) PROVE r[k][1] = Len(a.weight) + k
  <2>1. CASE k \in 1 .. Len(q)
    BY <1>3, <1>11, <2>1 DEF Whole
  <2>2. CASE k = Len(q) + 1
    BY <1>1, <1>3, <1>6, <2>2
  <2> QED BY <1>7, <2>1, <2>2
<1>12. Len(r) = n + 1 - applied /\ Len(o) = n + 1
  BY <1>3, <1>4, <1>6
<1>13. exact => IsRun(a.weight, 0)
  BY DEF Whole
<1>14. Whole(c, r, applied, n + 1, exact)
  <2>1. /\ Len(c.weight) = applied /\ Len(r) = n + 1 - applied
        /\ Len(c.other) = n + 1 /\ IsRun(c.other, 0)
    BY <1>2, <1>5, <1>6, <1>12
  <2>2. exact => IsRun(c.weight, 0) /\ \A k \in 1 .. Len(r) : r[k][1] = Len(c.weight) + k
    BY <1>2, <1>11, <1>13
  <2>3. /\ \A k \in 1 .. Len(c.weight) : c.weight[k] \in 1 .. n + 1
        /\ \A m \in 1 .. n + 1 : \/ \E k \in 1 .. Len(c.weight) : c.weight[k] = m
                                 \/ \E k \in 1 .. Len(r) : r[k][1] = m
    BY <1>2, <1>9, <1>10
  <2> QED BY <1>8, <2>1, <2>2, <2>3 DEF Whole
<1> QED BY <1>14 DEF c, h, r

\* WeightPass takes the oldest from the queue.
LEMMA AddWeight ==
  ASSUME NEW a \in Grads, NEW q \in Seq(Seq(Nat)), NEW applied \in Nat, NEW n \in Nat,
         NEW exact \in BOOLEAN, Whole(a, q, applied, n, exact), q # <<>>
  PROVE  Whole(Join(a, [weight |-> Head(q), other |-> <<>>]), Tail(q), applied + 1, n, exact)
<1> DEFINE h == Head(q)
           w == a.weight \o h
           c == Join(a, [weight |-> h, other |-> <<>>])
           r == Tail(q)
<1>1. /\ Len(q) \in Nat /\ Len(q) > 0 /\ h = q[1] /\ Len(r) = Len(q) - 1
      /\ h \in Seq(Nat)
      /\ \A k \in 1 .. Len(r) : r[k] = q[k+1]
  OBVIOUS
<1>2. a.weight \in Seq(Nat) /\ a.other \in Seq(Nat)
  BY DEF Grads
<1>3. c.weight = w /\ c.other = a.other
  BY <1>2, ConcatEmptySeq DEF Join
<1> HIDE DEF h, c, r
<1>4. Len(h) = 1 /\ h[1] \in 1 .. n
  BY <1>1 DEF Whole
<1>5. /\ w \in Seq(Nat) /\ Len(w) = Len(a.weight) + 1
      /\ \A k \in 1 .. Len(a.weight) : w[k] = a.weight[k]
      /\ w[Len(a.weight) + 1] = h[1]
  BY <1>1, <1>2, <1>4, ConcatOne
<1>6. Len(a.weight) = applied /\ Len(q) = n - applied /\ Len(a.other) = n /\ IsRun(a.other, 0)
  BY DEF Whole
<1>7. exact => h[1] = Len(a.weight) + 1
  BY <1>1, <1>6 DEF Whole
<1>8. exact => IsRun(w, 0)
  BY <1>1, <1>2, <1>4, <1>7, ConcatRun DEF Whole
<1> HIDE DEF w
<1>9. \A k \in 1 .. Len(r) : k + 1 \in 1 .. Len(q)
  BY <1>1
<1>10. \A k \in 1 .. Len(r) : Len(r[k]) = 1 /\ r[k][1] \in 1 .. n
  <2>1. \A k \in 1 .. Len(q) : Len(q[k]) = 1 /\ q[k][1] \in 1 .. n
    BY DEF Whole
  <2> QED BY <1>1, <1>9, <2>1
<1>11. \A k \in 1 .. Len(w) : w[k] \in 1 .. n
  <2>1. \A k \in 1 .. Len(w) : k \in 1 .. Len(a.weight) \/ k = Len(a.weight) + 1
    BY <1>5, <1>6
  <2> QED BY <1>4, <1>5, <2>1 DEF Whole
<1>12. ASSUME NEW m \in 1 .. n
       PROVE  \/ \E k \in 1 .. Len(w) : w[k] = m
              \/ \E k \in 1 .. Len(r) : r[k][1] = m
  <2>1. CASE \E k \in 1 .. Len(a.weight) : a.weight[k] = m
    <3>1. PICK k \in 1 .. Len(a.weight) : a.weight[k] = m
      BY <2>1
    <3>2. k \in 1 .. Len(w) /\ w[k] = m
      BY SMTT(60), <1>5, <1>6, <3>1
    <3> QED BY <3>2
  <2>2. CASE \E k \in 1 .. Len(q) : q[k][1] = m
    <3>1. PICK k \in 1 .. Len(q) : q[k][1] = m
      BY <2>2
    <3>2. CASE k = 1
      <4>1. Len(a.weight) + 1 \in 1 .. Len(w) /\ w[Len(a.weight) + 1] = m
        BY <1>1, <1>5, <1>6, <3>1, <3>2
      <4> QED BY <4>1
    <3>3. CASE k # 1
      <4>1. k - 1 \in 1 .. Len(r) /\ r[k-1] = q[k]
        <5>1. k - 1 \in 1 .. Len(r) /\ (k - 1) + 1 = k
          BY <1>1, <3>3
        <5> QED BY <1>1, <5>1
      <4> QED BY <3>1, <4>1
    <3> QED BY <3>2, <3>3
  <2> QED BY <2>1, <2>2 DEF Whole
<1>13. ASSUME exact, NEW k \in 1 .. Len(r) PROVE r[k][1] = Len(w) + k
  <2>1. r[k] = q[k+1] /\ k + 1 \in 1 .. Len(q)
    BY <1>1, <1>9
  <2>2. q[k+1][1] = Len(a.weight) + (k + 1)
    BY <1>13, <2>1 DEF Whole
  <2> QED BY <1>5, <1>6, <2>1, <2>2
<1>14. Len(w) = applied + 1 /\ Len(r) = n - (applied + 1)
  BY <1>1, <1>5, <1>6
<1>15. Whole(c, r, applied + 1, n, exact)
  BY <1>3, <1>6, <1>8, <1>10, <1>11, <1>12, <1>13, <1>14 DEF Whole
<1> QED BY <1>15 DEF c, h, r

\* What GradInv says of the accumulated gradients, ...
LEMMA GradWhole ==
  ASSUME IInv, NEW s \in Stages
  PROVE  /\ Whole(Accumulated(s), weight_grad_queue[s], Applied(s), Len(bwd[s]), args.exact)
         /\ cache[s] = <<>> /\ Accumulated(s) \in Grads /\ Applied(s) \in Nat
         /\ weight_grad_queue[s] \in Seq(Seq(Nat))
<1>1. GradInv(s) /\ TypeOK
  BY DEF IInv, StageInv
<1>2. Types
  BY <1>1, TypesFlat
<1>3. Accumulated(s) \in Grads /\ weight_grad_queue[s] \in Seq(Seq(Nat))
  BY <1>2 DEF Types, Accumulated
<1>4. Len(Accumulated(s).weight) \in Nat
  BY <1>3 DEF Grads
<1> QED BY <1>1, <1>3, <1>4 DEF GradInv, Whole

\* ... and how it is shown of them after an accumulation.
LEMMA GradNext ==
  ASSUME IInv, NEW s \in Stages, NEW g \in Grads, Accumulate(s, g), args' = args,
         cache'[s] = <<>>, "OptimizerStep" \notin Left(s)',
         Whole(Join(Accumulated(s), g), weight_grad_queue'[s], Applied(s)', Len(bwd'[s]),
               args.exact)
  PROVE  GradInv(s)'
<1>1. Types
  BY TypesFlat DEF IInv
<1>2. Accumulated(s)' = Join(Accumulated(s), g)
  BY <1>1, Accumulation
<1>3. Whole(Accumulated(s)', weight_grad_queue'[s], Applied(s)', Len(bwd'[s]), args'.exact)
  BY <1>2
<1> QED BY <1>3 DEF Whole, GradInv, IsRun

\* A backward pass of both gradients preserves IInv.
LEMMA BackwardPassStep ==
  ASSUME IInv, NEW s \in Stages, BackwardPass(s)
  PROVE  IInv'
<1> DEFINE op == "BackwardPass"
           n == backward[s]
           L == Left(s)
           g == [weight |-> <<n>>, other |-> <<n>>]
<1>1. Exec(s, op) /\ UNCHANGED <<args, schedule, links>> /\ op \in Passes
  BY DEF BackwardPass, Passes
<1>2. /\ op \in L /\ L' = L \ {op}
      /\ \A t \in Stages : cmds'[t] \in Seq([op : Ops, buffer : 0 .. P-t-1])
      /\ forward' = forward /\ backward' = backward /\ weight' = weight /\ ended' = ended
  BY <1>1, Executing
<1>3. /\ args' = args /\ loaded' = loaded /\ grad_layer' = grad_layer /\ loss' = loss
      /\ acts' = acts /\ grads' = grads /\ fwd' = fwd
      /\ cache' = cache /\ weight_grad_queue' = weight_grad_queue
  BY DEF BackwardPass, links, store
<1>4. /\ Gradient(s) = n /\ n > 0 /\ Len(bwd[s]) = n - 1 /\ "OptimizerStep" \notin L
  BY <1>1, GradientValue
<1>5. /\ PassInv(s)' /\ BufferInv(s)' /\ Len(bwd'[s]) = n
      /\ pipe_buffers' = [t \in Stages |-> pipe_buffers'[t]]
      /\ \A t \in Stages : pipe_buffers'[t] \in [0 .. P-t-1 -> Tensors]
      /\ \A t \in Stages \ {s} : pipe_buffers'[t] = pipe_buffers[t] /\ bwd'[t] = bwd[t]
      /\ bwd' \in [Stages -> Seq(Nat)]
  <2>1. InputGradient(s) /\ bwd' = [bwd EXCEPT ![s] = Append(@, Gradient(s))]
    BY DEF BackwardPass
  <2> QED BY <1>1, <1>3, <2>1, InputGradientStep
<1>6. Accumulate(s, g) /\ g \in Grads
  <2>1. n \in Nat
    BY Counters
  <2> QED BY <1>4, <2>1 DEF BackwardPass, Grads
<1>7. Types
  BY TypesFlat DEF IInv
<1>8. /\ lp_grad' \in [Stages -> Grads] /\ hp_grad' \in [Stages -> Grads]
      /\ \A t \in Stages \ {s} : lp_grad'[t] = lp_grad[t] /\ hp_grad'[t] = hp_grad[t]
  BY <1>3, <1>6, <1>7, Accumulation
<1>9. GradInv(s)'
  <2> DEFINE a == Accumulated(s)
             q == weight_grad_queue[s]
             i == n - 1
  <2>1. /\ Whole(a, q, Applied(s), i, args.exact)
        /\ cache[s] = <<>> /\ a \in Grads /\ Applied(s) \in Nat /\ q \in Seq(Seq(Nat))
    BY <1>4, GradWhole
  <2>2. LeftInv(s)
    BY DEF IInv, StageInv
  <2>3. Applied(s) = weight[s] - 1 /\ Applied(s)' = weight[s]
    <3>1. /\ Pending(s, {"BackwardPass", "WeightPass"}) = 1
          /\ Pending(s, {"BackwardPass", "WeightPass"})' = 0
      BY <1>2, <2>2 DEF Pending, LeftInv
    <3> QED BY <1>2, <3>1, Counters DEF Applied
  <2>4. args.exact => i = Applied(s)
    <3>1. args.exact => First(s)
      BY <1>2, <2>2 DEF LeftInv
    <3> QED BY <2>3, <3>1, Counters
  <2>5. i \in Nat /\ i + 1 = n /\ Applied(s) + 1 = Applied(s)' /\ args.exact \in BOOLEAN
    <3>1. n \in Nat /\ weight[s] \in Nat /\ args.exact \in BOOLEAN
      BY Counters
    <3>2. Applied(s) + 1 = weight[s]
      BY <2>3, <3>1
    <3> QED BY <1>4, <2>3, <3>1, <3>2
  <2>6. Whole(Join(a, [weight |-> <<i+1>>, other |-> <<i+1>>]), q, Applied(s) + 1, i + 1, args.exact)
    <3> HIDE DEF i, a, q
    <3> QED BY <2>1, <2>4, <2>5, AddBoth
  <2>7. Whole(Join(a, g), weight_grad_queue'[s], Applied(s)', Len(bwd'[s]), args.exact)
    BY <1>3, <1>5, <2>5, <2>6
  <2>8. cache'[s] = <<>> /\ "OptimizerStep" \notin L'
    BY <1>2, <1>3, <1>4, <2>1
  <2> HIDE DEF g
  <2> QED BY <1>3, <1>6, <2>7, <2>8, GradNext
<1>10. TypeOK'
  <2>1. Types'
    BY <1>2, <1>3, <1>5, <1>7, <1>8 DEF Types
  <2> QED BY <2>1, TypesFlat
<1> QED BY <1>1, <1>3, <1>5, <1>8, <1>9, <1>10, ComputeStep

\* A backward pass that queues the gradients of the weights preserves it.
LEMMA BackwardOnlyStep ==
  ASSUME IInv, NEW s \in Stages, BackwardOnlyPass(s)
  PROVE  IInv'
<1> DEFINE op == "BackwardOnlyPass"
           n == backward[s]
           L == Left(s)
           g == [weight |-> <<>>, other |-> <<n>>]
<1>1. Exec(s, op) /\ UNCHANGED <<args, schedule, links>> /\ op \in Passes
  BY DEF BackwardOnlyPass, Passes
<1>2. /\ op \in L /\ L' = L \ {op}
      /\ \A t \in Stages : cmds'[t] \in Seq([op : Ops, buffer : 0 .. P-t-1])
      /\ forward' = forward /\ backward' = backward /\ weight' = weight /\ ended' = ended
  BY <1>1, Executing
<1>3. /\ args' = args /\ loaded' = loaded /\ grad_layer' = grad_layer /\ loss' = loss
      /\ acts' = acts /\ grads' = grads /\ fwd' = fwd
  BY DEF BackwardOnlyPass, links
<1>4. /\ Gradient(s) = n /\ n > 0 /\ Len(bwd[s]) = n - 1 /\ "OptimizerStep" \notin L
  BY <1>1, GradientValue
<1>5. /\ PassInv(s)' /\ BufferInv(s)' /\ Len(bwd'[s]) = n
      /\ pipe_buffers' = [t \in Stages |-> pipe_buffers'[t]]
      /\ \A t \in Stages : pipe_buffers'[t] \in [0 .. P-t-1 -> Tensors]
      /\ \A t \in Stages \ {s} : pipe_buffers'[t] = pipe_buffers[t] /\ bwd'[t] = bwd[t]
      /\ bwd' \in [Stages -> Seq(Nat)]
  <2>1. InputGradient(s) /\ bwd' = [bwd EXCEPT ![s] = Append(@, Gradient(s))]
    BY DEF BackwardOnlyPass
  <2> QED BY <1>1, <1>3, <2>1, InputGradientStep
<1>6. Accumulate(s, g) /\ g \in Grads
  <2>1. n \in Nat
    BY Counters
  <2> QED BY <1>4, <2>1 DEF BackwardOnlyPass, Grads
<1>7. Types
  BY TypesFlat DEF IInv
<1>8. /\ lp_grad' \in [Stages -> Grads] /\ hp_grad' \in [Stages -> Grads]
      /\ \A t \in Stages \ {s} : lp_grad'[t] = lp_grad[t] /\ hp_grad'[t] = hp_grad[t]
  BY <1>3, <1>6, <1>7, Accumulation
<1> DEFINE a == Accumulated(s)
           q == weight_grad_queue[s]
           i == n - 1
<1>9. /\ Whole(a, q, Applied(s), i, args.exact)
      /\ cache[s] = <<>> /\ a \in Grads /\ Applied(s) \in Nat /\ q \in Seq(Seq(Nat))
  BY <1>4, GradWhole
<1>10. /\ weight_grad_queue' = [weight_grad_queue EXCEPT ![s] = Append(q, <<n>>)]
       /\ cache' = [cache EXCEPT ![s] = <<>>]
  <2>1. Append(cache[s], Gradient(s)) = <<n>>
    BY <1>4, <1>9
  <2> QED BY <2>1 DEF BackwardOnlyPass, Flush
<1>11. /\ weight_grad_queue' \in [Stages -> Seq(Seq(Nat))] /\ cache' \in [Stages -> Seq(Nat)]
       /\ weight_grad_queue'[s] = Append(q, <<n>>) /\ cache'[s] = <<>>
       /\ \A t \in Stages \ {s} : cache'[t] = cache[t] /\ weight_grad_queue'[t] = weight_grad_queue[t]
  <2> DEFINE r == Append(q, <<n>>)
  <2>1. r \in Seq(Seq(Nat))
    <3>1. <<n>> \in Seq(Nat)
      BY Counters
    <3> HIDE DEF n, q
    <3> QED BY <1>9, <3>1
  <2>2. weight_grad_queue \in [Stages -> Seq(Seq(Nat))] /\ cache \in [Stages -> Seq(Nat)]
    BY <1>7 DEF Types
  <2> HIDE DEF r
  <2>3. weight_grad_queue' = [weight_grad_queue EXCEPT ![s] = r]
    BY <1>10 DEF r
  <2>4. weight_grad_queue' \in [Stages -> Seq(Seq(Nat))] /\ weight_grad_queue'[s] = r
        /\ \A t \in Stages \ {s} : weight_grad_queue'[t] = weight_grad_queue[t]
    BY <2>1, <2>2, <2>3
  <2>5. cache' \in [Stages -> Seq(Nat)] /\ cache'[s] = <<>>
        /\ \A t \in Stages \ {s} : cache'[t] = cache[t]
    BY <1>10, <2>2
  <2> QED BY <2>4, <2>5 DEF r
<1>12. GradInv(s)'
  <2>1. Applied(s)' = Applied(s)
    BY <1>2 DEF Applied, Pending
  <2>2. i \in Nat /\ i + 1 = n /\ args.exact \in BOOLEAN
    BY <1>4, Counters
  <2>3. Whole(Join(a, [weight |-> <<>>, other |-> <<i+1>>]), Append(q, <<i+1>>),
              Applied(s), i + 1, args.exact)
    <3> HIDE DEF i, a, q
    <3> QED BY <1>9, <2>2, AddOther
  <2>4. Whole(Join(a, g), weight_grad_queue'[s], Applied(s)', Len(bwd'[s]), args.exact)
    BY <1>5, <1>11, <2>1, <2>2, <2>3
  <2>5. "OptimizerStep" \notin L'
    BY <1>2, <1>4
  <2> HIDE DEF g
  <2> QED BY <1>3, <1>6, <1>11, <2>4, <2>5, GradNext
<1>13. TypeOK'
  <2>1. Types'
    BY <1>2, <1>3, <1>5, <1>7, <1>8, <1>11 DEF Types
  <2> QED BY <2>1, TypesFlat
<1> QED BY <1>1, <1>3, <1>5, <1>8, <1>11, <1>12, <1>13, ComputeStep

\* A weight pass finds a W in the queue, ...
LEMMA WeightFound ==
  ASSUME IInv, NEW s \in Stages, "WeightPass" \in Left(s), Left(s) \cap Passes = {}
  PROVE  /\ weight_grad_queue[s] # <<>>
         /\ Applied(s) = weight[s] - 1
<1>1. /\ GradInv(s) /\ PassInv(s) /\ weight_grad_queue[s] \in Seq(Seq(Nat))
      /\ LeftInv(s)
  BY GradWhole DEF IInv, StageInv
<1>2. Pending(s, {"BackwardPass", "WeightPass"}) = 1 /\ Pending(s, Passes) = 0
  BY DEF Pending
<1>3. Applied(s) = weight[s] - 1 /\ Len(bwd[s]) = backward[s] - 0
  BY <1>1, <1>2 DEF Applied, PassInv
<1>4. Len(weight_grad_queue[s]) = Len(bwd[s]) - Applied(s)
  BY <1>1 DEF GradInv
<1>5. Len(weight_grad_queue[s]) > 0
  BY SMTT(60), <1>3, <1>4, Counters
<1> QED BY <1>1, <1>3, <1>5

\* ... takes it, and preserves IInv.
LEMMA WeightPassStep ==
  ASSUME IInv, NEW s \in Stages, WeightPass(s)
  PROVE  IInv'
<1> DEFINE op == "WeightPass"
           L == Left(s)
           a == Accumulated(s)
           q == weight_grad_queue[s]
           g == [weight |-> Head(q), other |-> <<>>]
<1>1. Exec(s, op) /\ UNCHANGED <<args, schedule, links>>
  BY DEF WeightPass
<1>2. /\ op \in L /\ L' = L \ {op}
      /\ \A x \in L : x = op \/ Position[op] < Position[x]
      /\ \A t \in Stages : cmds'[t] \in Seq([op : Ops, buffer : 0 .. P-t-1])
      /\ forward' = forward /\ backward' = backward /\ weight' = weight /\ ended' = ended
  BY <1>1, Executing
<1>3. /\ args' = args /\ loaded' = loaded /\ grad_layer' = grad_layer /\ loss' = loss
      /\ acts' = acts /\ grads' = grads /\ fwd' = fwd /\ bwd' = bwd /\ cache' = cache
      /\ pipe_buffers' = pipe_buffers
  BY DEF WeightPass, links
<1>4. LeftInv(s) /\ PassInv(s) /\ BufferInv(s) /\ Shape
  BY DEF IInv, StageInv
<1>5. L \cap {"BackwardPass", "BackwardOnlyPass", "ForwardPass", "LoadMicroBatch", "SendGrad"} = {}
  BY <1>2, Positions
<1>6. L \cap Passes = {} /\ "OptimizerStep" \notin L
  BY <1>2, <1>4, <1>5 DEF LeftInv, Passes
<1>7. /\ q # <<>> /\ Applied(s) = weight[s] - 1
  BY <1>2, <1>6, WeightFound
<1>8. /\ Whole(a, q, Applied(s), Len(bwd[s]), args.exact)
      /\ cache[s] = <<>> /\ a \in Grads /\ Applied(s) \in Nat /\ q \in Seq(Seq(Nat))
  BY GradWhole
<1>9. Types
  BY TypesFlat DEF IInv
<1>10. Head(q) \in Seq(Nat) /\ Tail(q) \in Seq(Seq(Nat))
  BY <1>7, <1>8
<1>11. Accumulate(s, g) /\ g \in Grads
  BY <1>10 DEF WeightPass, Take, Grads
<1>12. /\ lp_grad' \in [Stages -> Grads] /\ hp_grad' \in [Stages -> Grads]
       /\ \A t \in Stages \ {s} : lp_grad'[t] = lp_grad[t] /\ hp_grad'[t] = hp_grad[t]
  BY <1>3, <1>9, <1>11, Accumulation
<1>13. /\ weight_grad_queue' \in [Stages -> Seq(Seq(Nat))] /\ weight_grad_queue'[s] = Tail(q)
       /\ \A t \in Stages \ {s} : weight_grad_queue'[t] = weight_grad_queue[t]
  <2> DEFINE r == Tail(q)
  <2>1. weight_grad_queue' = [weight_grad_queue EXCEPT ![s] = r]
        /\ weight_grad_queue \in [Stages -> Seq(Seq(Nat))] /\ r \in Seq(Seq(Nat))
    BY <1>9, <1>10 DEF WeightPass, Take, Types
  <2> HIDE DEF r
  <2>2. weight_grad_queue' \in [Stages -> Seq(Seq(Nat))] /\ weight_grad_queue'[s] = r
        /\ \A t \in Stages \ {s} : weight_grad_queue'[t] = weight_grad_queue[t]
    BY <2>1
  <2> QED BY <2>2 DEF r
<1>14. GradInv(s)'
  <2>1. Applied(s)' = Applied(s) + 1
    <3>1. Pending(s, {"BackwardPass", "WeightPass"})' = 0
      BY <1>2, <1>5 DEF Pending
    <3>2. Applied(s)' = weight[s] - 0
      BY <1>2, <3>1 DEF Applied
    <3> QED BY <1>7, <3>2, Counters
  <2>2. Len(bwd[s]) \in Nat /\ args.exact \in BOOLEAN
    BY Counters
  <2>3. Whole(Join(a, g), Tail(q), Applied(s) + 1, Len(bwd[s]), args.exact)
    <3> HIDE DEF a, q
    <3> QED BY <1>7, <1>8, <2>2, AddWeight
  <2>4. Whole(Join(a, g), weight_grad_queue'[s], Applied(s)', Len(bwd'[s]), args.exact)
    BY <1>3, <1>13, <2>1, <2>3
  <2>5. cache'[s] = <<>> /\ "OptimizerStep" \notin L'
    BY <1>2, <1>3, <1>6, <1>8
  <2> HIDE DEF g
  <2> QED BY <1>3, <1>11, <2>4, <2>5, GradNext
<1>15. TypeOK'
  <2>1. Types'
    BY <1>2, <1>3, <1>9, <1>12, <1>13 DEF Types
  <2> QED BY <2>1, TypesFlat
<1>16. PassInv(s)'
  <2>1. /\ Pending(s, {"ForwardPass"})' = Pending(s, {"ForwardPass"})
        /\ Pending(s, Passes)' = Pending(s, Passes)
        /\ Pending(s, {"LoadMicroBatch"})' = Pending(s, {"LoadMicroBatch"})
    BY <1>2 DEF Pending, Passes
  <2> QED BY <1>2, <1>3, <1>4, <2>1 DEF PassInv, IsRun
<1>17. BufferInv(s)'
  <2>1. /\ "ForwardPass" \notin L' /\ "SendGrad" \notin L' /\ L' \cap Passes = {}
    BY <1>2, <1>5, <1>6
  <2> QED BY <1>2, <1>3, <1>4, <2>1 DEF BufferInv, Held
<1>18. pipe_buffers' = [t \in Stages |-> pipe_buffers'[t]]
  BY <1>3, <1>4 DEF Shape
<1> QED BY <1>1, <1>3, <1>12, <1>13, <1>14, <1>15, <1>16, <1>17, <1>18, ComputeStep

\* The reduction and the step of the optimizer leave the passes alone.
LEMMA EndFrame ==
  ASSUME IInv, NEW s \in Stages, NEW op \in {"ReduceGrads", "OptimizerStep"}, Exec(s, op),
         UNCHANGED <<args, schedule, loaded, pipe_buffers, grad_layer, loss, fwd, bwd>>
  PROVE  PassInv(s)' /\ BufferInv(s)'
<1> DEFINE L == Left(s)
<1>1. /\ op \in L /\ L' = L \ {op}
      /\ forward' = forward /\ backward' = backward /\ weight' = weight
  BY Executing
<1>2. LeftInv(s) /\ PassInv(s) /\ BufferInv(s)
  BY DEF IInv, StageInv
<1>3. L \subseteq {"ReduceGrads", "OptimizerStep"}
  BY <1>1, <1>2 DEF LeftInv
<1>4. PassInv(s)'
  <2>1. /\ Pending(s, {"ForwardPass"})' = Pending(s, {"ForwardPass"})
        /\ Pending(s, Passes)' = Pending(s, Passes)
        /\ Pending(s, {"LoadMicroBatch"})' = Pending(s, {"LoadMicroBatch"})
    BY <1>1, <1>3 DEF Pending, Passes
  <2> QED BY <1>1, <1>2, <2>1 DEF PassInv, IsRun
<1>5. BufferInv(s)'
  <2>1. /\ "ForwardPass" \notin L' /\ "SendGrad" \notin L' /\ L' \cap Passes = {}
    BY <1>1, <1>3 DEF Passes
  <2> QED BY <1>1, <1>2, <2>1 DEF BufferInv, Held
<1> QED BY <1>4, <1>5

\* The reduction preserves IInv, ...
LEMMA ReduceGradsStep ==
  ASSUME IInv, NEW s \in Stages, ReduceGrads(s)
  PROVE  IInv'
<1> DEFINE op == "ReduceGrads"
           L == Left(s)
<1>1. Exec(s, op) /\ UNCHANGED <<args, schedule, links>>
  BY DEF ReduceGrads
<1>2. /\ op \in L /\ L' = L \ {op}
      /\ \A t \in Stages : cmds'[t] \in Seq([op : Ops, buffer : 0 .. P-t-1])
      /\ forward' = forward /\ backward' = backward /\ weight' = weight /\ ended' = ended
  BY <1>1, Executing
<1>3. /\ args' = args /\ loaded' = loaded /\ grad_layer' = grad_layer /\ loss' = loss
      /\ acts' = acts /\ grads' = grads /\ fwd' = fwd /\ bwd' = bwd /\ cache' = cache
      /\ weight_grad_queue' = weight_grad_queue /\ pipe_buffers' = pipe_buffers
      /\ lp_grad' = lp_grad
  BY DEF ReduceGrads, links, store
<1>4. Types /\ Shape
  BY TypesFlat DEF IInv
<1>5. /\ hp_grad' \in [Stages -> Grads]
      /\ \A t \in Stages \ {s} : hp_grad'[t] = hp_grad[t]
      /\ Accumulated(s)' = Accumulated(s) /\ hp_grad'[s] = Accumulated(s)
  BY <1>3, <1>4 DEF ReduceGrads, Types, Accumulated
<1>6. GradInv(s)'
  <2>1. GradInv(s)
    BY DEF IInv, StageInv
  <2>2. Applied(s)' = Applied(s)
    BY <1>2 DEF Applied, Pending
  <2> QED BY ZenonT(60), <1>3, <1>5, <2>1, <2>2 DEF GradInv, IsRun
<1>7. PassInv(s)' /\ BufferInv(s)'
  BY <1>1, <1>3, EndFrame
<1>8. TypeOK'
  <2>1. Types'
    BY <1>2, <1>3, <1>4, <1>5 DEF Types
  <2> QED BY <2>1, TypesFlat
<1>9. pipe_buffers' = [t \in Stages |-> pipe_buffers'[t]]
  BY <1>3, <1>4 DEF Shape
<1> QED BY <1>1, <1>3, <1>5, <1>6, <1>7, <1>8, <1>9, ComputeStep

\* ... and so does the optimizer step.
LEMMA OptimizerStepStep ==
  ASSUME IInv, NEW s \in Stages, OptimizerStep(s)
  PROVE  IInv'
<1> DEFINE op == "OptimizerStep"
           L == Left(s)
<1>1. Exec(s, op) /\ UNCHANGED <<args, schedule, links>>
  BY DEF OptimizerStep
<1>2. /\ op \in L /\ L' = L \ {op}
      /\ \A t \in Stages : cmds'[t] \in Seq([op : Ops, buffer : 0 .. P-t-1])
      /\ forward' = forward /\ backward' = backward /\ weight' = weight /\ ended' = ended
  BY <1>1, Executing
<1>3. /\ args' = args /\ loaded' = loaded /\ grad_layer' = grad_layer /\ loss' = loss
      /\ acts' = acts /\ grads' = grads /\ fwd' = fwd /\ bwd' = bwd /\ cache' = cache
      /\ weight_grad_queue' = weight_grad_queue /\ pipe_buffers' = pipe_buffers
      /\ lp_grad' = lp_grad /\ hp_grad' = hp_grad
  BY DEF OptimizerStep, links, store, params
<1>4. Types /\ Shape
  BY TypesFlat DEF IInv
<1>5. GradInv(s)'
  BY <1>2, <1>3, GradFrame
<1>6. PassInv(s)' /\ BufferInv(s)'
  BY <1>1, <1>3, EndFrame
<1>7. TypeOK'
  <2>1. Types'
    BY <1>2, <1>3, <1>4 DEF Types
  <2> QED BY <2>1, TypesFlat
<1>8. pipe_buffers' = [t \in Stages |-> pipe_buffers'[t]]
  BY <1>3, <1>4 DEF Shape
<1> QED BY <1>1, <1>3, <1>5, <1>6, <1>7, <1>8, ComputeStep

-----------------------------------------------------------------------------
(***************************************************************************)
(* Exchanging tensors.                                                     *)
(***************************************************************************)

\* What Others holds.
LEMMA OthersSame ==
  ASSUME UNCHANGED Others
  PROVE  /\ args' = args /\ forward' = forward /\ backward' = backward /\ weight' = weight
         /\ ended' = ended /\ loaded' = loaded /\ loss' = loss /\ cache' = cache
         /\ weight_grad_queue' = weight_grad_queue /\ lp_grad' = lp_grad /\ hp_grad' = hp_grad
         /\ fwd' = fwd /\ bwd' = bwd
BY DEF Others, schedule, store, params

\* A stage sends the tensor of the microbatch in work, the next on its link
LEMMA Sending ==
  ASSUME IInv, NEW s \in Stages, NEW op \in Sends, Executes(s, op),
         cmds'[s] = Tail(cmds[s]), UNCHANGED Others
  PROVE  /\ op \in Left(s) /\ Left(s)' = Left(s) \ {op}
         /\ Count(s, op) \in Nat /\ Count(s, op) > 0
         /\ Buffer(s) = BufferId(s, Count(s, op) - 1)
         /\ SentBy(s, op) = Count(s, op) - 1 /\ SentBy(s, op)' = Count(s, op)
         /\ Sent(s, op) = Count(s, op)
         /\ \A e \in Sends : e # op => SentBy(s, e)' = SentBy(s, e)
         /\ \A e \in Sends : ReceivedBy(s, e)' = ReceivedBy(s, e)
<1> DEFINE L == Left(s)
           f == forward[s]
           b == backward[s]
<1>1. /\ args' = args /\ forward' = forward /\ backward' = backward /\ weight' = weight
      /\ ended' = ended
  BY OthersSame
<1>2. /\ op \in L /\ L' = L \ {op}
      /\ \A x \in L : x = op \/ Position[op] < Position[x]
      /\ Buffer(s) = BufferOf(s, op, f, b)
  BY <1>1, Execution
<1>3. op \in {"SendActivation", "SendGrad"}
  BY DEF Sends
<1>4. /\ f \in Nat /\ b \in Nat /\ b <= f /\ Len(fwd[s]) \in Nat /\ Len(bwd[s]) \in Nat
  BY Counters
<1>5. LeftInv(s) /\ PassInv(s) /\ BufferInv(s)
  BY DEF IInv, StageInv
<1>6. Count(s, op) \in Nat /\ Count(s, op)' = Count(s, op)
  BY <1>1, <1>4 DEF Count
<1>7. Count(s, op) > 0
  BY <1>2, <1>3, <1>4, <1>5 DEF LeftInv, Count, ForwardOps, BackwardOps
<1>8. Buffer(s) = BufferId(s, Count(s, op) - 1)
  BY <1>2, <1>3 DEF BufferOf, Count, ForwardOps, BackwardOps
<1>9. SentBy(s, op) = Count(s, op) - 1 /\ SentBy(s, op)' = Count(s, op)
  <2>1. Pending(s, {op}) = 1 /\ Pending(s, {op})' = 0
    BY <1>2 DEF Pending
  <2>2. SentBy(s, op) = Count(s, op) - 1 /\ SentBy(s, op)' = Count(s, op) - 0
    BY <1>6, <2>1 DEF SentBy
  <2> QED BY <1>6, <2>2
<1>10. Sent(s, op) = Count(s, op)
  <2>1. CASE op = "SendActivation"
    <3>1. "ForwardPass" \notin L
      BY <1>2, <2>1, Positions
    <3>2. Len(fwd[s]) = f
      BY <1>4, <1>5, <3>1 DEF PassInv, Pending
    <3>3. Len(bwd[s]) < f
      <4>1. CASE L \cap Passes = {}
        <5>1. b < f
          BY <1>2, <1>5, <2>1, <4>1 DEF LeftInv
        <5> QED BY <1>4, <1>5, <4>1, <5>1 DEF PassInv, Pending
      <4>2. CASE L \cap Passes # {}
        BY <1>4, <1>5, <4>2 DEF PassInv, Pending
      <4> QED BY <4>1, <4>2
    <3>4. f \in Len(bwd[s]) + 1 .. Len(fwd[s])
      BY <1>4, <3>2, <3>3
    <3>5. Held(s, f).outputs = f
      BY <1>5, <3>4 DEF BufferInv
    <3> QED BY <1>8, <2>1, <3>5 DEF Sent, Held, Count
  <2>2. CASE op = "SendGrad"
    <3>1. L \cap Passes = {}
      BY <1>2, <2>2, Positions DEF Passes
    <3>2. Held(s, b).input_grad = b
      BY <1>2, <1>5, <2>2, <3>1 DEF BufferInv
    <3> QED BY <1>8, <2>2, <3>2 DEF Sent, Held, Count
  <2> QED BY <1>3, <2>1, <2>2
<1>11. ASSUME NEW e \in Sends PROVE /\ e # op => SentBy(s, e)' = SentBy(s, e)
                                    /\ ReceivedBy(s, e)' = ReceivedBy(s, e)
  BY <1>1, <1>2, <1>3 DEF SentBy, ReceivedBy, Count, Pending, Sends, RecvOf
<1> QED BY <1>2, <1>6, <1>7, <1>8, <1>9, <1>10, <1>11

\* ... and keeps its part of the invariant.
LEMMA SenderStage ==
  ASSUME IInv, NEW s \in Stages, NEW op \in Sends, Executes(s, op),
         cmds'[s] = Tail(cmds[s]), UNCHANGED Others, grad_layer'[s] = grad_layer[s],
         op = "SendActivation" => pipe_buffers'[s] = pipe_buffers[s],
         op = "SendGrad" => Writes(s, BufferId(s, backward[s] - 1),
                                   [Held(s, backward[s]) EXCEPT !.inputs = None])
  PROVE  StageInv(s)'
<1> DEFINE L == Left(s)
           n == backward[s]
           r == [Held(s, n) EXCEPT !.inputs = None]
<1>1. /\ args' = args /\ forward' = forward /\ backward' = backward /\ weight' = weight
      /\ ended' = ended /\ loaded' = loaded /\ loss' = loss /\ cache' = cache
      /\ weight_grad_queue' = weight_grad_queue /\ lp_grad' = lp_grad /\ hp_grad' = hp_grad
      /\ fwd' = fwd /\ bwd' = bwd
  BY OthersSame
<1>2. /\ op \in L /\ L' = L \ {op} /\ Count(s, op) > 0
  BY Sending
<1>3. op \in {"SendActivation", "SendGrad"}
  BY DEF Sends
<1>4. CmdsInv(s)' /\ CountInv(s)' /\ \A x \in L : x = op \/ Position[op] < Position[x]
  BY <1>1, Execution
<1>5. LeftInv(s)'
  BY <1>1, LeftStep
<1>6. LeftInv(s) /\ PassInv(s) /\ BufferInv(s)
  BY DEF IInv, StageInv
<1>7. L' \cap Passes = L \cap Passes /\ ("ForwardPass" \in L' <=> "ForwardPass" \in L)
  BY <1>2, <1>3 DEF Passes
<1>8. PassInv(s)'
  <2>1. /\ Pending(s, {"ForwardPass"})' = Pending(s, {"ForwardPass"})
        /\ Pending(s, Passes)' = Pending(s, Passes)
        /\ Pending(s, {"LoadMicroBatch"})' = Pending(s, {"LoadMicroBatch"})
    BY <1>2, <1>3 DEF Pending, Passes
  <2> QED BY <1>1, <1>6, <2>1 DEF PassInv, IsRun
<1>9. GradInv(s)'
  BY <1>1, <1>2, <1>3, GradFrame
<1>10. CASE op = "SendActivation"
  <2>1. pipe_buffers'[s] = pipe_buffers[s]
    BY <1>10
  <2>2. \A m : Held(s, m)' = Held(s, m)
    BY <2>1 DEF Held
  <2>3. BufferInv(s)'
    BY <1>1, <1>2, <1>6, <1>7, <1>10, <2>2 DEF BufferInv
  <2> QED BY <1>4, <1>5, <1>8, <1>9, <2>3 DEF StageInv
<1>11. CASE op = "SendGrad"
  <2>1. L \cap Passes = {} /\ "ForwardPass" \notin L
    BY <1>4, <1>11, Positions DEF Passes
  <2>2. Len(bwd[s]) = n /\ Len(fwd[s]) = forward[s]
    <3>1. Pending(s, Passes) = 0 /\ Pending(s, {"ForwardPass"}) = 0
      BY <2>1 DEF Pending
    <3> QED BY <1>6, <3>1, Counters DEF PassInv
  <2>3. \A m \in Len(bwd[s]) + 1 .. Len(fwd[s]) : Held(s, m)' = Held(s, m)
    <3>1. n > 0 /\ n \in Nat /\ forward[s] \in Nat
      BY <1>2, <1>11, Counters DEF Count
    <3>2. \A m \in Len(bwd[s]) + 1 .. Len(fwd[s]) : m \in Nat /\ n < m /\ m <= forward[s]
      BY <2>2, <3>1
    <3>3. Writes(s, BufferId(s, n - 1), r)
      BY <1>11
    <3> HIDE DEF r
    <3> QED BY <3>1, <3>2, <3>3, EmptyKeeps
  <2>4. \A m \in Len(bwd[s]) + 1 .. Len(fwd[s]) : Held(s, m)'.inputs = m /\ Held(s, m)'.outputs = m
    BY <1>6, <2>3 DEF BufferInv
  <2>5. L' \cap Passes = {} /\ "ForwardPass" \notin L' /\ "SendGrad" \notin L'
    BY <1>2, <1>11, <2>1, <1>7
  <2>6. Last(s) => loss = Len(fwd[s])
    BY <1>6 DEF BufferInv
  <2>7. BufferInv(s)'
    BY <1>1, <2>4, <2>5, <2>6 DEF BufferInv
  <2> QED BY <1>4, <1>5, <1>8, <1>9, <2>7 DEF StageInv
<1> QED BY <1>3, <1>10, <1>11

\* A stage receives the tensor of the microbatch in work, ...
LEMMA Receiving ==
  ASSUME IInv, NEW t \in Stages, NEW op \in Sends, Executes(t, RecvOf(op)),
         cmds'[t] = Tail(cmds[t]), UNCHANGED Others
  PROVE  /\ RecvOf(op) \in Left(t) /\ Left(t)' = Left(t) \ {RecvOf(op)}
         /\ Count(t, op) \in Nat /\ Count(t, op) > 0
         /\ Buffer(t) = BufferId(t, Count(t, op) - 1)
         /\ ReceivedBy(t, op) = Count(t, op) - 1 /\ ReceivedBy(t, op)' = Count(t, op)
         /\ \A e \in Sends : e # op => ReceivedBy(t, e)' = ReceivedBy(t, e)
         /\ \A e \in Sends : SentBy(t, e)' = SentBy(t, e)
<1> DEFINE L == Left(t)
           f == forward[t]
           b == backward[t]
           rv == RecvOf(op)
<1>1. /\ args' = args /\ forward' = forward /\ backward' = backward /\ weight' = weight
      /\ ended' = ended
  BY OthersSame
<1>2. /\ rv \in L /\ L' = L \ {rv} /\ Buffer(t) = BufferOf(t, rv, f, b)
  BY <1>1, Execution
<1>3. /\ op \in {"SendActivation", "SendGrad"}
      /\ op = "SendActivation" => rv = "RecvActivation"
      /\ op = "SendGrad" => rv = "RecvGrad"
  BY DEF Sends, RecvOf
<1>4. f \in Nat /\ b \in Nat
  BY Counters
<1>5. LeftInv(t)
  BY DEF IInv, StageInv
<1>6. Count(t, op) \in Nat /\ Count(t, op)' = Count(t, op)
  BY <1>1, <1>4 DEF Count
<1>7. Count(t, op) > 0
  BY <1>2, <1>3, <1>4, <1>5 DEF LeftInv, Count, ForwardOps, BackwardOps
<1>8. Buffer(t) = BufferId(t, Count(t, op) - 1)
  BY <1>2, <1>3 DEF BufferOf, Count, ForwardOps, BackwardOps
<1>9. ReceivedBy(t, op) = Count(t, op) - 1 /\ ReceivedBy(t, op)' = Count(t, op)
  <2>1. Pending(t, {rv}) = 1 /\ Pending(t, {rv})' = 0
    BY <1>2 DEF Pending
  <2>2. ReceivedBy(t, op) = Count(t, op) - 1 /\ ReceivedBy(t, op)' = Count(t, op) - 0
    BY <1>6, <2>1 DEF ReceivedBy
  <2> QED BY <1>6, <2>2
<1>10. ASSUME NEW e \in Sends PROVE /\ e # op => ReceivedBy(t, e)' = ReceivedBy(t, e)
                                    /\ SentBy(t, e)' = SentBy(t, e)
  BY <1>1, <1>2, <1>3 DEF SentBy, ReceivedBy, Count, Pending, Sends, RecvOf
<1> QED BY <1>2, <1>6, <1>7, <1>8, <1>9, <1>10

\* ... and keeps its part of the invariant when it is that one.
LEMMA ReceiverStage ==
  ASSUME IInv, NEW t \in Stages, NEW op \in Sends, Executes(t, RecvOf(op)),
         cmds'[t] = Tail(cmds[t]), UNCHANGED Others,
         op = "SendActivation" =>
           /\ Writes(t, BufferId(t, forward[t] - 1),
                     [Held(t, forward[t]) EXCEPT !.inputs = forward[t]])
           /\ grad_layer'[t] = grad_layer[t],
         op = "SendGrad" => pipe_buffers'[t] = pipe_buffers[t] /\ grad_layer'[t] = backward[t]
  PROVE  StageInv(t)'
<1> DEFINE L == Left(t)
           f == forward[t]
           n == backward[t]
           rv == RecvOf(op)
           r == [Held(t, f) EXCEPT !.inputs = f]
<1>1. /\ args' = args /\ forward' = forward /\ backward' = backward /\ weight' = weight
      /\ ended' = ended /\ loaded' = loaded /\ loss' = loss /\ cache' = cache
      /\ weight_grad_queue' = weight_grad_queue /\ lp_grad' = lp_grad /\ hp_grad' = hp_grad
      /\ fwd' = fwd /\ bwd' = bwd
  BY OthersSame
<1>2. /\ rv \in L /\ L' = L \ {rv}
  BY Receiving
<1>3. /\ op \in {"SendActivation", "SendGrad"}
      /\ op = "SendActivation" => rv = "RecvActivation"
      /\ op = "SendGrad" => rv = "RecvGrad"
  BY DEF Sends, RecvOf
<1>4. CmdsInv(t)' /\ CountInv(t)'
  BY <1>1, Execution
<1>5. LeftInv(t)'
  BY <1>1, LeftStep
<1>6. LeftInv(t) /\ PassInv(t) /\ BufferInv(t)
  BY DEF IInv, StageInv
<1>7. /\ L' \cap Passes = L \cap Passes
      /\ \A x \in {"ForwardPass", "LoadMicroBatch", "SendGrad"} : x \in L' <=> x \in L
  BY <1>2, <1>3 DEF Passes
<1>8. PassInv(t)'
  <2>1. /\ Pending(t, {"ForwardPass"})' = Pending(t, {"ForwardPass"})
        /\ Pending(t, Passes)' = Pending(t, Passes)
        /\ Pending(t, {"LoadMicroBatch"})' = Pending(t, {"LoadMicroBatch"})
    BY <1>2, <1>3 DEF Pending, Passes
  <2> QED BY <1>1, <1>6, <2>1 DEF PassInv, IsRun
<1>9. GradInv(t)'
  BY <1>1, <1>2, <1>3, GradFrame
<1>10. CASE op = "SendActivation"
  <2>1. /\ Writes(t, BufferId(t, f - 1), r) /\ grad_layer'[t] = grad_layer[t]
        /\ "RecvActivation" \in L /\ L' = L \ {"RecvActivation"}
    BY <1>2, <1>3, <1>10
  <2>2. ~First(t) /\ "ForwardPass" \in L
    BY <1>6, <2>1 DEF LeftInv
  <2>3. Len(fwd[t]) = f - 1
    BY <1>6, <2>2 DEF PassInv, Pending
  <2>4. f \in Nat /\ Len(bwd[t]) \in Nat /\ pipe_buffers[t] \in [0 .. P-t-1 -> Tensors]
        /\ n - 1 \in Int /\ f - 1 \in Int
    <3>1. Types
      BY TypesFlat DEF IInv
    <3>2. pipe_buffers[t] \in [0 .. P-t-1 -> Tensors]
      BY <3>1 DEF Types
    <3>3. f \in Nat /\ n \in Nat /\ Len(bwd[t]) \in Nat
      BY Counters
    <3> QED BY <3>2, <3>3
  <2>5. \A m \in Len(bwd[t]) + 1 .. Len(fwd[t]) : Held(t, m)' = Held(t, m)
    <3>1. \A m \in Len(bwd[t]) + 1 .. Len(fwd[t]) : m < forward[t]
      BY <2>3, <2>4
    <3> HIDE DEF r
    <3> QED BY <2>1, <3>1, FillKeeps
  <2>6. Held(t, f)' = r
    BY <1>1, <2>1 DEF Writes, Held
  <2>7. BufferId(t, f - 1) \in 0 .. P-t-1 /\ BufferId(t, n - 1) \in 0 .. P-t-1
    BY <2>4, BufferIdType
  <2>8. r.inputs = f /\ r.labels = Held(t, f).labels /\ r.input_grad = Held(t, f).input_grad
    <3>1. Held(t, f) \in Tensors
      BY <2>4, <2>7 DEF Held
    <3> QED BY <3>1 DEF Tensors
  <2>9. Held(t, n)'.input_grad = Held(t, n).input_grad
    <3>1. CASE BufferId(t, n - 1) = BufferId(t, f - 1)
      BY <1>1, <2>6, <2>8, <3>1 DEF Held
    <3>2. CASE BufferId(t, n - 1) # BufferId(t, f - 1)
      BY <1>1, <2>1, <2>7, <3>2 DEF Writes, Held
    <3> QED BY <3>1, <3>2
  <2>10. \A m \in Len(bwd[t]) + 1 .. Len(fwd[t]) : Held(t, m)'.inputs = m /\ Held(t, m)'.outputs = m
    BY <1>6, <2>5 DEF BufferInv
  <2>11. Last(t) /\ "LoadMicroBatch" \notin L => r.labels = f
    BY <1>6, <2>2, <2>8 DEF BufferInv
  <2>12. "SendGrad" \in L /\ L \cap Passes = {} => Held(t, n)'.input_grad = n
    BY <1>6, <2>9 DEF BufferInv
  <2>13. /\ ~Last(t) /\ L \cap Passes # {} /\ "RecvGrad" \notin L => grad_layer[t] = n
         /\ Last(t) => loss = Len(fwd[t])
    BY <1>6 DEF BufferInv
  <2>14. "RecvGrad" \in L' <=> "RecvGrad" \in L
    BY <2>1
  <2> HIDE DEF r
  <2>15. BufferInv(t)'
    BY <1>1, <1>7, <2>1, <2>2, <2>6, <2>8, <2>10, <2>11, <2>12, <2>13, <2>14 DEF BufferInv
  <2> QED BY <1>4, <1>5, <1>8, <1>9, <2>15 DEF StageInv
<1>11. CASE op = "SendGrad"
  <2>1. pipe_buffers'[t] = pipe_buffers[t] /\ grad_layer'[t] = n
        /\ L' = L \ {"RecvGrad"}
    BY <1>2, <1>3, <1>11
  <2>2. \A m : Held(t, m)' = Held(t, m)
    BY <2>1 DEF Held
  <2>3. "RecvActivation" \in L' <=> "RecvActivation" \in L
    BY <2>1
  <2>4. BufferInv(t)'
    BY <1>1, <1>6, <1>7, <2>1, <2>2, <2>3 DEF BufferInv
  <2> QED BY <1>4, <1>5, <1>8, <1>9, <2>4 DEF StageInv
<1> QED BY <1>3, <1>10, <1>11

\* To prove that an exchange between s and t preserves IInv, look at them
\* and the link between them.
LEMMA ExchangeStep ==
  ASSUME IInv, NEW s \in Stages, NEW op \in Sends, Peer(s, op) \in Stages,
         UNCHANGED Others, Shape', grad_layer' \in [Stages -> Nat],
         acts' \in [Stages -> Seq(Nat)], grads' \in [Stages -> Seq(Nat)],
         \A u \in Stages : pipe_buffers'[u] \in [0 .. P-u-1 -> Tensors],
         \A u \in Stages \ {s, Peer(s, op)} : Same(u),
         StageInv(s)', StageInv(Peer(s, op))', LinkInv(s, op)',
         \A u \in Stages, e \in Sends :
           ~(u = s /\ e = op) => Link(e)'[u] = Link(e)[u],
         \A e \in Sends : e # op => SentBy(s, e)' = SentBy(s, e),
         \A e \in Sends : ReceivedBy(s, e)' = ReceivedBy(s, e),
         \A e \in Sends : e # op =>
           ReceivedBy(Peer(s, op), e)' = ReceivedBy(Peer(s, op), e),
         \A e \in Sends : SentBy(Peer(s, op), e)' = SentBy(Peer(s, op), e)
  PROVE  IInv'
<1> DEFINE t == Peer(s, op)
<1>1. /\ args' = args /\ forward' = forward /\ backward' = backward /\ weight' = weight
      /\ ended' = ended /\ loaded' = loaded /\ loss' = loss /\ cache' = cache
      /\ weight_grad_queue' = weight_grad_queue /\ lp_grad' = lp_grad /\ hp_grad' = hp_grad
      /\ fwd' = fwd /\ bwd' = bwd
  BY OthersSame
<1>2. \A u \in Stages \ {s, t} :
        /\ StageInv(u)'
        /\ \A e : SentBy(u, e)' = SentBy(u, e) /\ ReceivedBy(u, e)' = ReceivedBy(u, e)
  BY <1>1, Frame DEF IInv
<1>3. \A u \in Stages : StageInv(u)'
  BY <1>2
<1>4. TypeOK'
  <2>1. Types
    BY TypesFlat DEF IInv
  <2>2. ASSUME NEW u \in Stages PROVE cmds'[u] \in Seq([op : Ops, buffer : 0 .. P-u-1])
    <3>1. forward'[u] \in Nat /\ backward'[u] \in Nat
      BY <1>1, <2>1 DEF Types
    <3>2. Listed(cmds'[u], u, forward'[u], backward'[u])
      BY <1>3 DEF StageInv, CmdsInv
    <3> QED BY <3>1, <3>2, ListedType
  <2>3. Types'
    BY <1>1, <2>1, <2>2 DEF Types
  <2> QED BY <2>3, TypesFlat
<1>5. ASSUME NEW u \in Stages, NEW e \in Sends, Peer(u, e) \in Stages
      PROVE  LinkInv(u, e)'
  <2>1. CASE u = s /\ e = op
    BY <2>1
  <2>2. CASE ~(u = s /\ e = op)
    <3>1. SentBy(u, e)' = SentBy(u, e)
      BY <1>2, <2>2
    <3>2. ReceivedBy(Peer(u, e), e)' = ReceivedBy(Peer(u, e), e)
      <4>1. CASE e # op
        BY <1>2, <1>5, <4>1
      <4>2. CASE e = op
        <5>1. Peer(u, e) # t
          <6>1. u \in Int /\ s \in Int /\ u # s
            BY <2>2, <4>2 DEF Stages
          <6>2. Peer(u, op) = (IF op = "SendActivation" THEN u + 1 ELSE u - 1)
                /\ t = (IF op = "SendActivation" THEN s + 1 ELSE s - 1)
            BY DEF Peer
          <6> QED BY <4>2, <6>1, <6>2
        <5> QED BY <1>2, <1>5, <5>1
      <4> QED BY <4>1, <4>2
    <3>3. LinkInv(u, e) /\ Link(e)'[u] = Link(e)[u]
      BY <1>5, <2>2 DEF IInv
    <3> QED BY <3>1, <3>2, <3>3 DEF LinkInv, IsRun
  <2> QED BY <2>1, <2>2
<1> QED BY <1>3, <1>4, <1>5 DEF IInv

\* The two links.
LEMMA LinkFacts ==
  ASSUME NEW op \in Sends, NEW e \in Sends, NEW l, SetLink(op, l)
  PROVE  Link(e)' = IF e = op THEN l ELSE Link(e)
BY DEF SetLink, Link, Sends

\* Stages that take no part in an exchange.
LEMMA Bystanders ==
  ASSUME UNCHANGED Others, NEW u, cmds'[u] = cmds[u], pipe_buffers'[u] = pipe_buffers[u],
         grad_layer'[u] = grad_layer[u]
  PROVE  Same(u)
BY OthersSame DEF Same

\* The end of the use of an input, ...
LEMMA SendWrites ==
  ASSUME IInv, NEW s \in Stages, Buffer(s) = BufferId(s, backward[s] - 1),
         pipe_buffers' = AfterSend(s, "SendGrad")
  PROVE  Writes(s, BufferId(s, backward[s] - 1), [Held(s, backward[s]) EXCEPT !.inputs = None])
<1> DEFINE n == backward[s]
           b == BufferId(s, n - 1)
           r == [Held(s, n) EXCEPT !.inputs = None]
<1>1. TypeOK /\ Shape /\ n \in Nat
  BY Counters
<1>2. pipe_buffers[s] \in [0 .. P-s-1 -> Tensors]
  BY <1>1, TypesFlat DEF Types
<1>3. b \in 0 .. P-s-1
  BY <1>1, BufferIdType
<1>4. r \in Tensors
  <2>1. Held(s, n) \in Tensors
    BY <1>2, <1>3 DEF Held
  <2> QED BY <2>1 DEF Tensors, None
<1>5. pipe_buffers' = [pipe_buffers EXCEPT ![s] = [pipe_buffers[s] EXCEPT ![b] = r]]
  BY DEF AfterSend, Held
<1> HIDE DEF b, r
<1> QED BY <1>1, <1>3, <1>4, <1>5, WriteFacts DEF b, r

\* ... and a received one.
LEMMA RecvWrites ==
  ASSUME IInv, NEW t \in Stages, Buffer(t) = BufferId(t, forward[t] - 1),
         pipe_buffers' = AfterRecv(t, "SendActivation", forward[t], pipe_buffers)
  PROVE  Writes(t, BufferId(t, forward[t] - 1),
                [Held(t, forward[t]) EXCEPT !.inputs = forward[t]])
<1> DEFINE f == forward[t]
           b == BufferId(t, f - 1)
           r == [Held(t, f) EXCEPT !.inputs = f]
<1>1. TypeOK /\ Shape /\ f \in Nat
  BY Counters
<1>2. pipe_buffers[t] \in [0 .. P-t-1 -> Tensors]
  BY <1>1, TypesFlat DEF Types
<1>3. b \in 0 .. P-t-1
  BY <1>1, BufferIdType
<1>4. r \in Tensors
  <2>1. Held(t, f) \in Tensors
    BY <1>2, <1>3 DEF Held
  <2> QED BY <1>1, <2>1 DEF Tensors
<1>5. pipe_buffers' = [pipe_buffers EXCEPT ![t] = [pipe_buffers[t] EXCEPT ![b] = r]]
  BY DEF AfterRecv, Held
<1> HIDE DEF b, r
<1> QED BY <1>1, <1>3, <1>4, <1>5, WriteFacts DEF b, r

\* What is sent on a link and not received.
LEMMA LinkType ==
  ASSUME IInv, NEW s \in Stages, NEW op \in Sends
  PROVE  /\ Link(op) \in [Stages -> Seq(Nat)] /\ Link(op)[s] \in Seq(Nat)
         /\ acts \in [Stages -> Seq(Nat)] /\ grads \in [Stages -> Seq(Nat)]
         /\ grad_layer \in [Stages -> Nat]
         /\ \A u \in Stages : pipe_buffers[u] \in [0 .. P-u-1 -> Tensors]
         /\ cmds = [u \in Stages |-> cmds[u]]
         /\ pipe_buffers = [u \in Stages |-> pipe_buffers[u]]
<1>1. Types /\ Shape
  BY TypesFlat DEF IInv
<1> QED BY <1>1 DEF Types, Shape, Link

\* What is received is a number of microbatches.
LEMMA ReceivedType ==
  ASSUME IInv, NEW t \in Stages, NEW op \in Sends
  PROVE  ReceivedBy(t, op) \in Nat
<1>1. LeftInv(t)
  BY DEF IInv, StageInv
<1>2. Count(t, op) \in Nat
  BY Counters DEF Count
<1>3. RecvOf(op) \in Left(t) => Count(t, op) > 0
  BY <1>1 DEF LeftInv, RecvOf, Count, Sends, ForwardOps, BackwardOps
<1>4. Pending(t, {RecvOf(op)}) = IF RecvOf(op) \in Left(t) THEN 1 ELSE 0
  BY DEF Pending
<1> QED BY <1>2, <1>3, <1>4 DEF ReceivedBy

\* A send into the transport's buffer preserves IInv.
LEMMA SendStep ==
  ASSUME IInv, NEW s \in Stages, NEW op \in Sends, Peer(s, op) \in Stages, Send(s, op)
  PROVE  IInv'
<1> DEFINE t == Peer(s, op)
           n == Count(s, op)
           q == Append(Link(op)[s], n)
           got == ReceivedBy(t, op)
<1>1. /\ Executes(s, op) /\ cmds' = [cmds EXCEPT ![s] = Tail(@)]
      /\ UNCHANGED Others /\ grad_layer' = grad_layer /\ pipe_buffers' = AfterSend(s, op)
      /\ SetLink(op, [Link(op) EXCEPT ![s] = Append(@, Sent(s, op))])
      /\ op \in {"SendActivation", "SendGrad"} /\ t # s
  BY PeerFacts DEF Send, Exec, Sends
<1>2. /\ Link(op) \in [Stages -> Seq(Nat)] /\ Link(op)[s] \in Seq(Nat)
      /\ acts \in [Stages -> Seq(Nat)] /\ grads \in [Stages -> Seq(Nat)]
      /\ grad_layer \in [Stages -> Nat]
      /\ \A u \in Stages : pipe_buffers[u] \in [0 .. P-u-1 -> Tensors]
      /\ cmds = [u \in Stages |-> cmds[u]]
      /\ pipe_buffers = [u \in Stages |-> pipe_buffers[u]]
  BY LinkType
<1>3. /\ cmds'[s] = Tail(cmds[s]) /\ cmds' = [u \in Stages |-> cmds'[u]]
      /\ \A u \in Stages \ {s} : cmds'[u] = cmds[u]
  BY <1>1, <1>2
<1>4. /\ n \in Nat /\ n > 0
      /\ Buffer(s) = BufferId(s, n - 1)
      /\ SentBy(s, op) = n - 1 /\ SentBy(s, op)' = n /\ Sent(s, op) = n
      /\ \A e \in Sends : e # op => SentBy(s, e)' = SentBy(s, e)
      /\ \A e \in Sends : ReceivedBy(s, e)' = ReceivedBy(s, e)
  BY <1>1, <1>3, Sending
<1>6. /\ op = "SendActivation" => pipe_buffers' = pipe_buffers
      /\ op = "SendGrad" => Writes(s, BufferId(s, backward[s] - 1),
                                   [Held(s, backward[s]) EXCEPT !.inputs = None])
  <2>1. op = "SendActivation" => pipe_buffers' = pipe_buffers
    BY <1>1 DEF AfterSend
  <2>2. ASSUME op = "SendGrad"
        PROVE  Writes(s, BufferId(s, backward[s] - 1),
                      [Held(s, backward[s]) EXCEPT !.inputs = None])
    <3>1. Buffer(s) = BufferId(s, backward[s] - 1) /\ pipe_buffers' = AfterSend(s, "SendGrad")
      BY <1>1, <1>4, <2>2 DEF Count
    <3> QED BY <3>1, SendWrites
  <2> QED BY <2>1, <2>2
<1>7. StageInv(s)'
  BY <1>1, <1>3, <1>6, SenderStage
<1>8. /\ pipe_buffers' = [u \in Stages |-> pipe_buffers'[u]]
      /\ \A u \in Stages \ {s} : pipe_buffers'[u] = pipe_buffers[u]
      /\ \A u \in Stages : pipe_buffers'[u] \in [0 .. P-u-1 -> Tensors]
  BY <1>1, <1>2, <1>6 DEF Writes
<1>9. \A u \in Stages \ {s} : Same(u)
  BY <1>1, <1>3, <1>8, Bystanders
<1>10. /\ StageInv(t)'
       /\ \A e : SentBy(t, e)' = SentBy(t, e) /\ ReceivedBy(t, e)' = ReceivedBy(t, e)
  <2>1. args' = args
    BY <1>1, OthersSame
  <2> QED BY <1>1, <1>9, <2>1, Frame DEF IInv
<1>11. \A e \in Sends : Link(e)' = IF e = op THEN [Link(op) EXCEPT ![s] = q] ELSE Link(e)
  BY <1>1, <1>4, LinkFacts
<1>12. LinkInv(s, op)'
  <2>1. LinkInv(s, op)
    BY DEF IInv
  <2>2. got \in Nat /\ got' = got
    BY <1>10, ReceivedType
  <2>3. Len(Link(op)[s]) = n - 1 - got /\ IsRun(Link(op)[s], got)
    BY <1>4, <2>1 DEF LinkInv
  <2>4. n = got + Len(Link(op)[s]) + 1
    BY <1>4, <2>2, <2>3
  <2>5. /\ q \in Seq(Nat) /\ Len(q) = Len(Link(op)[s]) + 1 /\ IsRun(q, got)
    BY <1>2, <2>2, <2>3, <2>4, RunAppend
  <2>6. Link(op)'[s] = q
    BY <1>2, <1>11
  <2>7. Len(q) = n - got
    BY <1>4, <2>2, <2>3, <2>5
  <2> HIDE DEF q
  <2> QED BY <1>4, <1>10, <2>5, <2>6, <2>7 DEF LinkInv, IsRun
<1>13. acts' \in [Stages -> Seq(Nat)] /\ grads' \in [Stages -> Seq(Nat)]
  <2>1. q \in Seq(Nat)
    BY <1>2, <1>4
  <2>2. Link(op)' \in [Stages -> Seq(Nat)]
    <3> HIDE DEF q
    <3> QED BY <1>2, <1>11, <2>1
  <2>3. acts' = (IF op = "SendActivation" THEN Link(op)' ELSE acts)
        /\ grads' = (IF op = "SendActivation" THEN grads ELSE Link(op)')
    BY <1>1 DEF SetLink, Link
  <2> QED BY <1>2, <2>2, <2>3
<1>14. \A u \in Stages, e \in Sends : ~(u = s /\ e = op) => Link(e)'[u] = Link(e)[u]
  BY <1>2, <1>11
<1>15. Shape'
  BY <1>3, <1>8 DEF Shape
<1> QED BY <1>1, <1>2, <1>4, <1>7, <1>8, <1>9, <1>10, <1>12, <1>13, <1>14, <1>15, ExchangeStep

\* A receive of the first tensor on the link preserves IInv.
LEMMA ReceiveStep ==
  ASSUME IInv, NEW s \in Stages, NEW op \in Sends, Peer(s, op) \in Stages, Receive(s, op)
  PROVE  IInv'
<1> DEFINE t == Peer(s, op)
           n == Count(t, op)
           l == Link(op)[s]
           q == Tail(l)
           got == ReceivedBy(t, op)
<1>1. /\ Executes(t, RecvOf(op)) /\ cmds' = [cmds EXCEPT ![t] = Tail(@)]
      /\ UNCHANGED Others /\ pipe_buffers' = AfterRecv(t, op, Head(l), pipe_buffers)
      /\ SetGradLayer(t, op, Head(l)) /\ l # <<>>
      /\ SetLink(op, [Link(op) EXCEPT ![s] = Tail(@)])
      /\ op \in {"SendActivation", "SendGrad"} /\ t # s /\ t \in Stages
  BY PeerFacts DEF Receive, Exec, Sends
<1>2. /\ Link(op) \in [Stages -> Seq(Nat)] /\ l \in Seq(Nat)
      /\ acts \in [Stages -> Seq(Nat)] /\ grads \in [Stages -> Seq(Nat)]
      /\ grad_layer \in [Stages -> Nat]
      /\ \A u \in Stages : pipe_buffers[u] \in [0 .. P-u-1 -> Tensors]
      /\ cmds = [u \in Stages |-> cmds[u]]
      /\ pipe_buffers = [u \in Stages |-> pipe_buffers[u]]
  BY LinkType
<1> HIDE DEF t
<1>3. /\ cmds'[t] = Tail(cmds[t]) /\ cmds' = [u \in Stages |-> cmds'[u]]
      /\ \A u \in Stages \ {t} : cmds'[u] = cmds[u]
  BY <1>1, <1>2
<1>4. /\ n \in Nat /\ n > 0
      /\ Buffer(t) = BufferId(t, n - 1)
      /\ ReceivedBy(t, op) = n - 1 /\ ReceivedBy(t, op)' = n
      /\ \A e \in Sends : e # op => ReceivedBy(t, e)' = ReceivedBy(t, e)
      /\ \A e \in Sends : SentBy(t, e)' = SentBy(t, e)
  BY <1>1, <1>3, Receiving
<1>5. /\ Len(l) = SentBy(s, op) - got /\ IsRun(l, got) /\ got \in Nat
      /\ Head(l) = got + 1 /\ q \in Seq(Nat) /\ Len(q) = Len(l) - 1 /\ IsRun(q, got + 1)
  <2>1. Len(l) = SentBy(s, op) - got /\ IsRun(l, got) /\ got \in Nat
    BY <1>1, ReceivedType DEF IInv, LinkInv, t
  <2>2. Len(l) > 0
    BY <1>1, <1>2
  <2> QED BY <1>2, <2>1, <2>2, RunTail
<1>6. Head(l) = n
  BY <1>4, <1>5
<1>7. /\ op = "SendActivation" =>
           /\ Writes(t, BufferId(t, forward[t] - 1),
                     [Held(t, forward[t]) EXCEPT !.inputs = forward[t]])
           /\ grad_layer' = grad_layer
      /\ op = "SendGrad" => pipe_buffers' = pipe_buffers /\ grad_layer' = [grad_layer EXCEPT ![t] = n]
                            /\ n = backward[t]
  <2>1. ASSUME op = "SendActivation"
        PROVE  /\ Writes(t, BufferId(t, forward[t] - 1),
                         [Held(t, forward[t]) EXCEPT !.inputs = forward[t]])
               /\ grad_layer' = grad_layer
    <3>1. /\ Buffer(t) = BufferId(t, forward[t] - 1)
          /\ pipe_buffers' = AfterRecv(t, "SendActivation", forward[t], pipe_buffers)
      BY <1>1, <1>4, <1>6, <2>1 DEF Count
    <3>2. grad_layer' = grad_layer
      BY <1>1, <2>1 DEF SetGradLayer
    <3> QED BY <1>1, <3>1, <3>2, RecvWrites
  <2>2. op = "SendGrad" => pipe_buffers' = pipe_buffers /\ grad_layer' = [grad_layer EXCEPT ![t] = n]
                            /\ n = backward[t]
    BY <1>1, <1>6 DEF AfterRecv, SetGradLayer, Count
  <2> QED BY <2>1, <2>2
<1>8. /\ pipe_buffers' = [u \in Stages |-> pipe_buffers'[u]]
      /\ \A u \in Stages \ {t} : pipe_buffers'[u] = pipe_buffers[u] /\ grad_layer'[u] = grad_layer[u]
      /\ \A u \in Stages : pipe_buffers'[u] \in [0 .. P-u-1 -> Tensors]
      /\ grad_layer' \in [Stages -> Nat]
      /\ op = "SendGrad" => grad_layer'[t] = backward[t]
  BY <1>1, <1>2, <1>4, <1>7 DEF Writes
<1>9. StageInv(t)'
  BY <1>1, <1>3, <1>7, <1>8, ReceiverStage
<1>10. \A u \in Stages \ {t} : Same(u)
  BY <1>1, <1>3, <1>8, Bystanders
<1>11. /\ StageInv(s)'
       /\ \A e : SentBy(s, e)' = SentBy(s, e) /\ ReceivedBy(s, e)' = ReceivedBy(s, e)
  <2>1. args' = args
    BY <1>1, OthersSame
  <2> QED BY <1>1, <1>10, <2>1, Frame DEF IInv
<1>12. \A e \in Sends : Link(e)' = IF e = op THEN [Link(op) EXCEPT ![s] = q] ELSE Link(e)
  BY <1>1, LinkFacts
<1>13. LinkInv(s, op)'
  <2>1. Link(op)'[s] = q
    BY <1>2, <1>12
  <2>2. n = got + 1 /\ SentBy(s, op) \in Int
    <3>1. SentBy(s, op) \in Int
      BY SMTT(60), Counters DEF SentBy, Count, Pending
    <3> QED BY <1>4, <3>1
  <2>3. Len(q) = SentBy(s, op) - n
    <3>1. Len(l) \in Nat
      BY <1>2
    <3> QED BY <1>4, <1>5, <2>2, <3>1
  <2>4. IsRun(q, n)
    BY <1>5, <2>2
  <2> HIDE DEF q
  <2> QED BY <1>4, <1>11, <2>1, <2>3, <2>4 DEF LinkInv, IsRun, t
<1>14. acts' \in [Stages -> Seq(Nat)] /\ grads' \in [Stages -> Seq(Nat)]
  <2>1. Link(op)' \in [Stages -> Seq(Nat)]
    <3> HIDE DEF q
    <3> QED BY <1>2, <1>5, <1>12
  <2>2. acts' = (IF op = "SendActivation" THEN Link(op)' ELSE acts)
        /\ grads' = (IF op = "SendActivation" THEN grads ELSE Link(op)')
    BY <1>1 DEF SetLink, Link
  <2> QED BY <1>2, <2>1, <2>2
<1>15. \A u \in Stages, e \in Sends : ~(u = s /\ e = op) => Link(e)'[u] = Link(e)[u]
  BY <1>2, <1>12
<1>16. Shape'
  BY <1>3, <1>8 DEF Shape
<1>17. \A u \in Stages \ {s, t} : Same(u)
  BY <1>10
<1> QED BY ZenonT(60), <1>1, <1>4, <1>8, <1>9, <1>11, <1>13, <1>14, <1>15, <1>16, <1>17, ExchangeStep DEF t

\* A handover preserves IInv: nothing is on the link, so sender and
\* receiver are at the same microbatch.
LEMMA HandoverStep ==
  ASSUME IInv, NEW s \in Stages, NEW op \in Sends, Peer(s, op) \in Stages, Handover(s, op)
  PROVE  IInv'
<1> DEFINE t == Peer(s, op)
           n == Count(s, op)
           l == Link(op)[s]
<1>1. /\ Executes(s, op) /\ Executes(t, RecvOf(op)) /\ l = <<>>
      /\ cmds' = [cmds EXCEPT ![s] = Tail(@), ![t] = Tail(@)]
      /\ UNCHANGED Others /\ acts' = acts /\ grads' = grads
      /\ pipe_buffers' = AfterRecv(t, op, Sent(s, op), AfterSend(s, op))
      /\ SetGradLayer(t, op, Sent(s, op))
      /\ op \in {"SendActivation", "SendGrad"} /\ t # s /\ t \in Stages
  BY PeerFacts DEF Handover, Sends, links
<1>2. /\ acts \in [Stages -> Seq(Nat)] /\ grads \in [Stages -> Seq(Nat)]
      /\ grad_layer \in [Stages -> Nat]
      /\ \A u \in Stages : pipe_buffers[u] \in [0 .. P-u-1 -> Tensors]
      /\ cmds = [u \in Stages |-> cmds[u]]
      /\ pipe_buffers = [u \in Stages |-> pipe_buffers[u]]
  BY LinkType
<1> HIDE DEF t
<1>3. /\ cmds'[s] = Tail(cmds[s]) /\ cmds'[t] = Tail(cmds[t])
      /\ cmds' = [u \in Stages |-> cmds'[u]]
      /\ \A u \in Stages \ {s, t} : cmds'[u] = cmds[u]
  BY <1>1, <1>2
<1>4. /\ n \in Nat /\ n > 0 /\ Buffer(s) = BufferId(s, n - 1)
      /\ SentBy(s, op) = n - 1 /\ SentBy(s, op)' = n /\ Sent(s, op) = n
      /\ \A e \in Sends : e # op => SentBy(s, e)' = SentBy(s, e)
      /\ \A e \in Sends : ReceivedBy(s, e)' = ReceivedBy(s, e)
  BY <1>1, <1>3, Sending
<1>5. /\ Count(t, op) \in Nat /\ Buffer(t) = BufferId(t, Count(t, op) - 1)
      /\ ReceivedBy(t, op) = Count(t, op) - 1 /\ ReceivedBy(t, op)' = Count(t, op)
      /\ \A e \in Sends : e # op => ReceivedBy(t, e)' = ReceivedBy(t, e)
      /\ \A e \in Sends : SentBy(t, e)' = SentBy(t, e)
  BY <1>1, <1>3, Receiving
<1>6. Count(t, op) = n
  <2>1. Len(l) = SentBy(s, op) - ReceivedBy(t, op)
    BY <1>1 DEF IInv, LinkInv, t
  <2>2. Len(l) = 0
    BY <1>1
  <2> QED BY <1>4, <1>5, <2>1, <2>2
<1>7. ASSUME op = "SendActivation"
      PROVE  /\ Writes(t, BufferId(t, forward[t] - 1),
                       [Held(t, forward[t]) EXCEPT !.inputs = forward[t]])
             /\ grad_layer' = grad_layer
  <2>1. /\ Buffer(t) = BufferId(t, forward[t] - 1)
        /\ pipe_buffers' = AfterRecv(t, "SendActivation", forward[t], pipe_buffers)
    BY <1>1, <1>4, <1>5, <1>6, <1>7 DEF Count, AfterSend
  <2>2. grad_layer' = grad_layer
    BY <1>1, <1>7 DEF SetGradLayer
  <2> QED BY <1>1, <2>1, <2>2, RecvWrites
<1>8. ASSUME op = "SendGrad"
      PROVE  /\ Writes(s, BufferId(s, backward[s] - 1),
                       [Held(s, backward[s]) EXCEPT !.inputs = None])
             /\ grad_layer' = [grad_layer EXCEPT ![t] = n] /\ n = backward[t]
  <2>1. Buffer(s) = BufferId(s, backward[s] - 1) /\ pipe_buffers' = AfterSend(s, "SendGrad")
    BY <1>1, <1>4, <1>8 DEF Count, AfterRecv
  <2>2. grad_layer' = [grad_layer EXCEPT ![t] = n] /\ n = backward[t]
    BY <1>1, <1>4, <1>6, <1>8 DEF SetGradLayer, Count
  <2> QED BY <2>1, <2>2, SendWrites
<1>9. /\ pipe_buffers' = [u \in Stages |-> pipe_buffers'[u]]
      /\ \A u \in Stages \ {s, t} : pipe_buffers'[u] = pipe_buffers[u] /\ grad_layer'[u] = grad_layer[u]
      /\ \A u \in Stages : pipe_buffers'[u] \in [0 .. P-u-1 -> Tensors]
      /\ grad_layer' \in [Stages -> Nat]
      /\ grad_layer'[s] = grad_layer[s]
      /\ op = "SendActivation" => pipe_buffers'[s] = pipe_buffers[s] /\ grad_layer'[t] = grad_layer[t]
      /\ op = "SendGrad" => pipe_buffers'[t] = pipe_buffers[t] /\ grad_layer'[t] = backward[t]
  <2>1. CASE op = "SendActivation"
    BY <1>1, <1>2, <1>7, <2>1 DEF Writes
  <2>2. CASE op = "SendGrad"
    BY ZenonT(60), <1>1, <1>2, <1>4, <1>8, <2>2 DEF Writes
  <2> QED BY <1>1, <2>1, <2>2
<1>10. StageInv(s)'
  BY <1>1, <1>3, <1>8, <1>9, SenderStage
<1>11. StageInv(t)'
  BY <1>1, <1>3, <1>7, <1>9, ReceiverStage
<1>12. \A u \in Stages \ {s, t} : Same(u)
  BY <1>1, <1>3, <1>9, Bystanders
<1>13. \A e \in Sends : Link(e)' = Link(e)
  BY <1>1 DEF Link
<1>14. LinkInv(s, op)'
  <2>1. Link(op)'[s] = <<>>
    BY <1>1, <1>13
  <2>2. Len(Link(op)'[s]) = n - n /\ IsRun(Link(op)'[s], n)
    BY <1>4, <2>1 DEF IsRun
  <2> QED BY <1>4, <1>5, <1>6, <2>2 DEF LinkInv, IsRun, t
<1>15. Shape'
  BY <1>3, <1>9 DEF Shape
<1> QED BY <1>1, <1>2, <1>4, <1>5, <1>9, <1>10, <1>11, <1>12, <1>13, <1>14, <1>15, ExchangeStep DEF t

-----------------------------------------------------------------------------
(***************************************************************************)
(* The invariant.                                                          *)
(***************************************************************************)

\* Before the first step nothing is passed, held or on its way.
LEMMA InitInv == Init => IInv
<1> SUFFICES ASSUME Init PROVE IInv
  OBVIOUS
<1>1. args \in Calls
  BY DEF Init
<1>2. /\ M \in Nat /\ M > 0 /\ P \in Nat /\ P > 1 /\ args.exact \in BOOLEAN /\ args.bf16 \in BOOLEAN
      /\ \A s \in Stages : s \in Nat /\ s < P /\ P - s \in Nat \ {0}
  BY <1>1, CallType
<1>3. Shape
  BY DEF Init, Shape
<1>4. TypeOK
  <2>1. \A s \in Stages : cmds[s] \in Seq([op : Ops, buffer : 0 .. P-s-1])
    BY DEF Init
  <2>2. \A s \in Stages : pipe_buffers[s] \in [0 .. P-s-1 -> [inputs : Nat, labels : Nat,
                                                     outputs : Nat, input_grad : Nat]]
    BY DEF Init, None
  <2>3. NoGrads \in Grads
    BY DEF NoGrads, Grads
  <2>4. weight_grad_queue \in [Stages -> Seq(Seq(Nat))]
    BY DEF Init
  <2>5. {acts, grads, cache, fwd, bwd} \subseteq [Stages -> Seq(Nat)]
    BY DEF Init
  <2>6. {lp_grad, hp_grad} \subseteq [Stages -> Grads]
    BY <2>3 DEF Init
  <2>7. /\ {forward, backward, weight, loaded, grad_layer} \subseteq [Stages -> Nat]
        /\ ended \in [Stages -> BOOLEAN] /\ loss \in Nat
    BY DEF Init, None
  <2> QED BY <1>1, <2>1, <2>2, <2>4, <2>5, <2>6, <2>7 DEF TypeOK
<1>5. ASSUME NEW s \in Stages
      PROVE  /\ Left(s) = {}
             /\ forward[s] = 0 /\ backward[s] = 0 /\ weight[s] = 0 /\ ended[s] = FALSE
             /\ loaded[s] = 0 /\ fwd[s] = <<>> /\ bwd[s] = <<>> /\ cache[s] = <<>>
             /\ weight_grad_queue[s] = <<>> /\ cmds[s] = <<>> /\ loss = 0
             /\ Len(fwd[s]) = 0 /\ Len(bwd[s]) = 0
             /\ Accumulated(s).weight = <<>> /\ Accumulated(s).other = <<>>
  <2>1. /\ forward[s] = 0 /\ backward[s] = 0 /\ weight[s] = 0 /\ ended[s] = FALSE
        /\ loaded[s] = 0 /\ fwd[s] = <<>> /\ bwd[s] = <<>> /\ cache[s] = <<>>
        /\ weight_grad_queue[s] = <<>> /\ cmds[s] = <<>> /\ loss = 0
    BY DEF Init, None
  <2>2. Accumulated(s) = NoGrads
    BY DEF Init, Accumulated
  <2>3. Left(s) = {}
    BY <2>1 DEF Left, OpsOf
  <2> QED BY <2>1, <2>2, <2>3 DEF NoGrads
<1>6. ASSUME NEW s \in Stages PROVE StageInv(s)
  <2>1. /\ forward[s] = 0 /\ backward[s] = 0 /\ weight[s] = 0 /\ ended[s] = FALSE
        /\ Left(s) = {} /\ loaded[s] = 0 /\ loss = 0
        /\ Len(fwd[s]) = 0 /\ Len(bwd[s]) = 0
    BY <1>5
  <2>2. /\ fwd[s] = <<>> /\ bwd[s] = <<>> /\ cache[s] = <<>> /\ cmds[s] = <<>>
        /\ weight_grad_queue[s] = <<>>
        /\ Accumulated(s).weight = <<>> /\ Accumulated(s).other = <<>>
    BY <1>5
  <2>3. /\ Pending(s, {"ForwardPass"}) = 0 /\ Pending(s, Passes) = 0
        /\ Pending(s, {"LoadMicroBatch"}) = 0
        /\ Pending(s, {"BackwardPass", "WeightPass"}) = 0
    BY <2>1 DEF Pending
  <2>4. CmdsInv(s)
    <3>1. <<>> \in Seq(Instruction) /\ Len(<<>>) = 0
      OBVIOUS
    <3> QED BY <2>2, <3>1 DEF CmdsInv, Listed, Ordered
  <2>5. LeftInv(s)
    BY <2>1 DEF LeftInv, Passes
  <2>6. CountInv(s)
    <3> DEFINE A == Min2(P - s - 1, M)
    <3>1. A \in 0 .. M
      BY <1>1, Lengths
    <3> HIDE DEF A
    <3>2. 0 <= A
      BY <1>2, <3>1
    <3> QED BY <2>1, <3>2 DEF CountInv, A
  <2>7. PassInv(s)
    BY <2>1, <2>2, <2>3 DEF PassInv, IsRun
  <2>8. BufferInv(s)
    BY <2>1 DEF BufferInv
  <2>9. GradInv(s)
    <3>1. Applied(s) = 0
      BY <2>1, <2>3 DEF Applied
    <3>2. Len(<<>>) = 0 /\ 1 .. 0 = {}
      OBVIOUS
    <3> QED BY <2>1, <2>2, <3>1, <3>2 DEF GradInv, IsRun
  <2> QED BY <2>4, <2>5, <2>6, <2>7, <2>8, <2>9 DEF StageInv
<1>7. ASSUME NEW s \in Stages, NEW op \in Sends, Peer(s, op) \in Stages
      PROVE  LinkInv(s, op)
  <2>1. SentBy(s, op) = 0
    <3>1. Pending(s, {op}) = 0 /\ Count(s, op) = 0
      BY <1>5 DEF Pending, Count
    <3> QED BY <3>1 DEF SentBy
  <2>2. ReceivedBy(Peer(s, op), op) = 0
    <3> DEFINE t == Peer(s, op)
    <3>1. t \in Stages
      BY <1>7
    <3> HIDE DEF t
    <3>2. Pending(t, {RecvOf(op)}) = 0 /\ Count(t, op) = 0
      BY <1>5, <3>1 DEF Pending, Count
    <3>3. ReceivedBy(t, op) = 0
      BY <3>2 DEF ReceivedBy
    <3> QED BY <3>3 DEF t
  <2>3. Link(op)[s] = <<>>
    BY DEF Init, Link
  <2> QED BY <2>1, <2>2, <2>3 DEF LinkInv, IsRun
<1> QED BY <1>3, <1>4, <1>6, <1>7 DEF IInv

\* A step that changes nothing preserves IInv.
LEMMA StutterInv ==
  ASSUME IInv, UNCHANGED vars
  PROVE  IInv'
<1>1. /\ args' = args /\ forward' = forward /\ backward' = backward /\ weight' = weight
      /\ ended' = ended /\ cmds' = cmds /\ loaded' = loaded /\ pipe_buffers' = pipe_buffers
      /\ grad_layer' = grad_layer /\ loss' = loss /\ acts' = acts /\ grads' = grads
      /\ cache' = cache /\ weight_grad_queue' = weight_grad_queue
      /\ lp_grad' = lp_grad /\ hp_grad' = hp_grad /\ fwd' = fwd /\ bwd' = bwd
  BY DEF vars, schedule, links, store, params
<1>2. \A s \in Stages : Same(s)
  BY <1>1 DEF Same
<1>3. \A s \in Stages : /\ StageInv(s)'
                        /\ \A op : /\ SentBy(s, op)' = SentBy(s, op)
                                   /\ ReceivedBy(s, op)' = ReceivedBy(s, op)
  BY <1>1, <1>2, Frame DEF IInv
<1>4. TypeOK' /\ Shape'
  BY <1>1 DEF IInv, TypeOK, Shape
<1>5. ASSUME NEW s \in Stages, NEW op \in Sends, Peer(s, op) \in Stages
      PROVE  LinkInv(s, op)'
  <2>1. LinkInv(s, op) /\ Link(op)' = Link(op)
    BY <1>1, <1>5 DEF IInv, Link
  <2> QED BY <1>3, <1>5, <2>1 DEF LinkInv, IsRun
<1> QED BY <1>3, <1>4, <1>5 DEF IInv

\* Every step preserves IInv.
LEMMA NextInv == IInv /\ [Next]_vars => IInv'
<1> SUFFICES ASSUME IInv, [Next]_vars PROVE IInv'
  OBVIOUS
<1>1. CASE Transfer
  <2>1. PICK s \in Stages, op \in {"SendActivation", "SendGrad"} :
          Peer(s, op) \in Stages /\ (Send(s, op) \/ Receive(s, op) \/ Handover(s, op))
    BY <1>1 DEF Transfer
  <2>2. op \in Sends
    BY DEF Sends
  <2> QED BY <2>1, <2>2, SendStep, ReceiveStep, HandoverStep
<1>2. ASSUME NEW s \in Stages, Step(s) PROVE IInv'
  <2>1. CASE Yield(s)
    BY <2>1, YieldStep
  <2>2. CASE LoadMicroBatch(s)
    BY <2>2, LoadStep
  <2>3. CASE ForwardPass(s)
    BY <2>3, ForwardStep
  <2>4. CASE BackwardPass(s)
    BY <2>4, BackwardPassStep
  <2>5. CASE BackwardOnlyPass(s)
    BY <2>5, BackwardOnlyStep
  <2>6. CASE WeightPass(s)
    BY <2>6, WeightPassStep
  <2>7. CASE ReduceGrads(s)
    BY <2>7, ReduceGradsStep
  <2>8. CASE OptimizerStep(s)
    BY <2>8, OptimizerStepStep
  <2> QED BY <1>2, <2>1, <2>2, <2>3, <2>4, <2>5, <2>6, <2>7, <2>8 DEF Step
<1>3. CASE Trained \/ UNCHANGED vars
  BY <1>3, StutterInv DEF Trained
<1> QED BY <1>1, <1>2, <1>3 DEF Next

\* The invariant holds in every state.
THEOREM Inductive == Spec => []IInv
<1> QED BY InitInv, NextInv, PTL DEF Spec

\* TypeOK: every variable keeps its type, and instructions name buffers
\* that exist.
THEOREM TypeCorrect == Spec => []TypeOK
<1>1. IInv => TypeOK
  BY DEF IInv
<1> QED BY <1>1, Inductive, PTL

\* The instruction a stage executes comes before all that are left.
LEMMA HeadFirst ==
  ASSUME IInv, NEW s \in Stages, NEW op, Executes(s, op)
  PROVE  /\ op \in Left(s)
         /\ \A x \in Left(s) : x = op \/ Position[op] < Position[x]
<1> DEFINE p == cmds[s]
<1>1. Listed(p, s, forward[s], backward[s]) /\ p # <<>> /\ Head(p).op = op
  BY DEF IInv, StageInv, CmdsInv, Executes
<1>2. /\ Head(p).op \in OpsOf(p) /\ Head(p).op \in Ops
      /\ Head(p).buffer = BufferOf(s, Head(p).op, forward[s], backward[s])
      /\ Listed(Tail(p), s, forward[s], backward[s])
      /\ OpsOf(Tail(p)) = OpsOf(p) \ {Head(p).op}
      /\ \A x \in OpsOf(Tail(p)) : x \in Ops /\ Position[Head(p).op] < Position[x]
  <2>1. Listed(p, s, forward[s], backward[s]) /\ p # <<>>
    BY <1>1
  <2> HIDE DEF p
  <2> QED BY <2>1, TailListed
<1> QED BY <1>1, <1>2 DEF Left

\* PassesInOrder: every stage passes the microbatches forward and backward
\* in order, a WeightPass finds its W, and no pass mixes two microbatches.
THEOREM PassesAlwaysInOrder == Spec => []PassesInOrder
<1>1. ASSUME IInv PROVE PassesInOrder
  <2> SUFFICES ASSUME NEW s \in Stages
               PROVE  InOrder(fwd[s]) /\ InOrder(bwd[s]) /\ WeightPassFindsW(s)
    BY DEF PassesInOrder
  <2>1. PassInv(s)
    BY <1>1 DEF IInv, StageInv
  <2>2. InOrder(fwd[s]) /\ InOrder(bwd[s])
    BY <2>1 DEF PassInv, IsRun, InOrder
  <2>3. ASSUME Executes(s, "WeightPass") PROVE weight_grad_queue[s] # <<>>
    <3>1. /\ "WeightPass" \in Left(s)
          /\ \A x \in Left(s) : x = "WeightPass" \/ Position["WeightPass"] < Position[x]
      BY <1>1, <2>3, HeadFirst
    <3>2. Left(s) \cap Passes = {}
      BY <3>1, Positions DEF Passes
    <3> QED BY <1>1, <3>1, <3>2, WeightFound
  <2> QED BY <2>2, <2>3 DEF WeightPassFindsW
<1> QED BY <1>1, Inductive, PTL

\* MemoryAs1F1B: a stage never holds activations or a W for more
\* microbatches than there are stages.
THEOREM MemoryAlwaysAs1F1B == Spec => []MemoryAs1F1B
<1>1. ASSUME IInv PROVE MemoryAs1F1B
  <2> SUFFICES ASSUME NEW s \in Stages
               PROVE  Len(fwd[s]) - Len(bwd[s]) + Len(weight_grad_queue[s]) <= P
    BY DEF MemoryAs1F1B
  <2> DEFINE q == weight_grad_queue[s]
             x == Pending(s, {"BackwardPass", "WeightPass"})
             y == Pending(s, {"ForwardPass"})
  <2>1. GradInv(s) /\ PassInv(s)
    BY <1>1 DEF IInv, StageInv
  <2>2. /\ Len(q) = Len(bwd[s]) - (weight[s] - x)
        /\ Len(fwd[s]) = forward[s] - y
    BY <2>1 DEF GradInv, PassInv, Applied
  <2>3. x \in {0, 1} /\ y \in {0, 1}
    BY DEF Pending
  <2>4. /\ forward[s] \in Nat /\ weight[s] \in Nat /\ forward[s] - weight[s] <= P - 1
        /\ Len(fwd[s]) \in Nat /\ Len(bwd[s]) \in Nat /\ P \in Nat
    BY <1>1, Counters
  <2> HIDE DEF x, y, q
  <2>5. Len(fwd[s]) - Len(bwd[s]) + Len(q) <= P
    <3>1. \A i, j \in {0, 1} : \A k, l, m, f, w \in Int :
            f - w <= P - 1 /\ m = f - j /\ l = k - (w - i) => m - k + l <= P
      BY <2>4
    <3>2. weight[s] - x \in Int /\ Len(bwd[s]) - (weight[s] - x) \in Int
      BY <2>3, <2>4
    <3>3. /\ Len(q) \in Int /\ Len(fwd[s]) \in Int /\ Len(bwd[s]) \in Int
          /\ forward[s] \in Int /\ weight[s] \in Int
      BY <2>2, <2>4, <3>2
    <3> QED BY <2>2, <2>3, <2>4, <3>1, <3>3
  <2> QED BY <2>5 DEF q
<1> QED BY <1>1, Inductive, PTL

\* GradsComplete: with exact semantics weight gradients are accumulated in
\* the order of 1F1B, and when the optimizer steps every microbatch has
\* been accumulated once in the gradients of all parameters.
THEOREM GradsAlwaysComplete == Spec => []GradsComplete
<1>1. ASSUME IInv, NEW s \in Stages PROVE ExactSemantics(s)
  <2>1. GradInv(s)
    BY <1>1 DEF IInv, StageInv
  <2> QED BY <2>1 DEF GradInv, ExactSemantics, Accumulated, InOrder, IsRun
<1>2. ASSUME IInv, NEW s \in Stages, Executes(s, "OptimizerStep")
      PROVE  /\ EachOnce(hp_grad[s].weight) /\ EachOnce(hp_grad[s].other)
             /\ weight_grad_queue[s] = <<>> /\ cache[s] = <<>>
  <2> DEFINE a == Accumulated(s)
             q == weight_grad_queue[s]
  <2>1. /\ "OptimizerStep" \in Left(s)
        /\ \A x \in Left(s) : x = "OptimizerStep" \/ Position["OptimizerStep"] < Position[x]
    BY <1>2, HeadFirst
  <2>2. LeftInv(s) /\ PassInv(s) /\ GradInv(s)
    BY <1>2 DEF IInv, StageInv
  <2>3. AtEnd(s) /\ Left(s) \subseteq {"ReduceGrads", "OptimizerStep"}
    BY <2>1, <2>2 DEF LeftInv
  <2>4. "ReduceGrads" \notin Left(s)
    BY <2>1, Positions
  <2>5. hp_grad[s] = a
    BY <2>1, <2>2, <2>4 DEF GradInv
  <2>6. M \in Nat /\ Len(bwd[s]) = M /\ Applied(s) = M
    <3>1. Pending(s, Passes) = 0 /\ Pending(s, {"BackwardPass", "WeightPass"}) = 0
      BY <2>3 DEF Pending, Passes
    <3>2. /\ Len(bwd[s]) = backward[s] - 0 /\ Applied(s) = weight[s] - 0
          /\ backward[s] = M /\ weight[s] = M
      BY <2>2, <2>3, <3>1 DEF PassInv, Applied, AtEnd
    <3> QED BY <1>2, <3>2, Counters
  <2>7. /\ a \in Grads /\ q \in Seq(Seq(Nat)) /\ cache[s] = <<>>
        /\ Whole(a, q, Applied(s), Len(bwd[s]), args.exact)
    BY <1>2, GradWhole
  <2>8. /\ a.weight \in Seq(Nat) /\ a.other \in Seq(Nat)
    BY <2>7 DEF Grads
  <2>9. /\ Len(q) = M - M /\ Len(a.weight) = M /\ Len(a.other) = M /\ IsRun(a.other, 0)
        /\ \A k \in 1 .. Len(a.weight) : a.weight[k] \in 1 .. M
        /\ \A m \in 1 .. M : \/ \E k \in 1 .. Len(a.weight) : a.weight[k] = m
                             \/ \E k \in 1 .. Len(q) : q[k][1] = m
    BY <2>6, <2>7 DEF Whole
  <2>10. Len(q) = 0 /\ q = <<>>
    BY <2>6, <2>7, <2>9
  <2>11. EachOnce(a.weight)
    <3>1. \A m \in 1 .. M : \E k \in 1 .. Len(a.weight) : a.weight[k] = m
      BY <2>9, <2>10
    <3>2. {a.weight[k] : k \in 1 .. Len(a.weight)} = 1 .. M
      BY <2>9, <3>1
    <3> QED BY <2>9, <3>2 DEF EachOnce
  <2>12. EachOnce(a.other)
    <3>1. {a.other[k] : k \in 1 .. Len(a.other)} = 1 .. Len(a.other)
      BY <2>8, <2>9, RunSet
    <3> QED BY <2>9, <3>1 DEF EachOnce
  <2> QED BY <2>5, <2>7, <2>10, <2>11, <2>12
<1>3. IInv => GradsComplete
  BY <1>1, <1>2 DEF GradsComplete
<1> QED BY <1>3, Inductive, PTL

-----------------------------------------------------------------------------
(***************************************************************************)
(* The schedule implements the abstract flush.                             *)
(***************************************************************************)

ForwardDone(s) == {fwd[s][k] : k \in 1 .. Len(fwd[s])}
BackwardDone(s) == {bwd[s][k] : k \in 1 .. Len(bwd[s])}
FlushFwd == [s \in Stages |-> ForwardDone(s)]
FlushBwd == [s \in Stages |-> BackwardDone(s)]

\* Under IInv the abstract sets of passes are intervals from 1.
LEMMA FlushSets ==
  ASSUME IInv, NEW s \in Stages
  PROVE  /\ FlushFwd[s] = 1 .. Len(fwd[s]) /\ Len(fwd[s]) \in Nat
         /\ FlushBwd[s] = 1 .. Len(bwd[s]) /\ Len(bwd[s]) \in Nat
<1>1. /\ fwd[s] \in Seq(Nat) /\ bwd[s] \in Seq(Nat)
      /\ IsRun(fwd[s], 0) /\ IsRun(bwd[s], 0)
  BY Counters DEF IInv, StageInv, PassInv
<1>2. {fwd[s][k] : k \in 1 .. Len(fwd[s])} = 1 .. Len(fwd[s])
  BY <1>1, RunSet
<1>3. {bwd[s][k] : k \in 1 .. Len(bwd[s])} = 1 .. Len(bwd[s])
  BY <1>1, RunSet
<1> QED BY <1>1, <1>2, <1>3 DEF FlushFwd, FlushBwd, ForwardDone, BackwardDone

\* The Cardinality of the instance is that of FiniteSets.
LEMMA FlushCardinality == \A S : PF!Cardinality(S) = Cardinality(S)
BY DEF PF!Cardinality, Cardinality

\* What stage s has received from stage t, stage t has passed on.
LEMMA PeerAhead ==
  ASSUME IInv, NEW t \in Stages, NEW op \in Sends, Peer(t, op) \in Stages,
         RecvOf(op) \notin Left(Peer(t, op))
  PROVE  Count(Peer(t, op), op) <=
           IF op = "SendActivation" THEN Len(fwd[t]) ELSE Len(bwd[t])
<1> DEFINE s == Peer(t, op)
           n == Count(s, op)
<1>1. LinkInv(t, op) /\ LeftInv(t) /\ PassInv(t) /\ s \in Stages
  BY DEF IInv, StageInv
<1>2. n \in Nat /\ Count(t, op) \in Nat /\ Len(fwd[t]) \in Nat /\ Len(bwd[t]) \in Nat
      /\ forward[t] \in Nat /\ backward[t] \in Nat
  BY <1>1, Counters DEF Count
<1>3. ReceivedBy(s, op) = n
  <2>1. Pending(s, {RecvOf(op)}) = 0
    BY DEF Pending
  <2>2. ReceivedBy(s, op) = n - 0
    BY <2>1 DEF ReceivedBy
  <2> QED BY <1>2, <2>2
<1>4. Len(Link(op)[t]) \in Nat
  BY LinkType
<1>5. n <= SentBy(t, op)
  <2>1. Len(Link(op)[t]) = SentBy(t, op) - n
    BY <1>1, <1>3 DEF LinkInv
  <2>2. SentBy(t, op) \in Int
    BY <1>2 DEF SentBy, Pending
  <2> HIDE DEF n
  <2> QED BY <1>2, <1>4, <2>1, <2>2
<1> HIDE DEF n, s
<1>6. CASE op = "SendActivation"
  <2>1. ~Last(t)
    BY <1>6, PeerFacts
  <2>2. "ForwardPass" \in Left(t) => "SendActivation" \in Left(t)
    BY <1>1, <2>1 DEF LeftInv
  <2>3. SentBy(t, op) = forward[t] - Pending(t, {"SendActivation"})
    BY <1>6 DEF SentBy, Count
  <2>4. Len(fwd[t]) = forward[t] - Pending(t, {"ForwardPass"})
    BY <1>1 DEF PassInv
  <2>5. SentBy(t, op) <= Len(fwd[t])
    BY <1>2, <2>2, <2>3, <2>4 DEF Pending
  <2>6. SentBy(t, op) \in Int
    BY <1>2 DEF SentBy, Pending
  <2> QED BY <1>2, <1>5, <1>6, <2>5, <2>6 DEF n, s
<1>7. CASE op = "SendGrad"
  <2>1. ~First(t)
    BY <1>7, PeerFacts
  <2>2. Left(t) \cap Passes # {} => "SendGrad" \in Left(t)
    BY <1>1, <2>1 DEF LeftInv
  <2>3. SentBy(t, op) = backward[t] - Pending(t, {"SendGrad"})
    BY <1>7 DEF SentBy, Count
  <2>4. Len(bwd[t]) = backward[t] - Pending(t, Passes)
    BY <1>1 DEF PassInv
  <2>5. SentBy(t, op) <= Len(bwd[t])
    <3>1. Pending(t, Passes) \in {0, 1} /\ Pending(t, {"SendGrad"}) \in {0, 1}
      BY DEF Pending
    <3>2. Pending(t, Passes) = 1 => Pending(t, {"SendGrad"}) = 1
      BY <2>2 DEF Pending
    <3> QED BY <1>2, <2>3, <2>4, <3>1, <3>2
  <2>6. SentBy(t, op) \in Int
    BY <1>2 DEF SentBy, Pending
  <2> QED BY <1>2, <1>5, <1>7, <2>5, <2>6 DEF n, s
<1> QED BY <1>6, <1>7 DEF Sends

\* A forward pass implements Forward of the abstract flush.
LEMMA ForwardFlush ==
  ASSUME IInv, NEW s \in Stages, ForwardPass(s)
  PROVE  PF!Next
<1> DEFINE f == Len(fwd[s])
           b == Len(bwd[s])
           m == forward[s]
<1>1. /\ f \in Nat /\ b \in Nat /\ s \in Nat /\ M \in Nat /\ P \in Nat /\ P - s \in Nat
      /\ m \in Nat /\ m > 0 /\ f = m - 1 /\ m <= M
      /\ FlushFwd[s] = 1 .. f /\ FlushBwd[s] = 1 .. b
  <2>1. FlushFwd[s] = 1 .. f /\ FlushBwd[s] = 1 .. b
    BY FlushSets
  <2>2. m > 0 /\ f = m - 1
    BY ForwardValue
  <2> QED BY <2>1, <2>2, Counters
<1>2. /\ fwd' = [fwd EXCEPT ![s] = Append(@, m)] /\ bwd' = bwd /\ args' = args
  BY ForwardValue DEF ForwardPass, Held
<1>3. fwd \in [Stages -> Seq(Nat)] /\ fwd[s] \in Seq(Nat) /\ IsRun(fwd[s], 0)
  BY TypesFlat DEF IInv, StageInv, PassInv, Types
<1>4. /\ FlushFwd' = [FlushFwd EXCEPT ![s] = @ \cup {m}]
      /\ FlushBwd' = FlushBwd
  <2> DEFINE q == Append(fwd[s], m)
  <2>1. q \in Seq(Nat) /\ Len(q) = f + 1 /\ IsRun(q, 0)
    <3>1. m = 0 + Len(fwd[s]) + 1
      BY <1>1
    <3> HIDE DEF m
    <3> QED BY <1>3, <3>1, RunAppend
  <2>2. {q[k] : k \in 1 .. Len(q)} = 1 .. f + 1
    <3> HIDE DEF q
    <3> QED BY <2>1, RunSet
  <2>3. fwd'[s] = q /\ \A t \in Stages \ {s} : fwd'[t] = fwd[t]
    BY <1>2, <1>3
  <2>4. 1 .. f + 1 = (1 .. f) \cup {m}
    <3> HIDE DEF f, m
    <3> QED BY <1>1
  <2>5. ForwardDone(s)' = {q[k] : k \in 1 .. Len(q)}
    <3> HIDE DEF q
    <3> QED BY <2>3 DEF ForwardDone
  <2>6. ForwardDone(s)' = FlushFwd[s] \cup {m}
    <3>1. FlushFwd[s] = 1 .. f
      BY <1>1
    <3> HIDE DEF q, f, m
    <3> QED BY <2>2, <2>4, <2>5, <3>1
  <2>7. \A t \in Stages \ {s} : ForwardDone(t)' = ForwardDone(t)
    BY <2>3 DEF ForwardDone
  <2>8. \A t \in Stages : BackwardDone(t)' = BackwardDone(t)
    BY <1>2 DEF BackwardDone
  <2>9. FlushFwd' = [FlushFwd EXCEPT ![s] = @ \cup {m}]
    <3> HIDE DEF q, m
    <3> QED BY <2>6, <2>7 DEF FlushFwd
  <2>10. FlushBwd' = FlushBwd
    BY <2>8 DEF FlushBwd
  <2> QED BY <2>9, <2>10
<1>5. s > 0 => m \in FlushFwd[s-1]
  <2> SUFFICES ASSUME s > 0 PROVE m \in FlushFwd[s-1]
    OBVIOUS
  <2>1. /\ s - 1 \in Stages /\ "SendActivation" \in Sends /\ Peer(s - 1, "SendActivation") = s
        /\ RecvOf("SendActivation") = "RecvActivation" /\ Count(s, "SendActivation") = m
    BY PAssumption DEF Stages, Sends, Peer, RecvOf, Count
  <2>2. "RecvActivation" \notin Left(s)
    <3>1. Executes(s, "ForwardPass")
      BY DEF ForwardPass, Exec
    <3> QED BY <3>1, HeadFirst, Positions
  <2>3. m <= Len(fwd[s-1])
    BY <2>1, <2>2, PeerAhead
  <2>4. FlushFwd[s-1] = 1 .. Len(fwd[s-1]) /\ Len(fwd[s-1]) \in Nat
    BY <2>1, FlushSets
  <2> QED BY <1>1, <2>3, <2>4
<1>6. Cardinality(FlushFwd[s] \ FlushBwd[s]) < P - s
  <2>1. f - b < P - s
    <3> DEFINE x == Pending(s, Passes)
               n == backward[s]
    <3>1. b = n - x /\ x \in {0, 1}
      BY DEF IInv, StageInv, PassInv, Pending
    <3>2. n \in Nat /\ m - n <= P - s - 1
      BY Counters
    <3> HIDE DEF x, n, b, f, m
    <3>3. f - b = m - n - 1 + x
      BY <1>1, <3>1, <3>2
    <3> QED BY SMTT(60), <1>1, <3>1, <3>2, <3>3
  <2>2. FlushFwd[s] \ FlushBwd[s] = b + 1 .. f
    <3>1. \A x, y \in Nat : (1 .. x) \ (1 .. y) = y + 1 .. x
      OBVIOUS
    <3> QED BY <1>1, <3>1
  <2>3. Cardinality(b + 1 .. f) = IF b + 1 > f THEN 0 ELSE f - (b + 1) + 1
    <3>1. b + 1 \in Int /\ f \in Int
      BY <1>1
    <3> HIDE DEF f, b
    <3> QED BY <3>1, FS_Interval
  <2>4. P - s > 0
    BY Counters
  <2>5. (IF b + 1 > f THEN 0 ELSE f - (b + 1) + 1) < P - s
    <3>1. f \in Int /\ b \in Int /\ P - s \in Int
      BY <1>1
    <3> DEFINE room == P - s
    <3> HIDE DEF f, b, room
    <3>2. f - b < room /\ room > 0 /\ room \in Int
      BY <2>1, <2>4, <3>1 DEF room
    <3>3. (IF b + 1 > f THEN 0 ELSE f - (b + 1) + 1) < room
      BY <3>1, <3>2
    <3> QED BY <3>3 DEF room
  <2> QED BY <2>2, <2>3, <2>5
<1>7. m \notin FlushFwd[s] /\ m \in 1 .. M /\ M' = M
  <2>1. M' = M
    BY <1>2 DEF M
  <2> HIDE DEF m, f
  <2> QED BY <1>1, <2>1
<1> HIDE DEF f, b, m
<1>8. PICK k \in 1 .. M : k = m
  BY <1>7
<1>9. PF!Forward(s, k)
  <2>1. PF!Cardinality(FlushFwd[s] \ FlushBwd[s]) = Cardinality(FlushFwd[s] \ FlushBwd[s])
    BY FlushCardinality
  <2>2. [t \in Stages |-> P - t][s] = P - s
    OBVIOUS
  <2>3. /\ k \notin FlushFwd[s] /\ M' = M
        /\ s > 0 => k \in FlushFwd[s-1]
        /\ FlushFwd' = [FlushFwd EXCEPT ![s] = @ \cup {k}]
    BY <1>4, <1>5, <1>7, <1>8
  <2> QED BY <1>4, <1>6, <2>1, <2>2, <2>3
     DEF PF!Forward, FlushFwd, FlushBwd, ForwardDone, BackwardDone
<1>10. PF!Forward(s, k) \/ PF!Backward(s, k)
  BY <1>9
<1>11. s \in PF!Stages /\ k \in PF!Microbatches
  BY DEF PF!Microbatches, PF!Stages, Stages
<1> QED BY <1>10, <1>11 DEF PF!Next

\* A backward pass, of either kind, implements Backward.
LEMMA BackwardFlush ==
  ASSUME IInv, NEW s \in Stages, NEW op \in Passes, Exec(s, op), UNCHANGED <<args, schedule>>,
         bwd' = [bwd EXCEPT ![s] = Append(@, Gradient(s))], fwd' = fwd
  PROVE  PF!Next
<1> DEFINE f == Len(fwd[s])
           b == Len(bwd[s])
           m == backward[s]
<1>1. /\ f \in Nat /\ b \in Nat /\ s \in Nat /\ M \in Nat /\ P \in Nat
      /\ m \in Nat /\ m > 0 /\ b = m - 1 /\ m <= f /\ m <= M
      /\ FlushFwd[s] = 1 .. f /\ FlushBwd[s] = 1 .. b
  <2>1. FlushFwd[s] = 1 .. f /\ FlushBwd[s] = 1 .. b
    BY FlushSets
  <2>2. m > 0 /\ b = m - 1 /\ f = forward[s]
    BY GradientValue
  <2>3. /\ f \in Nat /\ b \in Nat /\ s \in Nat /\ M \in Nat /\ P \in Nat /\ m \in Nat
        /\ m <= forward[s] /\ forward[s] <= M /\ forward[s] \in Nat
    BY Counters
  <2> HIDE DEF f, b, m
  <2> QED BY <2>1, <2>2, <2>3
<1>2. /\ bwd' = [bwd EXCEPT ![s] = Append(@, m)] /\ args' = args
  BY GradientValue
<1>3. bwd \in [Stages -> Seq(Nat)] /\ bwd[s] \in Seq(Nat) /\ IsRun(bwd[s], 0)
  BY TypesFlat DEF IInv, StageInv, PassInv, Types
<1>4. /\ FlushBwd' = [FlushBwd EXCEPT ![s] = @ \cup {m}]
      /\ FlushFwd' = FlushFwd
  <2> DEFINE q == Append(bwd[s], m)
  <2>1. q \in Seq(Nat) /\ Len(q) = b + 1 /\ IsRun(q, 0)
    <3>1. m = 0 + Len(bwd[s]) + 1
      BY <1>1
    <3> HIDE DEF m
    <3> QED BY <1>3, <3>1, RunAppend
  <2>2. {q[k] : k \in 1 .. Len(q)} = 1 .. b + 1
    <3> HIDE DEF q
    <3> QED BY <2>1, RunSet
  <2>3. bwd'[s] = q /\ \A t \in Stages \ {s} : bwd'[t] = bwd[t]
    BY <1>2, <1>3
  <2>4. 1 .. b + 1 = (1 .. b) \cup {m}
    <3> HIDE DEF b, m
    <3> QED BY <1>1
  <2>5. BackwardDone(s)' = {q[k] : k \in 1 .. Len(q)}
    <3> HIDE DEF q
    <3> QED BY <2>3 DEF BackwardDone
  <2>6. BackwardDone(s)' = FlushBwd[s] \cup {m}
    <3>1. FlushBwd[s] = 1 .. b
      BY <1>1
    <3> HIDE DEF q, b, m
    <3> QED BY <2>2, <2>4, <2>5, <3>1
  <2>7. \A t \in Stages \ {s} : BackwardDone(t)' = BackwardDone(t)
    BY <2>3 DEF BackwardDone
  <2>8. \A t \in Stages : ForwardDone(t)' = ForwardDone(t)
    BY DEF ForwardDone
  <2>9. FlushBwd' = [FlushBwd EXCEPT ![s] = @ \cup {m}]
    <3> HIDE DEF q, m
    <3> QED BY <2>6, <2>7 DEF FlushBwd
  <2>10. FlushFwd' = FlushFwd
    BY <2>8 DEF FlushFwd
  <2> QED BY <2>9, <2>10
<1>5. s < P - 1 => m \in FlushBwd[s+1]
  <2> SUFFICES ASSUME s < P - 1 PROVE m \in FlushBwd[s+1]
    OBVIOUS
  <2>1. /\ s + 1 \in Stages /\ "SendGrad" \in Sends /\ Peer(s + 1, "SendGrad") = s
        /\ RecvOf("SendGrad") = "RecvGrad" /\ Count(s, "SendGrad") = m
    BY PAssumption DEF Stages, Sends, Peer, RecvOf, Count
  <2>2. "RecvGrad" \notin Left(s)
    <3>1. Executes(s, op)
      BY DEF Exec
    <3> QED BY <3>1, HeadFirst, Positions DEF Passes
  <2>3. m <= Len(bwd[s+1])
    BY <2>1, <2>2, PeerAhead
  <2>4. FlushBwd[s+1] = 1 .. Len(bwd[s+1]) /\ Len(bwd[s+1]) \in Nat
    BY <2>1, FlushSets
  <2> QED BY <1>1, <2>3, <2>4
<1>6. m \in FlushFwd[s] \ FlushBwd[s] /\ m \in 1 .. M /\ M' = M
  <2>1. M' = M
    BY <1>2 DEF M
  <2> HIDE DEF m, f, b
  <2> QED BY <1>1, <2>1
<1> HIDE DEF f, b, m
<1>7. PICK k \in 1 .. M : k = m
  BY <1>6
<1>8. PF!Backward(s, k)
  <2>1. /\ k \in FlushFwd[s] \ FlushBwd[s] /\ M' = M
        /\ s < P - 1 => k \in FlushBwd[s+1]
        /\ FlushBwd' = [FlushBwd EXCEPT ![s] = @ \cup {k}]
    BY <1>4, <1>5, <1>6, <1>7
  <2> QED BY <1>4, <2>1
     DEF PF!Backward, FlushFwd, FlushBwd, ForwardDone, BackwardDone
<1>9. PF!Forward(s, k) \/ PF!Backward(s, k)
  BY <1>8
<1>10. s \in PF!Stages /\ k \in PF!Microbatches
  BY DEF PF!Microbatches, PF!Stages, Stages
<1> QED BY <1>9, <1>10 DEF PF!Next

\* A step without a pass is a stutter of the abstract flush.
LEMMA FlushStutter ==
  ASSUME args' = args, fwd' = fwd, bwd' = bwd
  PROVE  UNCHANGED PF!vars
BY DEF PF!vars, M

\* Every step of the schedule is one of the abstract flush, or a stutter.
LEMMA FlushStep ==
  ASSUME IInv, [Next]_vars
  PROVE  [PF!Next]_PF!vars
<1>1. ASSUME Transfer PROVE UNCHANGED PF!vars
  <2>1. UNCHANGED Others
    BY <1>1 DEF Transfer, Send, Receive, Handover
  <2> QED BY <2>1, OthersSame, FlushStutter
<1>2. ASSUME NEW s \in Stages, Step(s) PROVE PF!Next \/ UNCHANGED PF!vars
  <2>1. CASE ForwardPass(s)
    BY <2>1, ForwardFlush
  <2>2. CASE BackwardPass(s)
    <3>1. /\ "BackwardPass" \in Passes /\ Exec(s, "BackwardPass") /\ UNCHANGED <<args, schedule>>
          /\ bwd' = [bwd EXCEPT ![s] = Append(@, Gradient(s))] /\ fwd' = fwd
      BY <2>2 DEF BackwardPass, Passes
    <3> QED BY <3>1, BackwardFlush
  <2>3. CASE BackwardOnlyPass(s)
    <3>1. /\ "BackwardOnlyPass" \in Passes /\ Exec(s, "BackwardOnlyPass")
          /\ UNCHANGED <<args, schedule>>
          /\ bwd' = [bwd EXCEPT ![s] = Append(@, Gradient(s))] /\ fwd' = fwd
      BY <2>3 DEF BackwardOnlyPass, Passes
    <3> QED BY <3>1, BackwardFlush
  <2>4. CASE \/ Yield(s) \/ LoadMicroBatch(s) \/ WeightPass(s)
             \/ ReduceGrads(s) \/ OptimizerStep(s)
    <3>1. args' = args /\ fwd' = fwd /\ bwd' = bwd
      BY <2>4 DEF Yield, LoadMicroBatch, WeightPass, ReduceGrads, OptimizerStep
    <3> QED BY <3>1, FlushStutter
  <2> QED BY <1>2, <2>1, <2>2, <2>3, <2>4 DEF Step
<1>3. ASSUME UNCHANGED vars PROVE UNCHANGED PF!vars
  <2>1. args' = args /\ fwd' = fwd /\ bwd' = bwd
    BY <1>3 DEF vars
  <2> QED BY <2>1, FlushStutter
<1> QED BY <1>1, <1>2, <1>3 DEF Next, Trained

\* The schedule starts where the abstract flush does.
LEMMA FlushInit == Init => PF!Init
<1> SUFFICES ASSUME Init PROVE PF!Init
  OBVIOUS
<1>1. M \in Nat \ {0}
  BY CallType DEF Init
<1>2. \A s \in Stages : /\ {fwd[s][k] : k \in 1 .. Len(fwd[s])} = {}
                        /\ {bwd[s][k] : k \in 1 .. Len(bwd[s])} = {}
  <2>1. \A s \in Stages : Len(fwd[s]) = 0 /\ Len(bwd[s]) = 0
    BY DEF Init
  <2> QED BY <2>1
<1>3. FlushFwd = [s \in Stages |-> {}] /\ FlushBwd = [s \in Stages |-> {}]
  BY <1>2 DEF FlushFwd, FlushBwd, ForwardDone, BackwardDone
<1> QED BY <1>1, <1>3 DEF PF!Init, FlushFwd, FlushBwd, ForwardDone, BackwardDone, PF!Stages, Stages

\* The safety part of ImplementsFlush: every behaviour of the schedule is
\* one of the abstract flush, in which a microbatch's forward pass follows
\* the one of the stage before, its backward pass the one of the stage
\* after, and stage s never holds more than P - s activations.
THEOREM ImplementsFlushSafety == Spec => PF!Init /\ [][PF!Next]_PF!vars
<1> QED BY FlushInit, FlushStep, Inductive, PTL DEF Spec

=============================================================================
