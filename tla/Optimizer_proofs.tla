-------------------------- MODULE Optimizer_proofs ----------------------------
(***************************************************************************)
(* What every rank reads off by itself about the sharing of the work, the  *)
(* loss scalers, and that the optimizers of all ranks are one.             *)
(*                                                                         *)
(* Groups, for every accepted choice of the sizes without DeepSpeed's      *)
(* sequence parallelism: the groups of each kind partition the world, a    *)
(* replica of the model meets every data-parallel group in one rank, a     *)
(* rank is known by its ranks in its three groups, and a pipeline joins    *)
(* ranks that work on one batch and one slice of the tensors.              *)
(*                                                                         *)
(* Ranges, for every size of the gradient buffer, number of data-parallel  *)
(* ranks and parameter in the buffer: the slices of the ranks are a        *)
(* partition of the buffer, every element of a parameter is owned by       *)
(* exactly one rank, and the three ranges of an owned part (in the buffer, *)
(* in the slice and in the parameter) speak of the same elements.          *)
(*                                                                         *)
(* Scalers, for all their parameters, models, numbers of replicas, steps   *)
(* and restarts: a rank's loss scaler is the one the comments of update()  *)
(* describe after the steps the rank has seen.  The first half is about    *)
(* histories alone: one more step changes what the comments describe the   *)
(* way update() changes the scaler.                                        *)
(*                                                                         *)
(* Steps, for every model, number of replicas, steps and restarts: what a  *)
(* rank holds is a function of the decisions on the steps, of the steps it *)
(* has finished and of the phase of the next one it is in (SyncInv).  From *)
(* this follow the types, and that both optimizers implement               *)
(* SynchronousOptimizer.                                                   *)
(***************************************************************************)
EXTENDS Optimizer, FiniteSetTheorems, SequenceTheorems, TLAPS

-----------------------------------------------------------------------------
\* Facts about numbers.

\* A product grows with its factor by at least the other one.
LEMMA NextMultiple ==
  ASSUME NEW a \in Int, NEW b \in Int, NEW s \in Nat, a < b
  PROVE  a * s + s <= b * s
<1>1. PICK d \in Nat : b = a + 1 + d
  <2>1. b - a - 1 \in Nat /\ b = a + 1 + (b - a - 1)
    OBVIOUS
  <2> QED BY <2>1
<1>2. b * s = a * s + s + d * s
  BY <1>1
<1>3. d * s \in Nat
  OBVIOUS
<1> QED BY <1>2, <1>3

\* Division with remainder.
LEMMA Quotient ==
  ASSUME NEW j \in Int, NEW s \in Nat \ {0}
  PROVE  /\ j \div s \in Int
         /\ j % s \in 0 .. s - 1
         /\ j = (j \div s) * s + (j % s)
  OBVIOUS

\* A number has one pair of digits in base b.
LEMMA DigitsUnique ==
  ASSUME NEW b \in Nat \ {0}, NEW x \in Int, NEW y \in 0 .. b - 1,
         NEW u \in Int, NEW v \in 0 .. b - 1, x * b + y = u * b + v
  PROVE  x = u /\ y = v
<1>0. x * b \in Int /\ u * b \in Int
  OBVIOUS
<1>1. CASE x < u
  <2>1. x * b + b <= u * b
    BY <1>1, NextMultiple
  <2> QED BY <1>0, <2>1
<1>2. CASE u < x
  <2>1. u * b + b <= x * b
    BY <1>2, NextMultiple
  <2> QED BY <1>0, <2>1
<1>3. CASE x = u
  BY <1>0, <1>3
<1> QED BY <1>1, <1>2, <1>3

\* Digits below a and b make a number below a * b, ...
LEMMA DigitsBound ==
  ASSUME NEW a \in Nat \ {0}, NEW b \in Nat \ {0}, NEW x \in 0 .. a - 1, NEW y \in 0 .. b - 1
  PROVE  x * b + y \in 0 .. a * b - 1
<1>1. x * b \in Nat /\ a * b \in Nat
  OBVIOUS
<1>2. x * b + b <= a * b
  BY NextMultiple
<1> QED BY <1>1, <1>2

\* ... and every such number has them.
LEMMA Digits ==
  ASSUME NEW a \in Nat \ {0}, NEW b \in Nat \ {0}, NEW r \in 0 .. a * b - 1
  PROVE  /\ r \div b \in 0 .. a - 1
         /\ r % b \in 0 .. b - 1
         /\ r = (r \div b) * b + (r % b)
<1> DEFINE x == r \div b
           y == r % b
<1>1. x \in Int /\ y \in 0 .. b - 1 /\ r = x * b + y /\ a * b \in Int /\ r \in Int
  BY Quotient
<1> HIDE DEF x, y
<1>0. x * b \in Int
  BY <1>1
<1>2. 0 <= x
  <2>1. CASE x < 0
    <3>1. x * b + b <= 0 * b
      BY <1>1, <2>1, NextMultiple
    <3> QED BY <1>1, <1>0, <3>1
  <2> QED BY <1>1, <2>1
<1>3. x < a
  <2>1. CASE a < x
    <3>1. a * b + b <= x * b
      BY <1>1, <2>1, NextMultiple
    <3> QED BY <1>1, <1>0, <3>1
  <2>2. CASE a = x
    BY <2>2, <1>1, <1>0
  <2> QED BY <1>1, <2>1, <2>2
<1>4. x \in 0 .. a - 1
  BY <1>1, <1>2, <1>3
<1>5. x = r \div b /\ y = r % b
  BY DEF x, y
<1> QED BY <1>1, <1>4, <1>5

\* Division finds the digits.
LEMMA ExactQuotient ==
  ASSUME NEW n \in Int, NEW b \in Nat \ {0}, NEW y \in 0 .. b - 1
  PROVE  (n * b + y) \div b = n /\ (n * b + y) % b = y
<1> DEFINE j == n * b + y
<1>1. j \in Int
  OBVIOUS
<1>2. j \div b \in Int /\ j % b \in 0 .. b - 1 /\ j = (j \div b) * b + (j % b)
  BY <1>1, Quotient
<1>3. j = n * b + y
  OBVIOUS
<1> HIDE DEF j
<1>4. n = j \div b /\ y = j % b
  BY <1>2, <1>3, DigitsUnique
<1> QED BY <1>4 DEF j

\* A set of numbers that is not empty has a least element.
LEMMA LeastElement ==
  ASSUME NEW C \in SUBSET Nat, C # {}
  PROVE  \E m \in C : \A k \in C : m <= k
<1> DEFINE Less == StrictSubsetOrdering(Nat)
           F == FiniteSubsetsOf(Nat)
           T == {1 .. n : n \in C}
<1>1. IsWellFoundedOn(Less, F)
  BY FS_StrictSubsetOrderingWellFounded
<1>2. T \subseteq F
  <2>1. ASSUME NEW n \in C PROVE 1 .. n \in F
    <3>1. IsFiniteSet(1 .. n)
      BY FS_Interval
    <3> QED BY <3>1 DEF FiniteSubsetsOf
  <2> QED BY <2>1
<1>3. T # {}
  OBVIOUS
<1>4. PICK x \in T : \A y \in T : ~ (<<y, x>> \in Less)
  <2> HIDE DEF Less, F, T
  <2> QED BY <1>1, <1>2, <1>3, WFMin
<1>5. PICK m \in C : x = 1 .. m
  OBVIOUS
<1>6. ASSUME NEW k \in C, k < m
      PROVE  FALSE
  <2>1. 1 .. k \in T
    OBVIOUS
  <2>2. ~ (<<1 .. k, 1 .. m>> \in Less)
    BY <1>4, <1>5, <2>1
  <2>3. 1 .. k \subseteq 1 .. m /\ m \in 1 .. m /\ m \notin 1 .. k
    BY <1>6
  <2>4. 1 .. k \in SUBSET Nat /\ 1 .. m \in SUBSET Nat
    OBVIOUS
  <2>5. <<1 .. k, 1 .. m>> \in Less
    BY <2>3, <2>4 DEF StrictSubsetOrdering
  <2> QED BY <2>2, <2>5
<1> QED BY <1>6

\* A set that has 0 and with every number the next one has them all.
LEMMA SetInduction ==
  ASSUME NEW T \in SUBSET Nat, 0 \in T, \A n \in T : n + 1 \in T
  PROVE  T = Nat
<1> DEFINE C == Nat \ T
<1>1. SUFFICES ASSUME C # {} PROVE FALSE
  OBVIOUS
<1>2. PICK x \in C : \A k \in C : x <= k
  BY <1>1, LeastElement
<1>3. x - 1 \in Nat /\ x - 1 \in T
  BY <1>2
<1> QED BY <1>2, <1>3

-----------------------------------------------------------------------------
(***************************************************************************)
(* The groups of initialize_model_parallel.                                *)
(***************************************************************************)

AcceptedSizes ==
  {s \in [world : Nat \ {0}, tensor : Nat \ {0}, pipeline : Nat \ {0}, sequence : {1}] : Accepted(s)}

World(s) == 0 .. s.world - 1

\* A rank is in one of these groups, and in no second one.
InOne(groups, r) ==
  \E n \in DOMAIN groups : /\ r \in Members(groups[n])
                           /\ \A m \in DOMAIN groups : r \in Members(groups[m]) => m = n

\* The rank at stage i, replica k and slice j.
Coordinate(s, i, k, j) == i * PerStage(s) + (k * s.tensor + j)

\* The sizes multiply up.
LEMMA Shape ==
  ASSUME NEW s \in AcceptedSizes
  PROVE  /\ s.tensor \in Nat \ {0} /\ s.pipeline \in Nat \ {0} /\ s.world \in Nat \ {0}
         /\ s.sequence = 1 /\ PerBatch(s) = s.tensor
         /\ DataParallelSize(s) \in Nat \ {0} /\ PerStage(s) \in Nat \ {0}
         /\ PerStage(s) = DataParallelSize(s) * s.tensor
         /\ s.world = s.pipeline * PerStage(s)
         /\ s.world \div s.tensor = s.pipeline * DataParallelSize(s)
<1> DEFINE t == s.tensor
           p == s.pipeline
           w == s.world
           d == DataParallelSize(s)
<1>1. t \in Nat \ {0} /\ p \in Nat \ {0} /\ w \in Nat \ {0} /\ s.sequence = 1
  BY DEF AcceptedSizes
<1>2. w % (t * p) = 0 /\ d = w \div (t * p)
  <2>1. (t * p) * 1 = t * p
    BY <1>1
  <2> QED BY <1>1, <2>1 DEF AcceptedSizes, Accepted, DataParallelSize
<1>3. PerStage(s) = w \div p /\ PerBatch(s) = t
  BY <1>1 DEF PerStage, PerBatch
<1> HIDE DEF t, p, w, d
<1>4. t * p \in Nat \ {0}
  BY <1>1
<1>5. d \in Int /\ w = d * (t * p)
  <2> DEFINE m == t * p
  <2>1. m \in Nat \ {0} /\ w \in Int /\ w % m = 0 /\ d = w \div m
    BY <1>1, <1>2, <1>4
  <2> HIDE DEF m
  <2>2. w \div m \in Int /\ w = (w \div m) * m + (w % m)
    BY <2>1, Quotient
  <2>3. d \in Int /\ w = d * m
    BY <2>1, <2>2
  <2> QED BY <2>3 DEF m
<1>6. d > 0
  <2>1. CASE d <= 0
    <3>1. d * (t * p) <= 0
      BY <1>4, <1>5, <2>1
    <3> QED BY <1>1, <1>5, <3>1
  <2> QED BY <1>5, <2>1
<1>7. w = (d * t) * p + 0 /\ w = (p * d) * t + 0 /\ d * t \in Nat \ {0} /\ p * d \in Nat \ {0}
  BY <1>1, <1>5, <1>6
<1>8. w \div p = d * t
  <2>1. d * t \in Int /\ 0 \in 0 .. p - 1
    BY <1>1, <1>7
  <2>2. ((d * t) * p + 0) \div p = d * t
    BY <1>1, <2>1, ExactQuotient
  <2> QED BY <1>7, <2>2
<1>9. w \div t = p * d
  <2>1. p * d \in Int /\ 0 \in 0 .. t - 1
    BY <1>1, <1>7
  <2>2. ((p * d) * t + 0) \div t = p * d
    BY <1>1, <2>1, ExactQuotient
  <2> QED BY <1>7, <2>2
<1>10. w = p * (d * t)
  BY <1>1, <1>5, <1>6
<1> QED BY <1>1, <1>3, <1>5, <1>6, <1>7, <1>8, <1>9, <1>10 DEF t, p, w, d

\* A range with n steps that starts off by less than a step.
LEMMA Steps ==
  ASSUME NEW step \in Nat \ {0}, NEW n \in Nat, NEW a \in Int, NEW j \in 0 .. step - 1
  PROVE  Every(step, a + j, a + n * step) = [k \in 1 .. n |-> a + j + (k - 1) * step]
<1>1. n * step \in Int
  OBVIOUS
<1>2. (a + n * step) - (a + j) + step - 1 = n * step + (step - 1 - j)
  BY <1>1
<1>3. step - 1 - j \in 0 .. step - 1
  OBVIOUS
<1>4. ((a + n * step) - (a + j) + step - 1) \div step = n
  BY <1>2, <1>3, ExactQuotient
<1> QED BY <1>4 DEF Every

\* The groups by coordinates.
LEMMA DataParallelShape ==
  ASSUME NEW s \in AcceptedSizes, NEW i \in 0 .. s.pipeline - 1, NEW j \in 0 .. s.tensor - 1
  PROVE  DataParallelGroup(s, i, j) =
           [k \in 1 .. DataParallelSize(s) |-> Coordinate(s, i, k - 1, j)]
<1> DEFINE t == s.tensor
           d == DataParallelSize(s)
           n == PerStage(s)
<1>1. t \in Nat \ {0} /\ d \in Nat \ {0} /\ n \in Nat \ {0} /\ n = d * t /\ PerBatch(s) = t
  BY Shape
<1>2. i \in Int /\ j \in 0 .. t - 1
  BY Shape
<1>3. DataParallelGroup(s, i, j) = Every(t, i * n + j, (i + 1) * n)
  BY <1>1 DEF DataParallelGroup
<1>4. \A k \in 1 .. d : Coordinate(s, i, k - 1, j) = i * n + ((k - 1) * t + j)
  BY DEF Coordinate
<1> HIDE DEF t, d, n
<1>5. (i + 1) * n = i * n + d * t /\ i * n \in Int
  BY <1>1, <1>2
<1>6. Every(t, i * n + j, i * n + d * t) = [k \in 1 .. d |-> i * n + j + (k - 1) * t]
  BY <1>1, <1>2, <1>5, Steps
<1>7. \A k \in 1 .. d : i * n + j + (k - 1) * t = i * n + ((k - 1) * t + j)
  BY <1>1, <1>2, <1>5
<1>8. DataParallelGroup(s, i, j) = [k \in 1 .. d |-> Coordinate(s, i, k - 1, j)]
  BY <1>3, <1>4, <1>5, <1>6, <1>7
<1> QED BY <1>8 DEF d

\* A rank has one triple of coordinates.
LEMMA Coordinates ==
  ASSUME NEW s \in AcceptedSizes, NEW r \in World(s)
  PROVE  \E i \in 0 .. s.pipeline - 1, k \in 0 .. DataParallelSize(s) - 1,
            j \in 0 .. s.tensor - 1 : r = Coordinate(s, i, k, j)
<1> DEFINE t == s.tensor
           p == s.pipeline
           d == DataParallelSize(s)
           n == PerStage(s)
<1>1. t \in Nat \ {0} /\ p \in Nat \ {0} /\ d \in Nat \ {0} /\ n \in Nat \ {0}
      /\ n = d * t /\ s.world = p * n
  BY Shape
<1>2. \A i, k, j : Coordinate(s, i, k, j) = i * n + (k * t + j)
  BY DEF Coordinate
<1>3. r \in 0 .. p * n - 1
  BY <1>1 DEF World
<1> HIDE DEF t, p, d, n
<1>4. r \div n \in 0 .. p - 1 /\ r % n \in 0 .. n - 1 /\ r = (r \div n) * n + (r % n)
  BY ZenonT(60), <1>1, <1>3, Digits
<1> DEFINE q == r % n
<1>5. q \in 0 .. d * t - 1
  BY <1>1, <1>4
<1> HIDE DEF q
<1>6. q \div t \in 0 .. d - 1 /\ q % t \in 0 .. t - 1 /\ q = (q \div t) * t + (q % t)
  BY <1>1, <1>5, Digits
<1>7. r = Coordinate(s, r \div n, q \div t, q % t)
  BY <1>2, <1>4, <1>6 DEF q
<1> QED BY <1>4, <1>6, <1>7 DEF t, p, d

\* A rank has one pipeline, data and tensor coordinate.
LEMMA CoordinatesUnique ==
  ASSUME NEW s \in AcceptedSizes,
         NEW i \in 0 .. s.pipeline - 1, NEW k \in 0 .. DataParallelSize(s) - 1,
         NEW j \in 0 .. s.tensor - 1
  PROVE  /\ Coordinate(s, i, k, j) \in World(s)
         /\ k * s.tensor + j \in 0 .. PerStage(s) - 1
         /\ \A x \in 0 .. s.pipeline - 1, y \in 0 .. DataParallelSize(s) - 1,
               z \in 0 .. s.tensor - 1 :
              Coordinate(s, i, k, j) = Coordinate(s, x, y, z) => x = i /\ y = k /\ z = j
<1> DEFINE t == s.tensor
           p == s.pipeline
           d == DataParallelSize(s)
           n == PerStage(s)
<1>1. t \in Nat \ {0} /\ p \in Nat \ {0} /\ d \in Nat \ {0} /\ n \in Nat \ {0}
      /\ n = d * t /\ s.world = p * n
  BY Shape
<1>2. \A x, y, z : Coordinate(s, x, y, z) = x * n + (y * t + z)
  BY DEF Coordinate
<1>3. World(s) = 0 .. p * n - 1 /\ i \in 0 .. p - 1 /\ k \in 0 .. d - 1 /\ j \in 0 .. t - 1
  BY <1>1 DEF World
<1> HIDE DEF t, p, d, n
<1>4. \A y \in 0 .. d - 1, z \in 0 .. t - 1 : y * t + z \in 0 .. n - 1
  BY <1>1, DigitsBound
<1>5. i * n + (k * t + j) \in 0 .. p * n - 1
  BY <1>1, <1>3, <1>4, DigitsBound
<1>6. ASSUME NEW x \in 0 .. p - 1, NEW y \in 0 .. d - 1, NEW z \in 0 .. t - 1,
             i * n + (k * t + j) = x * n + (y * t + z)
      PROVE  x = i /\ y = k /\ z = j
  <2>1. k * t + j \in 0 .. n - 1 /\ y * t + z \in 0 .. n - 1
    BY <1>3, <1>4
  <2>2. i = x /\ k * t + j = y * t + z
    BY <1>1, <1>3, <1>6, <2>1, DigitsUnique
  <2>3. k = y /\ j = z
    BY <1>1, <1>3, <2>2, DigitsUnique
  <2> QED BY <2>2, <2>3
<1>7. /\ Coordinate(s, i, k, j) \in World(s)
      /\ k * t + j \in 0 .. n - 1
      /\ \A x \in 0 .. p - 1, y \in 0 .. d - 1, z \in 0 .. t - 1 :
           Coordinate(s, i, k, j) = Coordinate(s, x, y, z) => x = i /\ y = k /\ z = j
  BY <1>2, <1>3, <1>4, <1>5, <1>6
<1> QED BY <1>7 DEF t, p, d, n

\* A rank that occurs once in a list of groups finds its place.
LEMMA Place ==
  ASSUME NEW groups, NEW r, NEW n \in DOMAIN groups, NEW k \in DOMAIN groups[n],
         groups[n][k] = r,
         \A m \in DOMAIN groups : \A l \in DOMAIN groups[m] :
           groups[m][l] = r => m = n /\ l = k
  PROVE  /\ GroupOf(groups, r) = groups[n]
         /\ RankIn(groups[n], r) = k - 1
         /\ InOne(groups, r)
<1>1. (CHOOSE m \in DOMAIN groups : r \in Members(groups[m])) = n
  BY DEF Members
<1>2. (CHOOSE l \in DOMAIN groups[n] : groups[n][l] = r) = k
  OBVIOUS
<1>3. InOne(groups, r)
  BY DEF InOne, Members
<1> QED BY <1>1, <1>2, <1>3 DEF GroupOf, RankIn

\* The lists of groups by coordinates.
LEMMA DataParallelGroupsShape ==
  ASSUME NEW s \in AcceptedSizes
  PROVE  DataParallelGroups(s) =
           [n \in 1 .. s.pipeline * s.tensor |-> [k \in 1 .. DataParallelSize(s) |->
              Coordinate(s, (n - 1) \div s.tensor, k - 1, (n - 1) % s.tensor)]]
<1>1. s.tensor \in Nat \ {0} /\ s.pipeline \in Nat \ {0} /\ PerBatch(s) = s.tensor
  BY Shape
<1>2. ASSUME NEW n \in 1 .. s.pipeline * s.tensor
      PROVE  DataParallelGroup(s, (n - 1) \div s.tensor, (n - 1) % s.tensor) =
               [k \in 1 .. DataParallelSize(s) |->
                  Coordinate(s, (n - 1) \div s.tensor, k - 1, (n - 1) % s.tensor)]
  <2>1. n - 1 \in 0 .. s.pipeline * s.tensor - 1
    BY <1>1
  <2>2. (n - 1) \div s.tensor \in 0 .. s.pipeline - 1 /\ (n - 1) % s.tensor \in 0 .. s.tensor - 1
    BY <1>1, <2>1, Digits
  <2> QED BY <2>2, DataParallelShape
<1> QED BY <1>1, <1>2 DEF DataParallelGroups

\* The pipeline groups, rank by rank.
LEMMA PipelineGroupsShape ==
  ASSUME NEW s \in AcceptedSizes
  PROVE  PipelineGroups(s) =
           [n \in 1 .. PerStage(s) |-> [i \in 1 .. s.pipeline |->
              n - 1 + (i - 1) * PerStage(s)]]
<1>1. PerStage(s) \in Nat \ {0} /\ s.pipeline \in Nat \ {0}
      /\ s.world = s.pipeline * PerStage(s)
  BY Shape
<1>2. ASSUME NEW n \in 1 .. PerStage(s)
      PROVE  Every(PerStage(s), n - 1, s.world) =
               [i \in 1 .. s.pipeline |-> n - 1 + (i - 1) * PerStage(s)]
  <2> DEFINE m == PerStage(s)
             p == s.pipeline
  <2>1. m \in Nat \ {0} /\ p \in Nat /\ s.world = p * m /\ n \in 1 .. m
    BY <1>1
  <2> HIDE DEF m, p
  <2>2. n - 1 \in 0 .. m - 1 /\ 0 \in Int
    BY <2>1
  <2>3. Every(m, 0 + (n - 1), 0 + p * m) = [i \in 1 .. p |-> 0 + (n - 1) + (i - 1) * m]
    BY <2>1, <2>2, Steps, ZenonT(40)
  <2>4. p * m \in Int
    BY <2>1
  <2>5. 0 + (n - 1) = n - 1 /\ 0 + p * m = s.world
    BY <2>1, <2>4
  <2>6. Every(m, n - 1, s.world) = [i \in 1 .. p |-> n - 1 + (i - 1) * m]
    BY <2>3, <2>5
  <2> QED BY <2>6 DEF m, p
<1> QED BY <1>2 DEF PipelineGroups

\* The tensor-parallel groups, rank by rank.
LEMMA TensorParallelGroupsShape ==
  ASSUME NEW s \in AcceptedSizes
  PROVE  TensorParallelGroups(s) =
           [n \in 1 .. s.pipeline * DataParallelSize(s) |-> [j \in 1 .. s.tensor |->
              (n - 1) * s.tensor + (j - 1)]]
<1>1. s.tensor \in Nat \ {0} /\ s.world \div s.tensor = s.pipeline * DataParallelSize(s)
      /\ s.pipeline * DataParallelSize(s) \in Nat
  BY Shape
<1>2. ASSUME NEW n \in 1 .. s.pipeline * DataParallelSize(s)
      PROVE  Every(1, (n - 1) * s.tensor, n * s.tensor) =
               [j \in 1 .. s.tensor |-> (n - 1) * s.tensor + (j - 1)]
  <2> DEFINE t == s.tensor
             a == (n - 1) * t
  <2>1. t \in Nat \ {0} /\ n \in Int /\ a \in Int
    BY <1>1
  <2>2. n * t = a + t * 1
    BY <2>1
  <2> HIDE DEF t, a
  <2>3. Every(1, a + 0, a + t * 1) = [j \in 1 .. t |-> a + 0 + (j - 1) * 1]
    <3> DEFINE one == 1
               zero == 0
    <3>1. one \in Nat \ {0} /\ zero \in 0 .. one - 1 /\ t \in Nat
      BY <2>1
    <3> HIDE DEF one, zero
    <3>2. a \in Int
      BY <2>1
    <3>3. Every(one, a + zero, a + t * one) = [j \in 1 .. t |-> a + zero + (j - 1) * one]
      BY <3>1, <3>2, Steps, ZenonT(40)
    <3> QED BY <3>3 DEF one, zero
  <2>4. a + 0 = a /\ \A j \in 1 .. t : a + 0 + (j - 1) * 1 = a + (j - 1)
    BY <2>1
  <2>5. Every(1, a, n * t) = [j \in 1 .. t |-> a + (j - 1)]
    BY <2>2, <2>3, <2>4
  <2> QED BY <2>5 DEF t, a
<1> QED BY <1>1, <1>2 DEF TensorParallelGroups

\* The model-parallel groups, rank by rank.
LEMMA ModelParallelGroupsShape ==
  ASSUME NEW s \in AcceptedSizes
  PROVE  ModelParallelGroups(s) =
           [k \in 1 .. DataParallelSize(s) |-> [n \in 1 .. s.pipeline * s.tensor |->
              DataParallelGroups(s)[n][k]]]
<1>1. s.sequence = 1 /\ DataParallelSize(s) \in Nat
  BY Shape
<1>2. SequenceDataParallelGroups(s) = DataParallelGroups(s)
  BY <1>1 DEF SequenceDataParallelGroups
<1>3. DOMAIN DataParallelGroups(s) = 1 .. s.pipeline * s.tensor
  BY DataParallelGroupsShape
<1>4. s.sequence * DataParallelSize(s) = DataParallelSize(s)
  BY <1>1
<1> QED BY <1>2, <1>3, <1>4 DEF ModelParallelGroups

-----------------------------------------------------------------------------

\* What get_data_parallel_rank, get_pipeline_model_parallel_rank and
\* get_tensor_model_parallel_rank return on a rank are its coordinates,
\* and each of its three groups holds the ranks that differ from it in
\* that coordinate.
LEMMA DataParallelPlace ==
  ASSUME NEW s \in AcceptedSizes,
         NEW i \in 0 .. s.pipeline - 1, NEW k \in 0 .. DataParallelSize(s) - 1,
         NEW j \in 0 .. s.tensor - 1
  PROVE  /\ GroupOf(DataParallelGroups(s), Coordinate(s, i, k, j)) =
              [l \in 1 .. DataParallelSize(s) |-> Coordinate(s, i, l - 1, j)]
         /\ DataParallelRank(s, Coordinate(s, i, k, j)) = k
         /\ InOne(DataParallelGroups(s), Coordinate(s, i, k, j))
<1> DEFINE groups == DataParallelGroups(s)
           t == s.tensor
           p == s.pipeline
           d == DataParallelSize(s)
           n == i * t + j + 1
<1>1. t \in Nat \ {0} /\ p \in Nat \ {0} /\ d \in Nat \ {0}
  BY Shape
<1>2. groups = [m \in 1 .. p * t |-> [l \in 1 .. d |->
                  Coordinate(s, (m - 1) \div t, l - 1, (m - 1) % t)]]
  BY DataParallelGroupsShape
<1>3. i \in 0 .. p - 1 /\ k \in 0 .. d - 1 /\ j \in 0 .. t - 1
  OBVIOUS
<1>4. \A x \in 0 .. p - 1, y \in 0 .. d - 1, z \in 0 .. t - 1 :
        Coordinate(s, i, k, j) = Coordinate(s, x, y, z) => x = i /\ y = k /\ z = j
  BY CoordinatesUnique
<1> HIDE DEF groups, t, p, d
<1>5. i * t + j \in 0 .. p * t - 1 /\ i * t \in Int
  BY <1>1, <1>3, DigitsBound
<1>6. n \in 1 .. p * t /\ n - 1 = i * t + j
  BY <1>1, <1>3, <1>5
<1> DEFINE place == k + 1
<1> HIDE DEF n
<1>7. (n - 1) \div t = i /\ (n - 1) % t = j
  <2>1. i \in Int /\ j \in 0 .. t - 1 /\ t \in Nat \ {0}
    BY <1>1, <1>3
  <2>2. (i * t + j) \div t = i /\ (i * t + j) % t = j
    BY <2>1, ExactQuotient
  <2> QED BY <1>6, <2>2
<1>8. groups[n] = [l \in 1 .. d |-> Coordinate(s, i, l - 1, j)]
  BY <1>2, <1>6, <1>7
<1>9. place \in 1 .. d /\ place - 1 = k
  BY <1>1, <1>3
<1> HIDE DEF place
<1>10. groups[n][place] = Coordinate(s, i, k, j)
  BY <1>8, <1>9
<1>11. ASSUME NEW m \in DOMAIN groups, NEW l \in DOMAIN groups[m],
              groups[m][l] = Coordinate(s, i, k, j)
       PROVE  m = n /\ l = place
  <2>1. m \in 1 .. p * t /\ l \in 1 .. d
    BY <1>2
  <2>2. m - 1 \in 0 .. p * t - 1
    BY <1>1, <2>1
  <2>3. /\ (m - 1) \div t \in 0 .. p - 1 /\ (m - 1) % t \in 0 .. t - 1
        /\ m - 1 = ((m - 1) \div t) * t + ((m - 1) % t)
    BY <1>1, <2>2, Digits
  <2>4. Coordinate(s, i, k, j) = Coordinate(s, (m - 1) \div t, l - 1, (m - 1) % t)
    BY <1>2, <1>11, <2>1
  <2>5. l - 1 \in 0 .. d - 1
    BY <1>1, <2>1
  <2>6. (m - 1) \div t = i /\ l - 1 = k /\ (m - 1) % t = j
    BY <1>4, <2>3, <2>4, <2>5
  <2>7. m - 1 = i * t + j
    BY <2>3, <2>6
  <2> QED BY <1>3, <1>6, <1>9, <2>1, <2>6, <2>7
<1>12. n \in DOMAIN groups /\ place \in DOMAIN groups[n]
  BY <1>2, <1>6, <1>8, <1>9
<1>13. /\ GroupOf(groups, Coordinate(s, i, k, j)) = groups[n]
       /\ RankIn(groups[n], Coordinate(s, i, k, j)) = place - 1
       /\ InOne(groups, Coordinate(s, i, k, j))
  BY <1>10, <1>11, <1>12, Place
<1> QED BY <1>8, <1>9, <1>13 DEF DataParallelRank, groups, d

\* The pipeline group of a rank, and its place in it.
LEMMA PipelinePlace ==
  ASSUME NEW s \in AcceptedSizes,
         NEW i \in 0 .. s.pipeline - 1, NEW k \in 0 .. DataParallelSize(s) - 1,
         NEW j \in 0 .. s.tensor - 1
  PROVE  /\ GroupOf(PipelineGroups(s), Coordinate(s, i, k, j)) =
              [l \in 1 .. s.pipeline |-> Coordinate(s, l - 1, k, j)]
         /\ PipelineRank(s, Coordinate(s, i, k, j)) = i
         /\ InOne(PipelineGroups(s), Coordinate(s, i, k, j))
<1> DEFINE groups == PipelineGroups(s)
           p == s.pipeline
           b == PerStage(s)
           y == k * s.tensor + j
           n == y + 1
<1>1. p \in Nat \ {0} /\ b \in Nat \ {0}
  BY Shape
<1>2. groups = [m \in 1 .. b |-> [l \in 1 .. p |-> m - 1 + (l - 1) * b]]
  BY PipelineGroupsShape
<1>3. y \in 0 .. b - 1 /\ i \in 0 .. p - 1
  BY CoordinatesUnique
<1>4. \A x : Coordinate(s, x, k, j) = x * b + y
  BY DEF Coordinate
<1> HIDE DEF groups, p, b, y
<1>5. n \in 1 .. b /\ n - 1 = y
  BY <1>1, <1>3
<1>6. \A l \in 1 .. p : n - 1 + (l - 1) * b = Coordinate(s, l - 1, k, j)
  BY <1>1, <1>3, <1>4, <1>5
<1>7. groups[n] = [l \in 1 .. p |-> Coordinate(s, l - 1, k, j)]
  BY <1>2, <1>5, <1>6
<1> DEFINE place == i + 1
<1>8. place \in 1 .. p /\ place - 1 = i
  BY <1>1, <1>3
<1> HIDE DEF place, n
<1>9. groups[n][place] = Coordinate(s, i, k, j)
  BY <1>7, <1>8
<1>10. ASSUME NEW m \in DOMAIN groups, NEW l \in DOMAIN groups[m],
              groups[m][l] = Coordinate(s, i, k, j)
       PROVE  m = n /\ l = place
  <2>1. m \in 1 .. b /\ l \in 1 .. p
    BY <1>2
  <2>2. m - 1 + (l - 1) * b = i * b + y
    BY <1>2, <1>4, <1>10, <2>1
  <2> DEFINE x == l - 1
             v == m - 1
  <2>3. v \in 0 .. b - 1 /\ x \in Int /\ x * b \in Int
    BY <1>1, <2>1
  <2>4. x * b + v = i * b + y
    BY <2>2, <2>3
  <2> HIDE DEF x, v
  <2>5. x = i /\ v = y
    BY <1>1, <1>3, <2>3, <2>4, DigitsUnique
  <2>6. l - 1 = i /\ m - 1 = y
    BY <2>5 DEF x, v
  <2> QED BY <1>1, <1>3, <1>5, <1>8, <2>1, <2>6
<1>11. n \in DOMAIN groups /\ place \in DOMAIN groups[n]
  BY <1>2, <1>5, <1>7, <1>8
<1>12. /\ GroupOf(groups, Coordinate(s, i, k, j)) = groups[n]
       /\ RankIn(groups[n], Coordinate(s, i, k, j)) = place - 1
       /\ InOne(groups, Coordinate(s, i, k, j))
  BY <1>9, <1>10, <1>11, Place
<1> QED BY <1>7, <1>8, <1>12 DEF PipelineRank, groups, p

\* The tensor-parallel group of a rank, and its place in it.
LEMMA TensorParallelPlace ==
  ASSUME NEW s \in AcceptedSizes,
         NEW i \in 0 .. s.pipeline - 1, NEW k \in 0 .. DataParallelSize(s) - 1,
         NEW j \in 0 .. s.tensor - 1
  PROVE  /\ GroupOf(TensorParallelGroups(s), Coordinate(s, i, k, j)) =
              [l \in 1 .. s.tensor |-> Coordinate(s, i, k, l - 1)]
         /\ TensorParallelRank(s, Coordinate(s, i, k, j)) = j
         /\ InOne(TensorParallelGroups(s), Coordinate(s, i, k, j))
<1> DEFINE groups == TensorParallelGroups(s)
           t == s.tensor
           p == s.pipeline
           d == DataParallelSize(s)
           y == i * d + k
           n == y + 1
           place == j + 1
<1>1. t \in Nat \ {0} /\ p \in Nat \ {0} /\ d \in Nat \ {0} /\ PerStage(s) = d * t
  BY Shape
<1>2. groups = [m \in 1 .. p * d |-> [l \in 1 .. t |-> (m - 1) * t + (l - 1)]]
  BY TensorParallelGroupsShape
<1>3. i \in 0 .. p - 1 /\ k \in 0 .. d - 1 /\ j \in 0 .. t - 1
  OBVIOUS
<1>4. \A z \in Int : Coordinate(s, i, k, z) = y * t + z
  <2>1. \A z : Coordinate(s, i, k, z) = i * (d * t) + (k * t + z)
    BY <1>1 DEF Coordinate
  <2> HIDE DEF t, p, d
  <2>2. y * t = i * (d * t) + k * t /\ y * t \in Int /\ i * (d * t) \in Int /\ k * t \in Int
    BY <1>1, <1>3
  <2> HIDE DEF y
  <2> QED BY <1>3, <2>1, <2>2 DEF t, p, d
<1> HIDE DEF groups, t, p, d
<1>5. y \in 0 .. p * d - 1
  BY <1>1, <1>3, DigitsBound
<1> HIDE DEF y
<1>6. n \in 1 .. p * d /\ n - 1 = y
  BY <1>1, <1>5
<1>7. place \in 1 .. t /\ place - 1 = j
  BY <1>1, <1>3
<1> HIDE DEF n, place
<1>8. \A l \in 1 .. t : (n - 1) * t + (l - 1) = Coordinate(s, i, k, l - 1)
  <2>1. \A l \in 1 .. t : l - 1 \in Int
    BY <1>1
  <2> QED BY <1>4, <1>6, <2>1
<1>9. groups[n] = [l \in 1 .. t |-> Coordinate(s, i, k, l - 1)]
  BY <1>2, <1>6, <1>8
<1>10. groups[n][place] = Coordinate(s, i, k, j)
  BY <1>7, <1>9
<1>11. ASSUME NEW m \in DOMAIN groups, NEW l \in DOMAIN groups[m],
              groups[m][l] = Coordinate(s, i, k, j)
       PROVE  m = n /\ l = place
  <2> DEFINE x == m - 1
             v == l - 1
  <2>1. m \in 1 .. p * d /\ l \in 1 .. t
    BY <1>2
  <2>2. x * t + v = y * t + j
    BY <1>2, <1>3, <1>4, <1>11, <2>1
  <2>3. v \in 0 .. t - 1 /\ x \in Int
    BY <1>1, <2>1
  <2> HIDE DEF x, v
  <2>4. x = y /\ v = j
    BY <1>1, <1>3, <1>5, <2>2, <2>3, DigitsUnique
  <2>5. m - 1 = n - 1 /\ l - 1 = place - 1
    BY <1>6, <1>7, <2>4 DEF x, v
  <2> QED BY <1>1, <1>6, <1>7, <2>1, <2>5
<1>12. n \in DOMAIN groups /\ place \in DOMAIN groups[n]
  BY <1>2, <1>6, <1>7, <1>9
<1>13. /\ GroupOf(groups, Coordinate(s, i, k, j)) = groups[n]
       /\ RankIn(groups[n], Coordinate(s, i, k, j)) = place - 1
       /\ InOne(groups, Coordinate(s, i, k, j))
  BY <1>10, <1>11, <1>12, Place
<1> QED BY <1>7, <1>9, <1>13 DEF TensorParallelRank, groups, t

\* The groups of every kind partition the world.
THEOREM GroupsPartitionWorld ==
  ASSUME NEW s \in AcceptedSizes, NEW r \in World(s)
  PROVE  /\ InOne(DataParallelGroups(s), r)
         /\ InOne(PipelineGroups(s), r)
         /\ InOne(TensorParallelGroups(s), r)
BY Coordinates, DataParallelPlace, PipelinePlace, TensorParallelPlace

\* A rank is known by its three ranks: they are its coordinates, and those
\* of no other rank.
THEOREM RanksAreCoordinates ==
  ASSUME NEW s \in AcceptedSizes, NEW r \in World(s)
  PROVE  /\ PipelineRank(s, r) \in 0 .. s.pipeline - 1
         /\ DataParallelRank(s, r) \in 0 .. DataParallelSize(s) - 1
         /\ TensorParallelRank(s, r) \in 0 .. s.tensor - 1
         /\ r = Coordinate(s, PipelineRank(s, r), DataParallelRank(s, r), TensorParallelRank(s, r))
<1>1. PICK i \in 0 .. s.pipeline - 1, k \in 0 .. DataParallelSize(s) - 1,
           j \in 0 .. s.tensor - 1 : r = Coordinate(s, i, k, j)
  BY Coordinates
<1>2. PipelineRank(s, r) = i
  BY <1>1, PipelinePlace
<1>3. DataParallelRank(s, r) = k
  BY <1>1, DataParallelPlace
<1>4. TensorParallelRank(s, r) = j
  BY <1>1, TensorParallelPlace
<1> QED BY <1>1, <1>2, <1>3, <1>4

\* The pipeline is a ring of all stages on which the replica and the slice
\* of the tensors do not change: get_pipeline_model_parallel_next_rank and
\* ..._prev_rank, by which stages address each other.
THEOREM PipelineIsRing ==
  ASSUME NEW s \in AcceptedSizes, NEW r \in World(s)
  PROVE  LET i == PipelineRank(s, r)
             k == DataParallelRank(s, r)
             j == TensorParallelRank(s, r)
         IN /\ NextRank(s, r) = Coordinate(s, (i + 1) % s.pipeline, k, j)
            /\ PrevRank(s, r) = Coordinate(s, (i - 1) % s.pipeline, k, j)
<1>1. PICK i \in 0 .. s.pipeline - 1, k \in 0 .. DataParallelSize(s) - 1,
           j \in 0 .. s.tensor - 1 : r = Coordinate(s, i, k, j)
  BY Coordinates
<1>2. PipelineRank(s, r) = i /\ DataParallelRank(s, r) = k /\ TensorParallelRank(s, r) = j
  BY <1>1, PipelinePlace, DataParallelPlace, TensorParallelPlace
<1> DEFINE group == GroupOf(PipelineGroups(s), r)
<1>3. s.pipeline \in Nat \ {0}
  BY Shape
<1>4. group = [l \in 1 .. s.pipeline |-> Coordinate(s, l - 1, k, j)] /\ RankIn(group, r) = i
  BY <1>1, <1>2, PipelinePlace DEF PipelineRank
<1>5. Len(group) = s.pipeline
  BY <1>3, <1>4
<1>6. ASSUME NEW step \in Int
      PROVE  Following(s, r, step) = Coordinate(s, (i + step) % s.pipeline, k, j)
  <2> DEFINE x == (i + step) % s.pipeline
  <2>1. i + step \in Int
    BY <1>3
  <2>2. x \in 0 .. s.pipeline - 1
    BY <1>3, <2>1, Quotient
  <2>3. Following(s, r, step) = group[x + 1]
    BY <1>4, <1>5 DEF Following
  <2> HIDE DEF x
  <2> DEFINE l == x + 1
  <2>4. l \in 1 .. s.pipeline /\ l - 1 = x
    BY <1>3, <2>2
  <2> HIDE DEF l, group
  <2>5. group[l] = Coordinate(s, x, k, j)
    BY <1>4, <2>4
  <2> QED BY <2>3, <2>5 DEF x, l
<1>7. i + (-1) = i - 1
  BY <1>3
<1>8. Following(s, r, 1) = Coordinate(s, (i + 1) % s.pipeline, k, j)
  BY <1>6
<1>9. Following(s, r, -1) = Coordinate(s, (i + (-1)) % s.pipeline, k, j)
  <2>1. -1 \in Int
    OBVIOUS
  <2> QED BY <1>6, <2>1
<1> QED BY <1>2, <1>7, <1>8, <1>9 DEF NextRank, PrevRank

\* A replica of the model has exactly one rank of every data-parallel
\* group.
THEOREM ReplicasMeetDataParallelGroups ==
  ASSUME NEW s \in AcceptedSizes,
         NEW n \in DOMAIN DataParallelGroups(s), NEW k \in DOMAIN ModelParallelGroups(s)
  PROVE  Members(DataParallelGroups(s)[n]) \cap Members(ModelParallelGroups(s)[k])
           = {DataParallelGroups(s)[n][k]}
<1> DEFINE data == DataParallelGroups(s)
           model == ModelParallelGroups(s)
           t == s.tensor
           p == s.pipeline
           d == DataParallelSize(s)
<1>1. t \in Nat \ {0} /\ p \in Nat \ {0} /\ d \in Nat \ {0}
  BY Shape
<1>2. data = [m \in 1 .. p * t |-> [l \in 1 .. d |-> Coordinate(s, (m - 1) \div t, l - 1, (m - 1) % t)]]
  BY DataParallelGroupsShape
<1>3. model = [l \in 1 .. d |-> [m \in 1 .. p * t |-> data[m][l]]]
  BY ModelParallelGroupsShape
<1>4. ASSUME NEW m \in 1 .. p * t, NEW l \in 1 .. d, NEW u \in 1 .. p * t, NEW v \in 1 .. d,
             data[m][l] = data[u][v]
      PROVE  l = v /\ m = u
  <2>0. m - 1 \in 0 .. p * t - 1 /\ u - 1 \in 0 .. p * t - 1
    BY <1>1
  <2>1. /\ (m - 1) \div t \in 0 .. p - 1 /\ (m - 1) % t \in 0 .. t - 1
        /\ (u - 1) \div t \in 0 .. p - 1 /\ (u - 1) % t \in 0 .. t - 1
        /\ m - 1 = ((m - 1) \div t) * t + ((m - 1) % t)
        /\ u - 1 = ((u - 1) \div t) * t + ((u - 1) % t)
    BY <1>1, <2>0, Digits
  <2>2. l - 1 \in 0 .. d - 1 /\ v - 1 \in 0 .. d - 1
    BY <1>1
  <2>3. Coordinate(s, (m - 1) \div t, l - 1, (m - 1) % t) = Coordinate(s, (u - 1) \div t, v - 1, (u - 1) % t)
    BY <1>2, <1>4
  <2>4. l - 1 = v - 1 /\ (m - 1) \div t = (u - 1) \div t /\ (m - 1) % t = (u - 1) % t
    BY <2>1, <2>2, <2>3, CoordinatesUnique
  <2>5. m - 1 = u - 1
    BY <2>1, <2>4
  <2> QED BY <1>1, <2>4, <2>5
<1>5. n \in 1 .. p * t /\ k \in 1 .. d
  BY <1>2, <1>3
<1> HIDE DEF data, model, t, p, d
<1>6. Members(data[n]) = {data[n][l] : l \in 1 .. d}
  BY <1>2, <1>5 DEF Members
<1>7. Members(model[k]) = {data[m][k] : m \in 1 .. p * t}
  BY <1>3, <1>5 DEF Members
<1>8. Members(data[n]) \cap Members(model[k]) = {data[n][k]}
  BY <1>4, <1>5, <1>6, <1>7
<1> QED BY <1>8 DEF data, model

-----------------------------------------------------------------------------
(***************************************************************************)
(* The ranges of the distributed optimizer.                                *)
(***************************************************************************)

\* The slices are wide enough for the whole buffer: ceil(numel / ranks).
LEMMA SliceIsWide ==
  ASSUME NEW numel \in Nat \ {0}, NEW ranks \in Nat \ {0}
  PROVE  /\ ShardSize(numel, ranks) \in Nat \ {0}
         /\ numel <= ranks * ShardSize(numel, ranks)
<1> DEFINE q == (numel + ranks - 1) \div ranks
<1>1. q \in Int /\ q * ranks <= numel + ranks - 1 /\ numel + ranks - 1 < q * ranks + ranks
  <2>1. numel + ranks - 1 \in Int /\ ranks \in Nat \ {0}
    OBVIOUS
  <2> QED BY <2>1, Quotient
<1>2. numel <= q * ranks
  BY <1>1
<1>3. q > 0
  <2>1. CASE q <= 0
    <3>1. q * ranks <= 0
      BY <1>1, <2>1
    <3> QED BY <1>2, <3>1
  <2> QED BY <1>1, <2>1
<1> QED BY <1>1, <1>2, <1>3 DEF ShardSize

\* Every cell of the buffer lies in the slice of exactly one rank.
THEOREM ShardsPartitionBuffer ==
  ASSUME NEW numel \in Nat \ {0}, NEW ranks \in Nat \ {0}, NEW j \in 0 .. numel - 1
  PROVE  /\ \E r \in 0 .. ranks - 1 : j \in In(WorldRange(numel, ranks, r))
         /\ \A r, q \in 0 .. ranks - 1 :
              /\ j \in In(WorldRange(numel, ranks, r))
              /\ j \in In(WorldRange(numel, ranks, q))
              => r = q
<1> DEFINE s == ShardSize(numel, ranks)
<1>1. s \in Nat \ {0} /\ numel <= ranks * s
  BY SliceIsWide
<1> HIDE DEF s
<1>2. ASSUME NEW r \in 0 .. ranks - 1
      PROVE  j \in In(WorldRange(numel, ranks, r)) <=> r * s <= j /\ j < r * s + s
  BY <1>1 DEF In, WorldRange, Span, Min2, s
<1>3. \E r \in 0 .. ranks - 1 : r * s <= j /\ j < r * s + s
  <2> DEFINE r == j \div s
  <2>1. r \in Int /\ r * s <= j /\ j < r * s + s
    BY <1>1, Quotient
  <2> HIDE DEF r
  <2>2. 0 <= r
    <3>1. CASE r < 0
      <4>1. r * s + s <= 0 * s
        BY <1>1, <2>1, <3>1, NextMultiple
      <4> QED BY <1>1, <2>1, <4>1
    <3> QED BY <2>1, <3>1
  <2>3. r < ranks
    <3>1. CASE ranks <= r
      <4>1. ranks * s <= r * s
        <5>1. CASE ranks = r
          BY <5>1, <1>1
        <5>2. CASE ranks < r
          <6>1. ranks * s + s <= r * s
            BY <1>1, <2>1, <5>2, NextMultiple
          <6>2. ranks * s \in Int /\ r * s \in Int
            BY <1>1, <2>1
          <6> QED BY <1>1, <6>1, <6>2
        <5> QED BY <3>1, <2>1, <5>1, <5>2
      <4>2. ranks * s \in Int /\ r * s \in Int
        BY <1>1, <2>1
      <4> QED BY <1>1, <2>1, <4>1, <4>2
    <3> QED BY <2>1, <3>1
  <2> QED BY <2>1, <2>2, <2>3
<1>4. ASSUME NEW r \in 0 .. ranks - 1, NEW q \in 0 .. ranks - 1,
             r * s <= j, j < r * s + s, q * s <= j, j < q * s + s
      PROVE  r = q
  <2>1. r * s \in Int /\ q * s \in Int
    BY <1>1
  <2>2. CASE r < q
    <3>1. r * s + s <= q * s
      BY <1>1, <2>2, NextMultiple
    <3> QED BY <1>1, <1>4, <2>1, <3>1
  <2>3. CASE q < r
    <3>1. q * s + s <= r * s
      BY <1>1, <2>3, NextMultiple
    <3> QED BY <1>1, <1>4, <2>1, <3>1
  <2> QED BY <2>2, <2>3
<1> QED BY <1>2, <1>3, <1>4

\* What the optimizer of a rank owns of a parameter: element i of it, when
\* its slice holds the cell of that element, wherever the slice cuts
\* through the parameter.
LEMMA OwnedCells ==
  ASSUME NEW first \in Int, NEW last \in Int, NEW a \in Nat, NEW b \in Nat,
         NEW i \in 0 .. b - a - 1
  PROVE  LET param == Span(a, b)
             world == Span(first, last)
         IN /\ Owns(param, world) /\ i \in In(SubParam(param, world)) <=> a + i \in In(world)
            /\ GbufWorld(param, world).start + i - SubParam(param, world).start = a + i
            /\ first + LocalRange(param, world).start + i - SubParam(param, world).start = a + i
BY DEF Span, Owns, SubParam, In, Size, LocalRange, Normalize, GbufWorld, Min2, Max2

\* Over the ranks of a data-parallel group every element of every
\* parameter in the buffer has one owner, which updates it, saves it and
\* sends it to the others; param_range_map leads the owner to the right
\* cell of the parameter buffer and of its own slice.
THEOREM ElementsOwnedOnce ==
  ASSUME NEW numel \in Nat \ {0}, NEW ranks \in Nat \ {0},
         NEW a \in Nat, NEW b \in 1 .. numel, NEW i \in 0 .. b - a - 1
  PROVE  LET param == Span(a, b)
             world(r) == WorldRange(numel, ranks, r)
             owner(r) == Owns(param, world(r)) /\ i \in In(SubParam(param, world(r)))
             offset(r) == i - SubParam(param, world(r)).start
         IN /\ \E r \in 0 .. ranks - 1 : owner(r)
            /\ \A r, q \in 0 .. ranks - 1 : owner(r) /\ owner(q) => r = q
            /\ \A r \in 0 .. ranks - 1 :
                 /\ GbufWorld(param, world(r)).start + offset(r) = a + i
                 /\ world(r).start + LocalRange(param, world(r)).start + offset(r) = a + i
<1> DEFINE param == Span(a, b)
           world(r) == WorldRange(numel, ranks, r)
           owner(r) == Owns(param, world(r)) /\ i \in In(SubParam(param, world(r)))
           offset(r) == i - SubParam(param, world(r)).start
<1>1. b \in Nat /\ a + i \in 0 .. numel - 1
  OBVIOUS
<1>2. ASSUME NEW r \in 0 .. ranks - 1
      PROVE  /\ owner(r) <=> a + i \in In(world(r))
             /\ GbufWorld(param, world(r)).start + offset(r) = a + i
             /\ world(r).start + LocalRange(param, world(r)).start + offset(r) = a + i
  <2> DEFINE first == r * ShardSize(numel, ranks)
             last == Min2(numel, first + ShardSize(numel, ranks))
  <2>1. ShardSize(numel, ranks) \in Nat
    BY SliceIsWide
  <2>2. first \in Int /\ last \in Int
    BY <2>1 DEF Min2
  <2>3. world(r) = Span(first, last) /\ world(r).start = first
    BY DEF WorldRange, Span
  <2> HIDE DEF first, last
  <2>4. /\ owner(r) <=> a + i \in In(world(r))
        /\ GbufWorld(param, world(r)).start + i - SubParam(param, world(r)).start = a + i
        /\ first + LocalRange(param, world(r)).start + i - SubParam(param, world(r)).start = a + i
    BY <1>1, <2>2, <2>3, OwnedCells
  <2>5. /\ GbufWorld(param, world(r)).start \in Int
        /\ LocalRange(param, world(r)).start \in Int
        /\ SubParam(param, world(r)).start \in Int
    BY <1>1, <2>2, <2>3 DEF Span, GbufWorld, LocalRange, SubParam, Normalize, Size, Min2, Max2
  <2> QED BY <2>2, <2>3, <2>4, <2>5
<1>3. /\ \E r \in 0 .. ranks - 1 : a + i \in In(world(r))
      /\ \A r, q \in 0 .. ranks - 1 :
           a + i \in In(world(r)) /\ a + i \in In(world(q)) => r = q
  BY <1>1, ShardsPartitionBuffer
<1> QED BY <1>2, <1>3

-----------------------------------------------------------------------------
(***************************************************************************)
(* The loss scaler as a function of the history.                           *)
(***************************************************************************)

\* f and g start alike and step alike up to n.
StepAlike(f, g, n) == /\ f[0] = g[0]
                      /\ \A k \in 1 .. n : f[k-1] = g[k-1] => f[k] = g[k]

\* Then they end alike.
LEMMA StepwiseEqual ==
  ASSUME NEW n \in Nat, NEW f, NEW g, StepAlike(f, g, n)
  PROVE  f[n] = g[n]
<1> DEFINE T == {k \in Nat : k <= n => f[k] = g[k]}
<1>1. 0 \in T
  BY DEF StepAlike
<1>2. ASSUME NEW k \in T PROVE k + 1 \in T
  <2>1. k \in Nat /\ (k + 1) - 1 = k /\ (k <= n => f[k] = g[k])
    OBVIOUS
  <2>2. CASE k + 1 <= n
    <3>1. k + 1 \in 1 .. n /\ f[(k+1) - 1] = g[(k+1) - 1]
      BY <2>1, <2>2
    <3> QED BY <2>1, <3>1 DEF StepAlike
  <2> QED BY <2>1, <2>2
<1>3. T \subseteq Nat
  OBVIOUS
<1> HIDE DEF T
<1>4. T = Nat
  BY <1>1, <1>2, <1>3, SetInduction
<1>5. n \in T
  BY <1>4
<1> QED BY <1>5 DEF T

\* Every recursion over the numbers up to n has a function that follows it.
LEMMA Iterates ==
  ASSUME NEW x0 \in Int, NEW step \in [Nat -> [Int -> Int]], NEW n \in Nat
  PROVE  \E f \in [0 .. n -> Int] :
           f[0] = x0 /\ \A k \in 1 .. n : f[k] = step[k][f[k-1]]
<1> DEFINE Follows(f, m) == f[0] = x0 /\ \A k \in 1 .. m : f[k] = step[k][f[k-1]]
           T == {m \in Nat : \E f \in [0 .. m -> Int] : Follows(f, m)}
<1>1. 0 \in T
  <2> DEFINE f == [k \in 0 .. 0 |-> x0]
  <2>1. f \in [0 .. 0 -> Int] /\ f[0] = x0
    OBVIOUS
  <2> HIDE DEF f
  <2>2. Follows(f, 0)
    BY <2>1
  <2> HIDE DEF Follows
  <2>3. \E e \in [0 .. 0 -> Int] : Follows(e, 0)
    BY <2>1, <2>2
  <2> QED BY <2>3
<1>2. ASSUME NEW m \in T PROVE m + 1 \in T
  <2>1. m \in Nat
    OBVIOUS
  <2>2. PICK f \in [0 .. m -> Int] : Follows(f, m)
    OBVIOUS
  <2> DEFINE next == step[m+1][f[m]]
             g == [k \in 0 .. m+1 |-> IF k = m + 1 THEN next ELSE f[k]]
  <2>3. next \in Int
    <3>1. m + 1 \in Nat /\ f[m] \in Int
      BY <2>1
    <3> QED BY <3>1
  <2>4. g \in [0 .. m+1 -> Int]
    <3> HIDE DEF next
    <3>1. ASSUME NEW k \in 0 .. m+1 PROVE (IF k = m + 1 THEN next ELSE f[k]) \in Int
      BY <2>1, <2>3
    <3> QED BY <3>1
  <2>5. \A k \in 0 .. m : g[k] = f[k]
    BY <2>1
  <2>6. g[m+1] = next
    BY <2>1
  <2> HIDE DEF g
  <2>7. g[0] = x0
    <3>1. 0 \in 0 .. m /\ f[0] = x0
      BY <2>1, <2>2
    <3> QED BY <2>5, <3>1
  <2>8. ASSUME NEW k \in 1 .. m+1 PROVE g[k] = step[k][g[k-1]]
    <3>1. CASE k = m + 1
      <4>1. k - 1 = m /\ g[m] = f[m]
        BY <2>1, <2>5, <3>1
      <4> QED BY <2>6, <3>1, <4>1
    <3>2. CASE k # m + 1
      <4>1. k \in 1 .. m /\ k \in 0 .. m /\ k - 1 \in 0 .. m
        BY <2>1, <3>2
      <4> QED BY <2>2, <2>5, <4>1
    <3> QED BY <3>1, <3>2
  <2> HIDE DEF next
  <2>9. m + 1 \in Nat
    BY <2>1
  <2> QED BY <2>4, <2>7, <2>8, <2>9
<1>3. T \subseteq Nat
  OBVIOUS
<1> HIDE DEF T
<1>4. T = Nat
  BY <1>1, <1>2, <1>3, SetInduction
<1> QED BY <1>4 DEF T

\* The sequences g and h begin with the same i steps.
SameUpTo(g, h, i) == /\ i <= Len(g) /\ i <= Len(h)
                     /\ \A k \in 1 .. i : g[k] = h[k]

\* What GoodRun looks for.
IsGoodRun(h, i, n) == (\A k \in i - n + 1 .. i : h[k]) /\ (i - n > 0 => ~h[i - n])

\* There is one number of steps since the last overflow.
LEMMA GoodRunExists ==
  ASSUME NEW h \in Seq(BOOLEAN), NEW i \in 0 .. Len(h)
  PROVE  GoodRun(h, i) \in 0 .. i /\ IsGoodRun(h, i, GoodRun(h, i))
<1> DEFINE C == {j \in 0 .. i : \A k \in j + 1 .. i : h[k]}
<1>1. i \in C
  OBVIOUS
<1>2. C \in SUBSET Nat /\ C # {}
  BY <1>1
<1>3. PICK j \in C : \A k \in C : j <= k
  <2> HIDE DEF C
  <2> QED BY <1>2, LeastElement
<1>4. j \in 0 .. i /\ i \in Nat /\ \A k \in j + 1 .. i : h[k]
  OBVIOUS
<1>5. ASSUME j > 0, h[j] PROVE FALSE
  <2>1. j - 1 \in 0 .. i
    BY <1>4, <1>5
  <2>2. ASSUME NEW k \in (j - 1) + 1 .. i PROVE h[k]
    <3>1. k = j \/ k \in j + 1 .. i
      BY <1>4
    <3> QED BY <1>4, <1>5, <3>1
  <2>3. j - 1 \in C
    BY <2>1, <2>2
  <2> QED BY <1>3, <1>4, <2>3
<1> DEFINE n == i - j
<1>6. n \in 0 .. i /\ i - n = j
  BY <1>4
<1> HIDE DEF n, C
<1>7. IsGoodRun(h, i, n)
  BY <1>4, <1>5, <1>6 DEF IsGoodRun
<1>8. \E m \in 0 .. i : (\A k \in i - m + 1 .. i : h[k]) /\ (i - m > 0 => ~h[i - m])
  BY <1>6, <1>7 DEF IsGoodRun
<1> QED BY <1>8 DEF GoodRun, IsGoodRun

\* Only one number is what GoodRun looks for.
LEMMA GoodRunUnique ==
  ASSUME NEW h \in Seq(BOOLEAN), NEW i \in 0 .. Len(h), NEW n \in 0 .. i, IsGoodRun(h, i, n)
  PROVE  GoodRun(h, i) = n
<1> DEFINE m == GoodRun(h, i)
<1>1. m \in 0 .. i /\ IsGoodRun(h, i, m)
  BY GoodRunExists
<1> HIDE DEF m
<1>2. i \in Nat
  OBVIOUS
<1>3. ~ (m < n)
  <2>1. SUFFICES ASSUME m < n PROVE FALSE
    OBVIOUS
  <2>2. i - m > 0 /\ i - m \in i - n + 1 .. i
    BY <1>1, <1>2, <2>1
  <2> QED BY <1>1, <2>2 DEF IsGoodRun
<1>4. ~ (n < m)
  <2>1. SUFFICES ASSUME n < m PROVE FALSE
    OBVIOUS
  <2>2. i - n > 0 /\ i - n \in i - m + 1 .. i
    BY <1>1, <1>2, <2>1
  <2> QED BY <1>1, <2>2 DEF IsGoodRun
<1>5. m = n
  BY <1>1, <1>2, <1>3, <1>4
<1> QED BY <1>5 DEF m

\* The steps since the last overflow, step by step.
LEMMA GoodRunStep ==
  ASSUME NEW h \in Seq(BOOLEAN), NEW i \in 1 .. Len(h)
  PROVE  GoodRun(h, i) = IF h[i] THEN GoodRun(h, i-1) + 1 ELSE 0
<1>1. i \in Nat /\ i >= 1 /\ i - 1 \in 0 .. Len(h) /\ i \in 0 .. Len(h)
  OBVIOUS
<1>2. CASE ~h[i]
  <2>1. 0 \in 0 .. i /\ i - 0 = i /\ (i - 0 + 1 .. i) = {}
    BY <1>1
  <2>2. IsGoodRun(h, i, 0)
    BY <1>2, <2>1 DEF IsGoodRun
  <2> QED BY <1>1, <1>2, <2>1, <2>2, GoodRunUnique
<1>3. CASE h[i]
  <2> DEFINE m == GoodRun(h, i-1)
  <2>1. m \in 0 .. i - 1 /\ IsGoodRun(h, i-1, m)
    BY <1>1, GoodRunExists
  <2> HIDE DEF m
  <2>2. m + 1 \in 0 .. i /\ i - (m + 1) = (i - 1) - m
    BY <1>1, <2>1
  <2>3. \A k \in i - (m+1) + 1 .. i : h[k]
    <3> TAKE k \in i - (m+1) + 1 .. i
    <3>1. k = i \/ k \in (i - 1) - m + 1 .. i - 1
      BY <1>1, <2>1
    <3> QED BY <1>3, <2>1, <3>1 DEF IsGoodRun
  <2>4. IsGoodRun(h, i, m + 1)
    BY <2>1, <2>2, <2>3 DEF IsGoodRun
  <2>5. GoodRun(h, i) = m + 1
    BY <1>1, <2>2, <2>4, GoodRunUnique
  <2> QED BY <1>3, <2>5 DEF m
<1> QED BY <1>2, <1>3

\* It depends on the steps so far.
LEMMA GoodRunPrefix ==
  ASSUME NEW g \in Seq(BOOLEAN), NEW h \in Seq(BOOLEAN), NEW i \in Nat, SameUpTo(g, h, i)
  PROVE  GoodRun(g, i) = GoodRun(h, i)
<1>1. i \in 0 .. Len(g) /\ i \in 0 .. Len(h) /\ \A k \in 1 .. i : g[k] = h[k]
  BY DEF SameUpTo
<1> DEFINE m == GoodRun(h, i)
<1>2. m \in 0 .. i /\ IsGoodRun(h, i, m)
  BY <1>1, GoodRunExists
<1> HIDE DEF m
<1>3. \A k \in i - m + 1 .. i : k \in 1 .. i
  BY <1>2
<1>4. i - m > 0 => i - m \in 1 .. i
  BY <1>2
<1>5. IsGoodRun(g, i, m)
  BY <1>1, <1>2, <1>3, <1>4 DEF IsGoodRun
<1> QED BY <1>1, <1>2, <1>5, GoodRunUnique DEF m

\* Whether the scale grows at a step depends on the steps up to it.
LEMMA GrowsPrefix ==
  ASSUME NEW g \in Seq(BOOLEAN), NEW h \in Seq(BOOLEAN), NEW i \in Nat, SameUpTo(g, h, i),
         NEW k \in 1 .. i
  PROVE  Grows(g, k) = Grows(h, k)
<1>1. k \in Nat /\ SameUpTo(g, h, k) /\ g[k] = h[k]
  BY DEF SameUpTo
<1>2. GoodRun(g, k) = GoodRun(h, k)
  BY <1>1, GoodRunPrefix
<1> QED BY <1>1, <1>2 DEF Grows

-----------------------------------------------------------------------------
\* The overflows since the scale last grew.

Since(h, i) == {k \in 1 .. i : \A j \in k .. i : ~Grows(h, j)}
Counted(h, i, k) == IF k \in Since(h, i) /\ ~h[k] THEN 1 ELSE 0

\* The count, step by step.
CountsOverflows(f, h, i) ==
  /\ f \in [0 .. i -> Int] /\ f[0] = 0
  /\ \A k \in 1 .. i : f[k] = f[k-1] + Counted(h, i, k)

\* OverflowsSinceGrowth is the last of such counts.
LEMMA OverflowsCounted ==
  ASSUME NEW h, NEW i \in Nat
  PROVE  \E f : CountsOverflows(f, h, i) /\ OverflowsSinceGrowth(h, i) = f[i]
<1> DEFINE eq(f) == f = [k \in 0 .. i |-> IF k = 0 THEN 0 ELSE f[k-1] + Counted(h, i, k)]
           step == [k \in Nat |-> [v \in Int |-> v + Counted(h, i, k)]]
<1>1. \A k : Counted(h, i, k) \in {0, 1}
  BY DEF Counted
<1>2. step \in [Nat -> [Int -> Int]]
  BY <1>1
<1>3. \A k \in Nat, v \in Int : step[k][v] = v + Counted(h, i, k)
  OBVIOUS
<1> HIDE DEF step
<1>4. PICK f \in [0 .. i -> Int] : f[0] = 0 /\ \A k \in 1 .. i : f[k] = step[k][f[k-1]]
  <2> HIDE DEF eq
  <2>1. 0 \in Int
    OBVIOUS
  <2> QED BY <1>2, <2>1, Iterates
<1>5. \A k \in 1 .. i : f[k] = f[k-1] + Counted(h, i, k)
  <2> TAKE k \in 1 .. i
  <2>1. k \in Nat /\ k - 1 \in 0 .. i
    OBVIOUS
  <2>2. f[k-1] \in Int
    BY <2>1
  <2> QED BY <1>3, <1>4, <2>1, <2>2
<1>6. eq(f)
  <2>1. \A k \in 0 .. i : f[k] = IF k = 0 THEN 0 ELSE f[k-1] + Counted(h, i, k)
    BY <1>4, <1>5
  <2> QED BY <2>1
<1>7. PICK count : eq(count) /\ OverflowsSinceGrowth(h, i) = count[i]
  <2> DEFINE chosen == CHOOSE c : eq(c)
  <2>1. OverflowsSinceGrowth(h, i) = chosen[i]
    BY Zenon DEF OverflowsSinceGrowth, Counted, Since
  <2> HIDE DEF eq
  <2>2. eq(chosen)
    BY <1>6
  <2> HIDE DEF chosen
  <2> QED BY <2>1, <2>2
<1>8. \A k \in 0 .. i : count[k] = IF k = 0 THEN 0 ELSE count[k-1] + Counted(h, i, k)
  BY <1>7
<1> HIDE DEF eq
<1>9. StepAlike(count, f, i)
  BY <1>4, <1>5, <1>8 DEF StepAlike
<1>11. count[i] = f[i]
  BY <1>9, StepwiseEqual
<1> QED BY <1>4, <1>5, <1>7, <1>11 DEF CountsOverflows

\* It is a number.
LEMMA OverflowsAreNumbers ==
  ASSUME NEW h, NEW i \in Nat
  PROVE  OverflowsSinceGrowth(h, i) \in Int
<1>1. PICK f : CountsOverflows(f, h, i) /\ OverflowsSinceGrowth(h, i) = f[i]
  BY OverflowsCounted
<1> QED BY <1>1 DEF CountsOverflows

\* When the scale has just grown there are none.
LEMMA OverflowsAtGrowth ==
  ASSUME NEW h, NEW i \in Nat, i = 0 \/ Grows(h, i)
  PROVE  OverflowsSinceGrowth(h, i) = 0
<1>1. PICK f : CountsOverflows(f, h, i) /\ OverflowsSinceGrowth(h, i) = f[i]
  BY OverflowsCounted
<1>2. \A k \in 1 .. i : Counted(h, i, k) = 0
  BY DEF Counted, Since
<1> DEFINE g == [k \in 0 .. i |-> 0]
<1>3. f[0] = g[0] /\ g[i] = 0
  BY <1>1 DEF CountsOverflows
<1>4. \A k \in 1 .. i : f[k-1] = g[k-1] => f[k] = g[k]
  <2> TAKE k \in 1 .. i
  <2>1. g[k] = 0 /\ g[k-1] = 0 /\ f[k] = f[k-1] + 0
    BY <1>1, <1>2 DEF CountsOverflows
  <2> QED BY <2>1
<1> HIDE DEF g
<1>5. StepAlike(f, g, i)
  BY <1>3, <1>4 DEF StepAlike
<1>6. f[i] = g[i]
  BY <1>5, StepwiseEqual
<1> QED BY <1>1, <1>3, <1>6

\* Two counts up to i, over steps that count alike, are equal.
LEMMA CountsAgree ==
  ASSUME NEW i \in Nat, NEW f, NEW e, NEW g, NEW h, NEW m \in Nat, NEW n \in Nat,
         i <= m, i <= n, CountsOverflows(f, g, m), CountsOverflows(e, h, n),
         \A k \in 1 .. i : Counted(g, m, k) = Counted(h, n, k)
  PROVE  f[i] = e[i]
<1>1. StepAlike(f, e, i)
  BY DEF CountsOverflows, StepAlike
<1> QED BY <1>1, StepwiseEqual

\* Otherwise there is one more after an overflow.
LEMMA OverflowsStep ==
  ASSUME NEW h, NEW i \in Nat \ {0}, ~Grows(h, i)
  PROVE  OverflowsSinceGrowth(h, i) =
           OverflowsSinceGrowth(h, i-1) + (IF h[i] THEN 0 ELSE 1)
<1>0. i - 1 \in Nat /\ i \in 1 .. i /\ i \in Nat
  OBVIOUS
<1>1. PICK f : CountsOverflows(f, h, i) /\ OverflowsSinceGrowth(h, i) = f[i]
  BY <1>0, OverflowsCounted
<1>2. PICK e : CountsOverflows(e, h, i-1) /\ OverflowsSinceGrowth(h, i-1) = e[i-1]
  BY <1>0, OverflowsCounted
<1>3. ASSUME NEW k \in 1 .. i-1 PROVE Counted(h, i, k) = Counted(h, i-1, k)
  <2>1. \A j \in k .. i : j = i \/ j \in k .. i-1
    OBVIOUS
  <2>2. \A j \in k .. i-1 : j \in k .. i
    OBVIOUS
  <2>3. k \in 1 .. i /\ k \in 1 .. i-1
    OBVIOUS
  <2>4. (k \in Since(h, i)) <=> (k \in Since(h, i-1))
    BY <2>1, <2>2, <2>3 DEF Since
  <2> QED BY <2>4 DEF Counted
<1>4. i - 1 <= i
  BY <1>0
<1>5. f[i-1] = e[i-1]
  BY <1>0, <1>1, <1>2, <1>3, <1>4, CountsAgree
<1>6. Counted(h, i, i) = IF h[i] THEN 0 ELSE 1
  <2>1. \A j \in i .. i : j = i
    OBVIOUS
  <2>2. i \in Since(h, i)
    BY <1>0, <2>1 DEF Since
  <2> QED BY <2>2 DEF Counted
<1>7. f[i] = f[i-1] + Counted(h, i, i)
  BY <1>0, <1>1 DEF CountsOverflows
<1> QED BY <1>1, <1>2, <1>5, <1>6, <1>7

\* The count depends on the steps so far.
LEMMA OverflowsPrefix ==
  ASSUME NEW g \in Seq(BOOLEAN), NEW h \in Seq(BOOLEAN), NEW i \in Nat, SameUpTo(g, h, i)
  PROVE  OverflowsSinceGrowth(g, i) = OverflowsSinceGrowth(h, i)
<1>1. PICK f : CountsOverflows(f, g, i) /\ OverflowsSinceGrowth(g, i) = f[i]
  BY OverflowsCounted
<1>2. PICK e : CountsOverflows(e, h, i) /\ OverflowsSinceGrowth(h, i) = e[i]
  BY OverflowsCounted
<1>3. \A k \in 1 .. i : Grows(g, k) = Grows(h, k) /\ g[k] = h[k]
  BY GrowsPrefix DEF SameUpTo
<1>4. ASSUME NEW k \in 1 .. i PROVE Counted(g, i, k) = Counted(h, i, k)
  <2>1. \A j \in k .. i : j \in 1 .. i
    OBVIOUS
  <2>2. (k \in Since(g, i)) <=> (k \in Since(h, i))
    BY <1>3, <2>1 DEF Since
  <2> QED BY <1>3, <2>2 DEF Counted
<1>5. i <= i
  OBVIOUS
<1>6. f[i] = e[i]
  BY <1>1, <1>2, <1>4, <1>5, CountsAgree
<1> QED BY <1>1, <1>2, <1>6

-----------------------------------------------------------------------------
\* The scale.

\* The scale after step k of h, when it was s before.
Rescaled(h, k, s) ==
  IF Grows(h, k) THEN s + 1
  ELSE IF ~h[k] /\ OverflowsSinceGrowth(h, k) >= Hysteresis THEN Backoff(s) ELSE s

FollowsScale(f, h, n) ==
  /\ f \in [0 .. n -> Int] /\ f[0] = InitialScale
  /\ \A k \in 1 .. n : f[k] = Rescaled(h, k, f[k-1])

\* The same, as ScaleAfter puts it.
RescalesEach(g, h, n) ==
  \A k \in 0 .. n : g[k] = IF k = 0 THEN InitialScale ELSE Rescaled(h, k, g[k-1])

\* There is such a sequence of scales, ...
LEMMA ScaleExists ==
  ASSUME NEW h, NEW n \in Nat
  PROVE  \E f : FollowsScale(f, h, n)
<1> DEFINE step == [k \in Nat |-> [v \in Int |-> Rescaled(h, k, v)]]
<1>1. \A k, v : v \in Int => Rescaled(h, k, v) \in Int
  BY ScalerAssumption DEF Rescaled, Backoff
<1>2. step \in [Nat -> [Int -> Int]]
  BY <1>1
<1>3. \A k \in Nat, v \in Int : step[k][v] = Rescaled(h, k, v)
  OBVIOUS
<1>4. InitialScale \in Int
  BY ScalerAssumption
<1> HIDE DEF step
<1>5. PICK f \in [0 .. n -> Int] :
        f[0] = InitialScale /\ \A k \in 1 .. n : f[k] = step[k][f[k-1]]
  BY ZenonT(60), <1>2, <1>4, Iterates
<1>6. \A k \in 1 .. n : f[k] = Rescaled(h, k, f[k-1])
  <2> TAKE k \in 1 .. n
  <2>1. k \in Nat /\ k - 1 \in 0 .. n
    OBVIOUS
  <2>2. f[k-1] \in Int
    BY <2>1
  <2> QED BY <1>3, <1>5, <2>1, <2>2
<1> QED BY <1>5, <1>6 DEF FollowsScale

\* ... there is one, ...
LEMMA ScaleUnique ==
  ASSUME NEW h, NEW n \in Nat, NEW f, FollowsScale(f, h, n), NEW g, RescalesEach(g, h, n)
  PROVE  g[n] = f[n]
<1>1. StepAlike(g, f, n)
  BY DEF FollowsScale, RescalesEach, StepAlike
<1> QED BY <1>1, StepwiseEqual

\* ... and ScaleAfter is its last.
LEMMA ScaleFollowed ==
  ASSUME NEW h \in Seq(BOOLEAN), NEW n \in Nat, n = Len(h)
  PROVE  \E f : FollowsScale(f, h, n) /\ ScaleAfter(h) = f[n]
<1> DEFINE eq(g) == g = [k \in 0 .. n |-> IF k = 0 THEN InitialScale ELSE Rescaled(h, k, g[k-1])]
           chosen == CHOOSE g : eq(g)
<1>1. PICK f : FollowsScale(f, h, n)
  BY ScaleExists
<1>2. ScaleAfter(h) = chosen[n]
  BY Zenon DEF ScaleAfter, Rescaled
<1>3. eq(f)
  <2>1. f = [k \in 0 .. n |-> f[k]]
    BY <1>1 DEF FollowsScale
  <2>2. \A k \in 0 .. n : f[k] = IF k = 0 THEN InitialScale ELSE Rescaled(h, k, f[k-1])
    BY <1>1 DEF FollowsScale
  <2> QED BY <2>1, <2>2
<1>4. PICK g : eq(g) /\ ScaleAfter(h) = g[n]
  <2> HIDE DEF eq
  <2>1. eq(chosen)
    BY <1>3
  <2> HIDE DEF chosen
  <2> QED BY <1>2, <2>1
<1>5. RescalesEach(g, h, n)
  BY <1>4 DEF RescalesEach
<1> HIDE DEF eq
<1>6. g[n] = f[n]
  BY <1>1, <1>5, ScaleUnique
<1> QED BY <1>1, <1>4, <1>6

\* One more step rescales once more.
LEMMA ScaleStep ==
  ASSUME NEW h \in Seq(BOOLEAN), NEW b \in BOOLEAN
  PROVE  /\ ScaleAfter(h) \in Int
         /\ ScaleAfter(Append(h, b)) = Rescaled(Append(h, b), Len(h) + 1, ScaleAfter(h))
<1> DEFINE g == Append(h, b)
           n == Len(h)
<1>0. n \in Nat /\ g \in Seq(BOOLEAN) /\ Len(g) = n + 1
  OBVIOUS
<1>1. SameUpTo(g, h, n)
  BY DEF SameUpTo
<1> HIDE DEF g
<1>2. PICK f : FollowsScale(f, h, n) /\ ScaleAfter(h) = f[n]
  BY <1>0, ScaleFollowed
<1> HIDE DEF n
<1>3. PICK e : FollowsScale(e, g, n+1) /\ ScaleAfter(g) = e[n+1]
  BY <1>0, ScaleFollowed
<1>4. ASSUME NEW k \in 1 .. n, NEW s PROVE Rescaled(g, k, s) = Rescaled(h, k, s)
  <2>1. Grows(g, k) = Grows(h, k)
    BY <1>0, <1>1, GrowsPrefix
  <2>2. k \in Nat /\ SameUpTo(g, h, k) /\ g[k] = h[k]
    BY <1>0, <1>1 DEF SameUpTo
  <2>3. OverflowsSinceGrowth(g, k) = OverflowsSinceGrowth(h, k)
    BY <1>0, <2>2, OverflowsPrefix
  <2> QED BY <2>1, <2>2, <2>3 DEF Rescaled
<1>5. StepAlike(e, f, n)
  <2>1. e[0] = f[0]
    BY <1>2, <1>3 DEF FollowsScale
  <2>2. ASSUME NEW k \in 1 .. n, e[k-1] = f[k-1] PROVE e[k] = f[k]
    <3>1. k \in 1 .. n+1
      BY <1>0
    <3>2. e[k] = Rescaled(g, k, e[k-1]) /\ f[k] = Rescaled(h, k, f[k-1])
      BY <1>2, <1>3, <3>1 DEF FollowsScale
    <3> QED BY <1>4, <2>2, <3>2
  <2> QED BY <2>1, <2>2 DEF StepAlike
<1>6. e[n] = f[n]
  BY <1>0, <1>5, StepwiseEqual
<1>7. e[n+1] = Rescaled(g, n+1, e[n])
  <2>1. n + 1 \in 1 .. n+1 /\ (n + 1) - 1 = n
    BY <1>0
  <2> QED BY <1>3, <2>1 DEF FollowsScale
<1>8. f[n] \in Int /\ e[n] = f[n]
  BY <1>0, <1>2, <1>6 DEF FollowsScale
<1>9. ScaleAfter(h) \in Int /\ ScaleAfter(g) = Rescaled(g, n+1, ScaleAfter(h))
  BY <1>2, <1>3, <1>7, <1>8
<1> QED BY <1>9 DEF g, n

-----------------------------------------------------------------------------
\* No steps, ...
LEMMA ScalerAtStart ==
  ScalerAfter(<<>>) = NewScaler
<1> DEFINE h == <<>>
<1>1. h \in Seq(BOOLEAN) /\ Len(h) = 0
  OBVIOUS
<1> HIDE DEF h
<1>2. GoodRun(h, Len(h)) = 0
  <2>1. Len(h) \in 0 .. Len(h) /\ \A k \in 0 .. Len(h) : k = 0
    BY <1>1
  <2> QED BY <1>1, <2>1, GoodRunExists
<1>3. OverflowsSinceGrowth(h, Len(h)) = 0
  <2>1. Len(h) \in Nat /\ Len(h) = 0
    BY <1>1
  <2> QED BY <2>1, OverflowsAtGrowth
<1>4. ScaleAfter(h) = InitialScale
  <2>1. 0 \in Nat /\ 0 = Len(h)
    BY <1>1
  <2>2. PICK f : FollowsScale(f, h, 0) /\ ScaleAfter(h) = f[0]
    BY <1>1, <2>1, ScaleFollowed
  <2> QED BY <2>2 DEF FollowsScale
<1>5. 0 % GrowthInterval = 0
  BY ScalerAssumption
<1>6. Hysteresis - 0 = Hysteresis
  BY ScalerAssumption
<1>7. ScalerAfter(h) = NewScaler
  BY <1>2, <1>3, <1>4, <1>5, <1>6 DEF ScalerAfter, NewScaler
<1> QED BY <1>7 DEF h

\* ... and one more step after the steps h.
LEMMA ScalerStep ==
  ASSUME NEW h \in Seq(BOOLEAN), NEW b \in BOOLEAN
  PROVE  ScalerAfter(Append(h, b)) = Update(ScalerAfter(h), ~b)
<1> DEFINE g == Append(h, b)
           n == Len(h)
           run == GoodRun(h, n)
           old == OverflowsSinceGrowth(h, n)
           s == ScaleAfter(h)
           I == GrowthInterval
<1>0. n \in Nat /\ g \in Seq(BOOLEAN) /\ Len(g) = n + 1 /\ g[n+1] = b
      /\ SameUpTo(g, h, n)
  BY DEF SameUpTo
<1>1. s \in Int /\ ScaleAfter(g) = Rescaled(g, n+1, s)
  BY ScaleStep
<1>2. run \in Nat
  <2>1. n \in 0 .. Len(h)
    OBVIOUS
  <2> QED BY <2>1, GoodRunExists
<1>3. old \in Int
  BY OverflowsAreNumbers
<1>4. GoodRun(g, n) = run /\ OverflowsSinceGrowth(g, n) = old
  <2> HIDE DEF g
  <2> QED BY <1>0, GoodRunPrefix, OverflowsPrefix
<1>5. ScalerAfter(h) = [scale |-> s, growth |-> run % I, hysteresis |-> Hysteresis - old]
  BY DEF ScalerAfter
<1> HIDE DEF g, n, run, old, s
<1>6. I \in Nat \ {0} /\ Hysteresis \in Nat \ {0}
  BY ScalerAssumption
<1>7. n + 1 \in 1 .. Len(g) /\ n + 1 \in Nat \ {0} /\ (n + 1) - 1 = n
  BY <1>0
<1>8. GoodRun(g, n+1) = IF b THEN run + 1 ELSE 0
  BY <1>0, <1>4, <1>7, GoodRunStep
<1>9. ScalerAfter(g) = [scale |-> Rescaled(g, n+1, s), growth |-> GoodRun(g, n+1) % I,
                        hysteresis |-> Hysteresis - OverflowsSinceGrowth(g, n+1)]
  BY <1>0, <1>1 DEF ScalerAfter
<1>10. Grows(g, n+1) <=> b /\ (run + 1) % I = 0
  BY <1>0, <1>8 DEF Grows
<1>11. ~Grows(g, n+1) => OverflowsSinceGrowth(g, n+1) = old + (IF b THEN 0 ELSE 1)
  BY <1>0, <1>4, <1>7, OverflowsStep
<1>12. Grows(g, n+1) => OverflowsSinceGrowth(g, n+1) = 0
  <2>1. n + 1 \in Nat
    BY <1>7
  <2> QED BY <2>1, OverflowsAtGrowth
<1> DEFINE r == run % I
           q == run \div I
<1>13. q \in Int /\ r \in 0 .. I - 1 /\ run = q * I + r
  BY <1>2, <1>6, Quotient
<1> HIDE DEF r, q
<1>14. r + 1 = I => (run + 1) % I = 0
  <2> SUFFICES ASSUME r + 1 = I PROVE (run + 1) % I = 0
    OBVIOUS
  <2>1. q + 1 \in Int /\ 0 \in 0 .. I - 1 /\ q * I \in Int
    BY <1>6, <1>13
  <2>2. ((q + 1) * I + 0) % I = 0
    BY <1>6, <2>1, ExactQuotient
  <2>3. (q + 1) * I + 0 = run + 1
    BY <1>6, <1>13, <2>1
  <2> QED BY <2>2, <2>3
<1>15. r + 1 # I => (run + 1) % I = r + 1 /\ r + 1 # 0
  <2> SUFFICES ASSUME r + 1 # I PROVE (run + 1) % I = r + 1 /\ r + 1 # 0
    OBVIOUS
  <2>1. r + 1 \in 0 .. I - 1 /\ q * I \in Int
    BY <1>6, <1>13
  <2>2. (q * I + (r + 1)) % I = r + 1
    BY <1>6, <1>13, <2>1, ExactQuotient
  <2>3. q * I + (r + 1) = run + 1
    BY <1>13, <2>1
  <2> QED BY <1>13, <2>2, <2>3
<1>16. ScalerAfter(h) = [scale |-> s, growth |-> r, hysteresis |-> Hysteresis - old]
  BY <1>5 DEF r
<1>17. ScalerAfter(g) = Update(ScalerAfter(h), ~b)
  <2>1. CASE ~b
    <3>1. ~Grows(g, n+1) /\ ~g[n+1]
      BY <1>0, <1>10, <2>1
    <3>2. OverflowsSinceGrowth(g, n+1) = old + 1 /\ GoodRun(g, n+1) = 0 /\ 0 % I = 0
      BY <1>6, <1>8, <1>11, <2>1, <3>1
    <3>3. (old + 1 >= Hysteresis) <=> ((Hysteresis - old) - 1 <= 0)
      BY <1>3, <1>6
    <3>4. Rescaled(g, n+1, s) = IF (Hysteresis - old) - 1 <= 0 THEN Backoff(s) ELSE s
      BY <3>1, <3>2, <3>3 DEF Rescaled
    <3>5. Hysteresis - (old + 1) = (Hysteresis - old) - 1
      BY <1>3, <1>6
    <3>6. ScalerAfter(g) = Overflowed(ScalerAfter(h))
      BY <1>9, <1>16, <3>2, <3>4, <3>5 DEF Overflowed
    <3> QED BY <2>1, <3>6 DEF Update
  <2>2. CASE b /\ r + 1 = I
    <3>1. Grows(g, n+1)
      BY <1>10, <1>14, <2>2
    <3>2. OverflowsSinceGrowth(g, n+1) = 0 /\ GoodRun(g, n+1) % I = 0 /\ Hysteresis - 0 = Hysteresis
      BY <1>6, <1>8, <1>12, <1>14, <2>2, <3>1
    <3>3. Rescaled(g, n+1, s) = s + 1
      BY <3>1 DEF Rescaled
    <3>4. ScalerAfter(g) = Succeeded(ScalerAfter(h))
      BY <1>9, <1>16, <2>2, <3>2, <3>3 DEF Succeeded
    <3> QED BY <2>2, <3>4 DEF Update
  <2>3. CASE b /\ r + 1 # I
    <3>1. ~Grows(g, n+1) /\ g[n+1]
      BY <1>0, <1>10, <1>15, <2>3
    <3>2. OverflowsSinceGrowth(g, n+1) = old /\ GoodRun(g, n+1) % I = r + 1
      BY <1>3, <1>8, <1>11, <1>15, <2>3, <3>1
    <3>3. Rescaled(g, n+1, s) = s
      BY <3>1 DEF Rescaled
    <3>4. ScalerAfter(g) = Succeeded(ScalerAfter(h))
      BY <1>9, <1>16, <2>3, <3>2, <3>3 DEF Succeeded
    <3> QED BY <2>3, <3>4 DEF Update
  <2> QED BY <2>1, <2>2, <2>3
<1> QED BY <1>17 DEF g

\* The scaler after an overflow, ...
LEMMA ScalerAfterOverflow ==
  ASSUME NEW h \in Seq(BOOLEAN)
  PROVE  ScalerAfter(Append(h, FALSE)) = Overflowed(ScalerAfter(h))
<1>1. ScalerAfter(Append(h, FALSE)) = Update(ScalerAfter(h), ~FALSE)
  BY ScalerStep
<1> QED BY <1>1 DEF Update

\* ... and after a good step.
LEMMA ScalerAfterSuccess ==
  ASSUME NEW h \in Seq(BOOLEAN)
  PROVE  ScalerAfter(Append(h, TRUE)) = Succeeded(ScalerAfter(h))
<1>1. ScalerAfter(Append(h, TRUE)) = Update(ScalerAfter(h), ~TRUE)
  BY ScalerStep
<1> QED BY <1>1 DEF Update

-----------------------------------------------------------------------------
\* The scalers of the ranks.

\* Between the update of its scaler and the end of the step a rank has a
\* good step in its scaler that is not among its results yet.
Pending == {"clip", "gather"}
Seen(r) == IF pc[r] \in Pending THEN Append(results[r], TRUE) ELSE results[r]

Expected(c, h) == IF c.dynamic THEN ScalerAfter(h) ELSE NewScaler

\* The inductive invariant: the checkpoint keeps results and scalers of
\* one step, as a restart needs them.
ScalersInv ==
  /\ config \in Configs /\ dp \in config.dp_sizes
  /\ \A r \in Ranks : results[r] \in Seq(BOOLEAN) /\ scaler[r] = Expected(config, Seen(r))
  /\ disk # NoCheckpoint =>
       /\ disk.results \in Seq(BOOLEAN)
       /\ \A m \in Positions : disk.scaler[m] = Expected(config, disk.results)

\* The shared parameter is reduced in a phase of its own.
LEMMA SharedPhase ==
  ASSUME config \in Configs
  PROVE  config.shared \in {"embedding", "layernorm"}
BY ConfigsAssumption

\* No reduction leads to a phase with a pending step.
LEMMA ReductionPhases ==
  ASSUME config \in Configs, NEW m, NEW p
  PROVE  Reductions(m)[1] \notin Pending /\ AfterReduction(m, p) \notin Pending
<1>1. config.shared \notin Pending
  BY SharedPhase DEF Pending
<1>2. Reductions(m)[1] \notin Pending /\ Reductions(m)[2] \notin Pending
  BY <1>1 DEF Reductions, Pending
<1> QED BY <1>2 DEF AfterReduction, Pending

\* A step that touches no scaler and no result, and takes no rank into or
\* out of a pending step.
LEMMA Quiet ==
  ASSUME ScalersInv, UNCHANGED <<config, dp, scaler, results, disk>>,
         \A r \in Ranks : (pc'[r] \in Pending) <=> (pc[r] \in Pending)
  PROVE  ScalersInv'
BY DEF ScalersInv, Seen, Ranks

\* A launch begins with a new scaler and no steps.
LEMMA ScalersInit == Init => ScalersInv
<1> SUFFICES ASSUME Init PROVE ScalersInv
  OBVIOUS
<1>1. <<>> \in Seq(BOOLEAN)
  OBVIOUS
<1>2. ASSUME NEW r \in Ranks PROVE results[r] \in Seq(BOOLEAN) /\ scaler[r] = Expected(config, Seen(r))
  <2>1. results[r] = <<>> /\ scaler[r] = NewScaler /\ pc[r] = "train"
    BY DEF Init
  <2>2. Seen(r) = <<>>
    BY <2>1 DEF Seen, Pending
  <2> QED BY <1>1, <2>1, <2>2, ScalerAtStart DEF Expected
<1> QED BY <1>2 DEF Init, ScalersInv

\* The schedule and the reductions leave scalers and results alone; ...
LEMMA ForwardBackwardScalers ==
  ASSUME ScalersInv, NEW r \in Ranks, NEW inf \in BOOLEAN, ForwardBackward(r, inf)
  PROVE  ScalersInv'
<1>1. UNCHANGED <<config, dp, scaler, results, disk>> /\ pc[r] = "train"
  BY DEF ForwardBackward
<1>2. pc' = [q \in Ranks |-> IF q \in {r} THEN Reductions(r[2])[1] ELSE pc[q]]
  BY DEF ForwardBackward, Goto
<1>3. Reductions(r[2])[1] \notin Pending
  BY ReductionPhases DEF ScalersInv
<1>4. \A q \in Ranks : (pc'[q] \in Pending) <=> (pc[q] \in Pending)
  BY <1>1, <1>2, <1>3 DEF Pending
<1> QED BY <1>1, <1>4, Quiet

\* ... so does the unscaling.
LEMMA UnscaleScalers ==
  ASSUME ScalersInv, NEW r \in Ranks, Unscale(r)
  PROVE  ScalersInv'
<1>1. UNCHANGED <<config, dp, scaler, results, disk>> /\ pc[r] = "unscale"
  BY DEF Unscale
<1>2. pc' = [q \in Ranks |-> IF q \in {r} THEN "found_inf" ELSE pc[q]]
  BY DEF Unscale, Goto
<1>3. \A q \in Ranks : (pc'[q] \in Pending) <=> (pc[q] \in Pending)
  BY <1>1, <1>2 DEF Pending
<1> QED BY <1>1, <1>3, Quiet

\* The three reductions of the gradients.
LEMMA ReductionScalers ==
  ASSUME ScalersInv, NEW G, NEW p, p \notin Pending, At(G, p), GotoAfter(G, p),
         UNCHANGED <<config, dp, scaler, results, disk>>
  PROVE  ScalersInv'
<1>1. \A q \in G : pc[q] = p
  BY DEF At
<1>2. pc' = [q \in Ranks |-> IF q \in G THEN AfterReduction(q[2], p) ELSE pc[q]]
  BY DEF GotoAfter
<1>3. \A q \in Ranks : AfterReduction(q[2], p) \notin Pending
  BY ReductionPhases DEF ScalersInv
<1>4. \A q \in Ranks : (pc'[q] \in Pending) <=> (pc[q] \in Pending)
  BY <1>1, <1>2, <1>3
<1> QED BY <1>4, Quiet

\* The scalers of a group take in one step; a good one is still pending.
LEMMA FoundInfScalers ==
  ASSUME ScalersInv, NEW G, FoundInf(G)
  PROVE  ScalersInv'
<1> DEFINE found_inf == \E q \in G : IsInf(q)
<1>1. /\ UNCHANGED <<config, dp, disk>> /\ \A q \in G : pc[q] = "found_inf"
      /\ scaler' = [q \in Ranks |->
           IF q \in G /\ config.dynamic THEN Update(scaler[q], found_inf) ELSE scaler[q]]
      /\ pc' = [q \in Ranks |->
           IF q \in G THEN IF found_inf THEN "train" ELSE "clip" ELSE pc[q]]
      /\ results' = [q \in Ranks |->
           IF q \in G /\ found_inf THEN Append(results[q], FALSE) ELSE results[q]]
  BY DEF FoundInf, At, Goto
<1>2. Ranks' = Ranks
  BY <1>1 DEF Ranks
<1> HIDE DEF found_inf
<1>3. ASSUME NEW r \in Ranks
      PROVE  results'[r] \in Seq(BOOLEAN) /\ scaler'[r] = Expected(config', Seen(r)')
  <2>1. results[r] \in Seq(BOOLEAN) /\ scaler[r] = Expected(config, Seen(r))
    BY DEF ScalersInv
  <2>2. Append(results[r], FALSE) \in Seq(BOOLEAN)
    BY <2>1
  <2>3. CASE r \notin G
    <3>1. results'[r] = results[r] /\ scaler'[r] = scaler[r] /\ pc'[r] = pc[r]
      BY <1>1, <2>3
    <3>2. Seen(r)' = Seen(r)
      BY <3>1 DEF Seen
    <3> QED BY <1>1, <2>1, <3>1, <3>2
  <2>4. CASE r \in G /\ found_inf
    <3>1. results'[r] = Append(results[r], FALSE) /\ pc'[r] = "train" /\ pc[r] = "found_inf"
          /\ scaler'[r] = IF config.dynamic THEN Overflowed(scaler[r]) ELSE scaler[r]
      BY <1>1, <2>4 DEF Update
    <3>2. Seen(r) = results[r] /\ Seen(r)' = Append(results[r], FALSE)
      BY <3>1 DEF Seen, Pending
    <3>3. ScalerAfter(Append(results[r], FALSE)) = Overflowed(ScalerAfter(results[r]))
      BY <2>1, ScalerAfterOverflow
    <3> QED BY <1>1, <2>1, <2>2, <3>1, <3>2, <3>3 DEF Expected
  <2>5. CASE r \in G /\ ~found_inf
    <3>1. results'[r] = results[r] /\ pc'[r] = "clip" /\ pc[r] = "found_inf"
          /\ scaler'[r] = IF config.dynamic THEN Succeeded(scaler[r]) ELSE scaler[r]
      BY <1>1, <2>5 DEF Update
    <3>2. Seen(r) = results[r] /\ Seen(r)' = Append(results[r], TRUE)
      BY <3>1 DEF Seen, Pending
    <3>3. ScalerAfter(Append(results[r], TRUE)) = Succeeded(ScalerAfter(results[r]))
      BY <2>1, ScalerAfterSuccess
    <3> QED BY <1>1, <2>1, <3>1, <3>2, <3>3 DEF Expected
  <2> QED BY <2>3, <2>4, <2>5
<1> QED BY <1>1, <1>2, <1>3 DEF ScalersInv

\* The end of a good step for the ranks of a group: it is among the
\* results now.
LEMMA DoneScalers ==
  ASSUME ScalersInv, NEW G, \A q \in G : pc[q] \in Pending, Goto(G, "train"),
         results' = [q \in Ranks |-> IF q \in G THEN Append(results[q], TRUE) ELSE results[q]],
         UNCHANGED <<config, dp, scaler, disk>>
  PROVE  ScalersInv'
<1>1. pc' = [q \in Ranks |-> IF q \in G THEN "train" ELSE pc[q]]
  BY DEF Goto
<1>2. Ranks' = Ranks
  BY DEF Ranks
<1>3. ASSUME NEW r \in Ranks
      PROVE  results'[r] \in Seq(BOOLEAN) /\ scaler'[r] = Expected(config', Seen(r)')
  <2>1. results[r] \in Seq(BOOLEAN) /\ scaler[r] = Expected(config, Seen(r))
    BY DEF ScalersInv
  <2>2. Append(results[r], TRUE) \in Seq(BOOLEAN)
    BY <2>1
  <2>3. results'[r] \in Seq(BOOLEAN)
    BY <2>1, <2>2
  <2>4. CASE r \in G
    <3>1. pc[r] \in Pending /\ pc'[r] = "train" /\ results'[r] = Append(results[r], TRUE)
      BY <1>1, <2>4
    <3>2. Seen(r)' = Seen(r)
      BY <3>1 DEF Seen, Pending
    <3> QED BY <2>1, <2>3, <3>2
  <2>5. CASE r \notin G
    <3>1. pc'[r] = pc[r] /\ results'[r] = results[r]
      BY <1>1, <2>5
    <3>2. Seen(r)' = Seen(r)
      BY <3>1 DEF Seen
    <3> QED BY <2>1, <2>3, <3>2
  <2> QED BY <2>4, <2>5
<1> QED BY <1>2, <1>3 DEF ScalersInv

\* The optimizer ends the step, or goes on to the all-gather, ...
LEMMA ClipAndStepScalers ==
  ASSUME ScalersInv, NEW r \in Ranks, ClipAndStep(ModelParallelGroup(r))
  PROVE  ScalersInv'
<1>0. PICK G : G = ModelParallelGroup(r)
  OBVIOUS
<1>1. UNCHANGED <<config, dp, scaler, disk>> /\ \A q \in G : pc[q] = "clip"
  BY <1>0 DEF ClipAndStep, At
<1>2. CASE config.distributed
  <2>1. results' = results /\ Goto(G, "gather")
    BY <1>0, <1>2 DEF ClipAndStep, Goto
  <2>2. \A q \in Ranks : (pc'[q] \in Pending) <=> (pc[q] \in Pending)
    BY <1>1, <2>1 DEF Goto, Pending
  <2> QED BY <1>1, <2>1, <2>2, Quiet
<1>3. CASE ~config.distributed
  <2>1. Goto(G, "train")
    BY <1>0, <1>3 DEF ClipAndStep, Goto
  <2>2. results' = [q \in Ranks |-> IF q \in G THEN Append(results[q], TRUE) ELSE results[q]]
    BY <1>0, <1>3 DEF ClipAndStep
  <2>3. \A q \in G : pc[q] \in Pending
    BY <1>1 DEF Pending
  <2> QED BY <1>1, <2>1, <2>2, <2>3, DoneScalers
<1> QED BY <1>2, <1>3

\* ... which ends it.
LEMMA AllGatherScalers ==
  ASSUME ScalersInv, NEW m \in Positions, AllGather(m)
  PROVE  ScalersInv'
<1>1. PICK G : G = DataParallel(m)
  OBVIOUS
<1>2. /\ UNCHANGED <<config, dp, scaler, disk>> /\ \A q \in G : pc[q] = "gather"
      /\ Goto(G, "train")
      /\ results' = [q \in Ranks |-> IF q \in G THEN Append(results[q], TRUE) ELSE results[q]]
  BY <1>1 DEF AllGather, At, Goto
<1>3. \A q \in G : pc[q] \in Pending
  BY <1>2 DEF Pending
<1> QED BY <1>2, <1>3, DoneScalers

\* A checkpoint is made between two steps, when no step is pending.
LEMMA SaveScalers ==
  ASSUME ScalersInv, Save
  PROVE  ScalersInv'
<1>1. UNCHANGED <<config, dp, pc, scaler, results>> /\ \A r \in Ranks : pc[r] = "train"
  BY DEF Save, At
<1>2. disk'.results = results[<<0, 0>>] /\ \A m \in Positions : disk'.scaler[m] = scaler[<<0, m>>]
  BY DEF Save
<1>3. \A r, q \in Ranks : results[r] = results[q]
  BY DEF Save
<1>4. \A m \in Positions : <<0, m>> \in Ranks
  <2>1. dp \in Nat \ {0}
    BY ConfigsAssumption DEF ScalersInv
  <2> QED BY <2>1 DEF Ranks, RanksOf
<1>5. 0 \in Positions
  BY DEF Positions
<1>6. disk'.results \in Seq(BOOLEAN)
  BY <1>2, <1>4, <1>5 DEF ScalersInv
<1>7. ASSUME NEW m \in Positions PROVE disk'.scaler[m] = Expected(config, disk'.results)
  <2>1. <<0, m>> \in Ranks /\ <<0, 0>> \in Ranks
    BY <1>4, <1>5
  <2>2. scaler[<<0, m>>] = Expected(config, Seen(<<0, m>>))
    BY <2>1 DEF ScalersInv
  <2>3. Seen(<<0, m>>) = results[<<0, m>>] /\ results[<<0, m>>] = results[<<0, 0>>]
    BY <1>1, <1>3, <2>1 DEF Seen, Pending
  <2> QED BY <1>2, <2>2, <2>3
<1>8. \A r \in Ranks : results'[r] \in Seq(BOOLEAN) /\ scaler'[r] = Expected(config', Seen(r)')
  BY <1>1 DEF ScalersInv, Seen
<1>9. Ranks' = Ranks
  BY <1>1 DEF Ranks
<1> QED BY <1>1, <1>6, <1>7, <1>8, <1>9 DEF ScalersInv

\* A restart takes results and scalers of one checkpoint.
LEMMA RestartScalers ==
  ASSUME ScalersInv, NEW n \in config.dp_sizes, Restart(n)
  PROVE  ScalersInv'
<1>1. /\ UNCHANGED <<config, disk>> /\ dp' = n /\ disk # NoCheckpoint
      /\ pc' = [r \in RanksOf(n) |-> "train"]
      /\ scaler' = [r \in RanksOf(n) |-> disk.scaler[r[2]]]
      /\ results' = [r \in RanksOf(n) |-> disk.results]
  BY DEF Restart
<1>2. Ranks' = RanksOf(n)
  BY <1>1 DEF Ranks
<1>3. disk.results \in Seq(BOOLEAN) /\ \A m \in Positions : disk.scaler[m] = Expected(config, disk.results)
  BY <1>1 DEF ScalersInv
<1>4. ASSUME NEW r \in RanksOf(n)
      PROVE  results'[r] \in Seq(BOOLEAN) /\ scaler'[r] = Expected(config', Seen(r)')
  <2>1. r[2] \in Positions
    BY DEF RanksOf
  <2>2. results'[r] = disk.results /\ scaler'[r] = disk.scaler[r[2]] /\ pc'[r] = "train"
    BY <1>1
  <2>3. Seen(r)' = disk.results
    BY <2>2 DEF Seen, Pending
  <2> QED BY <1>1, <1>3, <2>1, <2>2, <2>3
<1> QED BY <1>1, <1>2, <1>3, <1>4 DEF ScalersInv

\* Every step keeps the invariant.
LEMMA ScalersStep == ScalersInv /\ [Next]_vars => ScalersInv'
<1> SUFFICES ASSUME ScalersInv, [Next]_vars PROVE ScalersInv'
  OBVIOUS
<1>1. ASSUME NEW r \in Ranks, NEW inf \in BOOLEAN, ForwardBackward(r, inf) PROVE ScalersInv'
  BY <1>1, ForwardBackwardScalers
<1>2. ASSUME NEW r \in Ranks, Unscale(r) PROVE ScalersInv'
  BY <1>2, UnscaleScalers
<1>3. ASSUME NEW d \in 0 .. dp-1, AllreduceShared(d) PROVE ScalersInv'
  <2>1. PICK G, p : G = Sharing(d) /\ p = config.shared
    OBVIOUS
  <2>2. At(G, p) /\ GotoAfter(G, p) /\ UNCHANGED <<config, dp, scaler, results, disk>>
    BY <1>3, <2>1 DEF AllreduceShared, At, GotoAfter
  <2>3. p \notin Pending
    BY <2>1, SharedPhase DEF ScalersInv, Pending
  <2> QED BY <2>2, <2>3, ReductionScalers
<1>4. ASSUME NEW m \in Positions, AllreduceGradients(m) PROVE ScalersInv'
  <2>1. PICK G : G = DataParallel(m)
    OBVIOUS
  <2>2. At(G, "allreduce") /\ GotoAfter(G, "allreduce")
        /\ UNCHANGED <<config, dp, scaler, results, disk>>
    BY <1>4, <2>1 DEF AllreduceGradients, At, GotoAfter
  <2>3. "allreduce" \notin Pending
    BY DEF Pending
  <2> QED BY <2>2, <2>3, ReductionScalers
<1>5. ASSUME NEW m \in Positions, ReduceScatter(m) PROVE ScalersInv'
  <2>1. PICK G : G = DataParallel(m)
    OBVIOUS
  <2>2. At(G, "scatter") /\ GotoAfter(G, "scatter")
        /\ UNCHANGED <<config, dp, scaler, results, disk>>
    BY <1>5, <2>1 DEF ReduceScatter, At, GotoAfter
  <2>3. "scatter" \notin Pending
    BY DEF Pending
  <2> QED BY <2>2, <2>3, ReductionScalers
<1>6. ASSUME NEW m \in Positions, AllGather(m) PROVE ScalersInv'
  BY <1>6, AllGatherScalers
<1>7. ASSUME NEW r \in Ranks, FoundInf(ModelParallelGroup(r)) PROVE ScalersInv'
  <2>1. PICK G : G = ModelParallelGroup(r)
    OBVIOUS
  <2>2. FoundInf(G)
    BY <1>7, <2>1 DEF FoundInf, At, Goto
  <2> QED BY <2>2, FoundInfScalers
<1>8. ASSUME NEW r \in Ranks, ClipAndStep(ModelParallelGroup(r)) PROVE ScalersInv'
  BY <1>8, ClipAndStepScalers
<1>9. CASE Save
  BY <1>9, SaveScalers
<1>10. ASSUME NEW n \in config.dp_sizes, Restart(n) PROVE ScalersInv'
  BY <1>10, RestartScalers
<1>11. CASE UNCHANGED vars
  BY <1>11, Quiet DEF vars
<1> QED
  BY <1>1, <1>2, <1>3, <1>4, <1>5, <1>6, <1>7, <1>8, <1>9, <1>10, <1>11 DEF Next, Step, Trained

\* On every rank the loss scaler is what the comments of update() say of
\* the steps the rank has seen (ScalerFollowsHistory), for every model,
\* any number of replicas, steps and restarts, and all parameters of the
\* scaler.
THEOREM ScalersAlwaysFollowHistory == Spec => []ScalerFollowsHistory
<1>1. ScalersInv => ScalerFollowsHistory
  BY DEF ScalersInv, ScalerFollowsHistory, Seen, Expected, Pending
<1> QED BY <1>1, ScalersInit, ScalersStep, PTL DEF Spec

-----------------------------------------------------------------------------
(***************************************************************************)
(* The layout of the gradient buffer and who owns what of it.              *)
(***************************************************************************)

\* The parameters of a position.
LEMMA ParametersOf ==
  ASSUME NEW c \in Configs, NEW m \in Positions
  PROVE  /\ Len(c.names[m]) \in Nat \ {0} /\ DOMAIN c.names[m] = 1 .. Len(c.names[m])
         /\ \A j, k \in 1 .. Len(c.names[m]) : c.names[m][j] = c.names[m][k] => j = k
         /\ \A k \in 1 .. Len(c.names[m]) : c.size[c.names[m][k]] \in Nat \ {0}
<1>1. /\ c.names[m] \in Seq(DOMAIN c.size) /\ c.names[m] # <<>>
      /\ \A j, k \in DOMAIN c.names[m] : c.names[m][j] = c.names[m][k] => j = k
      /\ \A k \in DOMAIN c.names[m] : c.size[c.names[m][k]] \in Nat \ {0}
  BY ConfigsAssumption
<1>2. Len(c.names[m]) \in Nat \ {0} /\ DOMAIN c.names[m] = 1 .. Len(c.names[m])
  BY <1>1
<1> QED BY <1>1, <1>2

\* The recursion of After, ...
IsAfter(f, c, m) ==
  f = [k \in 0 .. Len(c.names[m]) |->
         IF k = Len(c.names[m]) THEN 0 ELSE f[k + 1] + c.size[c.names[m][k + 1]]]

\* ... which a function follows, ...
LEMMA AfterExists ==
  ASSUME NEW c \in Configs, NEW m \in Positions
  PROVE  \E f : IsAfter(f, c, m)
<1> DEFINE l == Len(c.names[m])
           size(k) == c.size[c.names[m][k]]
           step == [i \in Nat |-> [x \in Int |-> IF i \in 1 .. l THEN x + size(l - i + 1) ELSE x]]
<1>1. l \in Nat \ {0} /\ \A k \in 1 .. l : size(k) \in Nat
  BY ParametersOf
<1> HIDE DEF l, size
<1>2. step \in [Nat -> [Int -> Int]]
  <2>1. ASSUME NEW i \in Nat, NEW x \in Int
        PROVE  (IF i \in 1 .. l THEN x + size(l - i + 1) ELSE x) \in Int
    <3>1. CASE i \in 1 .. l
      <4>1. l - i + 1 \in 1 .. l
        BY <1>1, <3>1
      <4>2. size(l - i + 1) \in Nat
        BY <1>1, <4>1
      <4> QED BY <3>1, <4>2
    <3> QED BY <3>1
  <2> QED BY <2>1
<1>3. \A i \in 1 .. l : \A x \in Int : step[i][x] = x + size(l - i + 1)
  BY <1>1
<1> HIDE DEF step
<1>4. PICK g \in [0 .. l -> Int] : g[0] = 0 /\ \A i \in 1 .. l : g[i] = step[i][g[i-1]]
  <2>1. l \in Nat /\ 0 \in Int
    BY <1>1
  <2> QED BY <1>2, <2>1, Iterates
<1> DEFINE f == [k \in 0 .. l |-> g[l - k]]
<1>5. \A k \in 0 .. l : f[k] = g[l - k]
  OBVIOUS
<1>6. DOMAIN f = 0 .. l
  OBVIOUS
<1>7. f = [k \in 0 .. l |-> f[k]]
  OBVIOUS
<1> HIDE DEF f
<1>8. ASSUME NEW k \in 0 .. l
      PROVE  f[k] = IF k = l THEN 0 ELSE f[k + 1] + size(k + 1)
  <2>1. CASE k = l
    <3>1. l - k = 0
      BY <1>1, <2>1
    <3> QED BY <1>4, <1>5, <2>1, <3>1
  <2>2. CASE k # l
    <3>1. l - k \in 1 .. l /\ k + 1 \in 0 .. l /\ l - (k + 1) = (l - k) - 1 /\ l - (l - k) + 1 = k + 1
          /\ (l - k) - 1 \in 0 .. l
      BY <1>1, <2>2
    <3>2. g[l - k] = step[l - k][g[(l - k) - 1]] /\ g[(l - k) - 1] \in Int
      BY <1>4, <3>1
    <3>3. g[l - k] = g[(l - k) - 1] + size(k + 1)
      BY <1>3, <3>1, <3>2
    <3> QED BY <1>5, <2>2, <3>1, <3>3
  <2> QED BY <2>1, <2>2
<1>9. f = [k \in 0 .. l |-> IF k = l THEN 0 ELSE f[k + 1] + size(k + 1)]
  BY <1>7, <1>8
<1>10. IsAfter(f, c, m)
  BY <1>9 DEF IsAfter, l, size
<1> QED BY <1>10

\* ... After among them.
LEMMA AfterIs ==
  ASSUME NEW c \in Configs, NEW m \in Positions
  PROVE  IsAfter(After(c, m), c, m)
<1>1. After(c, m) = CHOOSE f : IsAfter(f, c, m)
  BY DEF After, IsAfter
<1> QED BY <1>1, AfterExists

\* It counts down from the size of the model to 0 ...
LEMMA AfterSteps ==
  ASSUME NEW c \in Configs, NEW m \in Positions
  PROVE  /\ \A k \in 0 .. Len(c.names[m]) : After(c, m)[k] \in Nat
         /\ \A k \in 1 .. Len(c.names[m]) :
              After(c, m)[k - 1] = After(c, m)[k] + c.size[c.names[m][k]]
         /\ \A j, k \in 0 .. Len(c.names[m]) : j <= k => After(c, m)[k] <= After(c, m)[j]
<1> DEFINE l == Len(c.names[m])
           size(k) == c.size[c.names[m][k]]
           f == After(c, m)
<1>1. l \in Nat \ {0} /\ \A k \in 1 .. l : size(k) \in Nat
  BY ParametersOf
<1>2. \A k \in 0 .. l : f[k] = IF k = l THEN 0 ELSE f[k + 1] + size(k + 1)
  <2>1. f = [k \in 0 .. l |-> IF k = l THEN 0 ELSE f[k + 1] + size(k + 1)]
    BY AfterIs DEF IsAfter
  <2> HIDE DEF f, l, size
  <2> QED BY <2>1
<1> HIDE DEF f, l, size
<1>3. ASSUME NEW k \in 1 .. l PROVE f[k - 1] = f[k] + size(k)
  <2>1. k - 1 \in 0 .. l /\ k - 1 # l /\ (k - 1) + 1 = k
    BY <1>1
  <2> QED BY <1>2, <2>1
<1> DEFINE T == {i \in Nat : i <= l => \A k \in l - i .. l : f[k] \in Nat /\ f[k] <= f[l - i]}
<1>4. 0 \in T
  <2>1. l - 0 = l /\ l \in 0 .. l
    BY <1>1
  <2>2. f[l] = 0
    BY <1>2, <2>1
  <2>3. \A k \in l - 0 .. l : k = l
    BY <1>1
  <2> QED BY <2>1, <2>2, <2>3
<1>5. ASSUME NEW i \in T PROVE i + 1 \in T
  <2>1. i \in Nat /\ i + 1 \in Nat
    OBVIOUS
  <2>2. CASE i + 1 > l
    BY <1>1, <2>1, <2>2
  <2>3. CASE i + 1 <= l
    <3>1. i <= l /\ l - i \in 1 .. l /\ l - (i + 1) = (l - i) - 1 /\ l - i \in l - i .. l
      BY <1>1, <2>1, <2>3
    <3>2. \A k \in l - i .. l : f[k] \in Nat /\ f[k] <= f[l - i]
      BY <3>1
    <3>3. f[l - (i + 1)] = f[l - i] + size(l - i) /\ size(l - i) \in Nat
      BY <1>1, <1>3, <3>1
    <3>4. f[l - (i + 1)] \in Nat /\ f[l - i] <= f[l - (i + 1)]
      BY <3>1, <3>2, <3>3
    <3>5. ASSUME NEW k \in l - (i + 1) .. l PROVE f[k] \in Nat /\ f[k] <= f[l - (i + 1)]
      <4>1. CASE k = l - (i + 1)
        BY <3>4, <4>1
      <4>2. CASE k # l - (i + 1)
        <5>1. k \in l - i .. l
          BY <1>1, <2>1, <4>2
        <5>2. f[k] \in Nat /\ f[k] <= f[l - i] /\ f[l - i] \in Nat
          BY <3>1, <3>2, <5>1
        <5> QED BY <3>4, <5>2
      <4> QED BY <4>1, <4>2
    <3> QED BY <2>1, <3>5
  <2> QED BY <1>1, <2>1, <2>2, <2>3
<1>6. T \subseteq Nat
  OBVIOUS
<1> HIDE DEF T
<1>7. T = Nat
  BY <1>4, <1>5, <1>6, SetInduction
<1>8. ASSUME NEW j \in 0 .. l, NEW k \in 0 .. l, j <= k
      PROVE  f[k] \in Nat /\ f[k] <= f[j]
  <2>1. l - j \in T /\ l - j <= l /\ l - (l - j) = j /\ k \in l - (l - j) .. l
    BY <1>1, <1>7, <1>8
  <2> QED BY <2>1 DEF T
<1>9. \A k \in 0 .. l : f[k] \in Nat
  BY <1>8
<1> QED BY <1>3, <1>8, <1>9 DEF f, l, size

\* Where a parameter lies in the buffer.
LEMMA IndexIs ==
  ASSUME NEW c \in Configs, NEW m \in Positions, NEW k \in 1 .. Len(c.names[m])
  PROVE  Index(c, m, c.names[m][k]) = Span(After(c, m)[k], After(c, m)[k - 1])
<1>1. DOMAIN c.names[m] = 1 .. Len(c.names[m])
      /\ \A i, j \in 1 .. Len(c.names[m]) : c.names[m][i] = c.names[m][j] => i = j
  BY ParametersOf
<1>2. (CHOOSE i \in DOMAIN c.names[m] : c.names[m][i] = c.names[m][k]) = k
  BY <1>1
<1>3. Index(c, m, c.names[m][k]) = Span(After(c, m)[k], After(c, m)[k] + c.size[c.names[m][k]])
  BY <1>2 DEF Index
<1>4. After(c, m)[k - 1] = After(c, m)[k] + c.size[c.names[m][k]]
  BY AfterSteps
<1> QED BY <1>3, <1>4

\* Parameters are intervals of the buffer that do not meet.
LEMMA ElementPlace ==
  ASSUME NEW c \in Configs, NEW m \in Positions, NEW e \in ElementsOf(c, m)
  PROVE  /\ Numel(c, m) \in Nat \ {0}
         /\ \E a \in Nat, b \in 1 .. Numel(c, m) :
              /\ Index(c, m, e[1]) = Span(a, b) /\ e[2] \in 0 .. b - a - 1
              /\ Layout[c][m][e] = a + e[2]
<1>1. PICK name \in Names(c, m) : e \in {name} \X (0 .. c.size[name] - 1)
  BY DEF ElementsOf
<1>2. PICK k \in 1 .. Len(c.names[m]) : name = c.names[m][k]
  BY ParametersOf DEF Names
<1>3. e[1] = c.names[m][k] /\ e[2] \in 0 .. c.size[c.names[m][k]] - 1
  BY <1>1, <1>2
<1> DEFINE a == After(c, m)[k]
           b == After(c, m)[k - 1]
<1>4. /\ a \in Nat /\ b \in Nat /\ c.size[c.names[m][k]] \in Nat \ {0}
      /\ b = a + c.size[c.names[m][k]] /\ b <= After(c, m)[0] /\ After(c, m)[0] \in Nat
  <2> DEFINE l == Len(c.names[m])
             f == After(c, m)
  <2>1. l \in Nat /\ c.size[c.names[m][k]] \in Nat \ {0}
    BY ParametersOf
  <2>2. /\ \A i \in 0 .. l : f[i] \in Nat
        /\ \A i, j \in 0 .. l : i <= j => f[j] <= f[i]
        /\ f[k - 1] = f[k] + c.size[c.names[m][k]]
    BY AfterSteps
  <2>3. k \in 1 .. l
    OBVIOUS
  <2> HIDE DEF l, f
  <2>4. k - 1 \in 0 .. l /\ 0 \in 0 .. l /\ k \in 0 .. l /\ 0 <= k - 1
    BY <2>1, <2>3
  <2>5. f[k] \in Nat /\ f[k - 1] \in Nat /\ f[0] \in Nat /\ f[k - 1] <= f[0]
    BY <2>2, <2>4
  <2> QED BY <2>1, <2>2, <2>5 DEF f
<1>5. Index(c, m, e[1]) = Span(a, b)
  BY <1>3, IndexIs
<1>6. Layout[c][m][e] = Index(c, m, e[1]).start + e[2]
  BY DEF Layout
<1> HIDE DEF a, b
<1>7. Index(c, m, e[1]).start = a
  BY <1>5 DEF Span
<1>8. Numel(c, m) = After(c, m)[0]
  BY DEF Numel
<1>9. b \in 1 .. Numel(c, m) /\ Numel(c, m) \in Nat \ {0} /\ e[2] \in 0 .. b - a - 1
  <2> DEFINE size == c.size[c.names[m][k]]
             numel == After(c, m)[0]
  <2>1. /\ a \in Nat /\ b \in Nat /\ size \in Nat \ {0} /\ b = a + size /\ b <= numel /\ numel \in Nat
        /\ e[2] \in 0 .. size - 1
    BY <1>3, <1>4
  <2> HIDE DEF size, numel
  <2>2. b \in 1 .. numel /\ numel \in Nat \ {0} /\ e[2] \in 0 .. b - a - 1
    BY <2>1
  <2> QED BY <1>8, <2>2 DEF numel
<1>10. Layout[c][m][e] = a + e[2]
  BY <1>6, <1>7
<1> QED BY <1>4, <1>5, <1>9, <1>10

\* No two elements have one cell.
LEMMA LayoutInjective ==
  ASSUME NEW c \in Configs, NEW m \in Positions,
         NEW e \in ElementsOf(c, m), NEW d \in ElementsOf(c, m),
         Layout[c][m][e] = Layout[c][m][d]
  PROVE  e = d
<1> DEFINE l == Len(c.names[m])
           f == After(c, m)
<1>1. ASSUME NEW x \in ElementsOf(c, m)
      PROVE  \E k \in 1 .. l :
               /\ x = <<c.names[m][k], x[2]>> /\ x[2] \in 0 .. f[k - 1] - f[k] - 1
               /\ Layout[c][m][x] = f[k] + x[2]
  <2>1. PICK name \in Names(c, m) : x \in {name} \X (0 .. c.size[name] - 1)
    BY DEF ElementsOf
  <2>2. PICK k \in 1 .. l : name = c.names[m][k]
    BY ParametersOf DEF Names
  <2>3. x = <<c.names[m][k], x[2]>> /\ x[2] \in 0 .. c.size[c.names[m][k]] - 1 /\ x[1] = c.names[m][k]
    BY <2>1, <2>2
  <2>4. f[k - 1] = f[k] + c.size[c.names[m][k]] /\ k \in 0 .. l /\ f[k] \in Nat
        /\ c.size[c.names[m][k]] \in Nat
    BY AfterSteps, ParametersOf
  <2>5. Layout[c][m][x] = Index(c, m, x[1]).start + x[2]
    BY DEF Layout
  <2>6. Index(c, m, x[1]).start = f[k]
    <3>1. Index(c, m, c.names[m][k]) = Span(f[k], f[k - 1])
      BY IndexIs
    <3>2. Span(f[k], f[k - 1]).start = f[k]
      BY DEF Span
    <3> QED BY <2>3, <3>1, <3>2
  <2>7. x[2] \in 0 .. f[k - 1] - f[k] - 1
    BY SMTT(60), <2>3, <2>4
  <2> QED BY <2>3, <2>5, <2>6, <2>7
<1>2. PICK j \in 1 .. l : /\ e = <<c.names[m][j], e[2]>> /\ e[2] \in 0 .. f[j - 1] - f[j] - 1
                          /\ Layout[c][m][e] = f[j] + e[2]
  BY <1>1
<1>3. PICK k \in 1 .. l : /\ d = <<c.names[m][k], d[2]>> /\ d[2] \in 0 .. f[k - 1] - f[k] - 1
                          /\ Layout[c][m][d] = f[k] + d[2]
  BY <1>1
<1>4. l \in Nat /\ \A i \in 0 .. l : f[i] \in Nat
  BY AfterSteps, ParametersOf
<1>5. \A i, n \in 0 .. l : i <= n => f[n] <= f[i]
  BY AfterSteps
<1> HIDE DEF f, l
<1>6. f[j] \in Nat /\ f[k] \in Nat /\ f[j - 1] \in Nat /\ f[k - 1] \in Nat
      /\ j - 1 \in 0 .. l /\ k - 1 \in 0 .. l /\ j \in 0 .. l /\ k \in 0 .. l
  BY <1>4
<1>7. f[j] + e[2] = f[k] + d[2]
  BY <1>2, <1>3
<1>8. j = k
  <2>1. CASE j < k
    <3>1. f[k - 1] <= f[j]
      BY <1>5, <1>6, <2>1
    <3> QED BY <1>2, <1>3, <1>6, <1>7, <3>1
  <2>2. CASE k < j
    <3>1. f[j - 1] <= f[k]
      BY <1>5, <1>6, <2>2
    <3> QED BY <1>2, <1>3, <1>6, <1>7, <3>1
  <2> QED BY <2>1, <2>2
<1>9. e[2] = d[2]
  BY <1>2, <1>3, <1>6, <1>7, <1>8
<1> QED BY <1>2, <1>3, <1>8, <1>9

\* A cell is in the slice of the rank that its number says, and is there
\* at the place the number says.
LEMMA SliceOfCell ==
  ASSUME NEW numel \in Nat \ {0}, NEW n \in Nat \ {0}, NEW j \in 0 .. numel - 1
  PROVE  LET shard == ShardSize(numel, n)
         IN /\ shard \in Nat \ {0} /\ j \div shard \in 0 .. n - 1
            /\ j % shard \in 0 .. shard - 1 /\ (j \div shard) * shard + (j % shard) = j
            /\ \A d \in 0 .. n - 1 : j \in In(WorldRange(numel, n, d)) <=> d = j \div shard
            /\ NumelPadded(numel, n) \div n = shard /\ j \in 0 .. NumelPadded(numel, n) - 1
<1> DEFINE s == ShardSize(numel, n)
<1>1. s \in Nat \ {0} /\ numel <= n * s
  BY SliceIsWide
<1>2. NumelPadded(numel, n) = n * s
  BY DEF NumelPadded
<1>3. ASSUME NEW d \in 0 .. n - 1
      PROVE  j \in In(WorldRange(numel, n, d)) <=> d * s <= j /\ j < d * s + s
  <2> HIDE DEF s
  <2>1. WorldRange(numel, n, d) = Span(d * s, Min2(numel, d * s + s))
    BY DEF WorldRange, s
  <2>2. d * s \in Int
    BY <1>1
  <2>3. j \in In(WorldRange(numel, n, d)) <=> j \in d * s .. Min2(numel, d * s + s) - 1
    BY <2>1 DEF In, Span
  <2> QED BY <1>1, <2>2, <2>3 DEF Min2
<1> HIDE DEF s
<1>4. n * s \in Nat
  BY <1>1
<1>5. j \in 0 .. n * s - 1
  BY <1>1, <1>4
<1>6. /\ j \div s \in 0 .. n - 1 /\ j % s \in 0 .. s - 1
      /\ j = (j \div s) * s + (j % s)
  BY <1>1, <1>5, Digits
<1>7. ASSUME NEW d \in 0 .. n - 1
      PROVE  j \in In(WorldRange(numel, n, d)) <=> d = j \div s
  <2>1. d * s \in Int /\ (j \div s) * s \in Int
    BY <1>1, <1>6
  <2>2. CASE d = j \div s
    BY <1>1, <1>3, <1>6, <2>1, <2>2
  <2>3. CASE d * s <= j /\ j < d * s + s
    <3> DEFINE k == j - d * s
    <3>1. k \in 0 .. s - 1 /\ j = d * s + k
      BY <1>1, <2>1, <2>3
    <3> HIDE DEF k
    <3> DEFINE q == j \div s
               y == j % s
    <3>2. d \in Int /\ q \in Int /\ y \in 0 .. s - 1 /\ d * s + k = q * s + y
      BY <1>6, <3>1
    <3> HIDE DEF q, y
    <3>3. d = q
      BY <1>1, <3>1, <3>2, DigitsUnique
    <3> QED BY <1>3, <2>3, <3>3 DEF q
  <2> QED BY <1>3, <2>2, <2>3
<1>8. (n * s) \div n = s
  <2>1. n * s = s * n + 0 /\ 0 \in 0 .. n - 1 /\ s \in Int
    BY <1>1
  <2>2. (s * n + 0) \div n = s
    BY <1>1, <2>1, ExactQuotient
  <2> QED BY <2>1, <2>2
<1> QED BY <1>1, <1>2, <1>5, <1>6, <1>7, <1>8 DEF s

\* With the distributed optimizer the rank in whose slice the cell of an
\* element lies is its owner, and param_range_map says where.
LEMMA OwnerOfElement ==
  ASSUME NEW c \in Configs, c.distributed, NEW n \in c.dp_sizes, NEW m \in Positions,
         NEW e \in ElementsOf(c, m)
  PROVE  LET cell == Layout[c][m][e]
             shard == ShardSize(Numel(c, m), n)
             owner == <<cell \div shard, m>>
         IN /\ shard \in Nat \ {0} /\ cell \in Nat /\ cell \div shard \in 0 .. n - 1
            /\ cell % shard \in 0 .. shard - 1 /\ (cell \div shard) * shard + (cell % shard) = cell
            /\ \A d \in 0 .. n - 1 : e \in OwnedBy(c, n, <<d, m>>) <=> <<d, m>> = owner
            /\ RangeMap[c][n][owner][e] = [gbuf_world |-> cell, gbuf_local |-> cell % shard]
            /\ NumelPadded(Numel(c, m), n) \div n = shard
            /\ cell \in 0 .. NumelPadded(Numel(c, m), n) - 1
<1> DEFINE cell == Layout[c][m][e]
           numel == Numel(c, m)
           shard == ShardSize(numel, n)
           owner == cell \div shard
           index == Index(c, m, e[1])
<1>1. n \in Nat \ {0}
  BY ConfigsAssumption
<1>2. PICK a \in Nat, b \in 1 .. numel :
        index = Span(a, b) /\ e[2] \in 0 .. b - a - 1 /\ cell = a + e[2]
  BY ElementPlace
<1>3. numel \in Nat \ {0}
  BY ElementPlace
<1> HIDE DEF cell, index, numel
<1>4. cell \in 0 .. numel - 1 /\ b \in Nat
  BY <1>2, <1>3
<1>5. /\ shard \in Nat \ {0} /\ owner \in 0 .. n - 1
      /\ cell % shard \in 0 .. shard - 1 /\ owner * shard + (cell % shard) = cell
      /\ \A d \in 0 .. n - 1 : cell \in In(WorldRange(numel, n, d)) <=> d = owner
      /\ NumelPadded(numel, n) \div n = shard /\ cell \in 0 .. NumelPadded(numel, n) - 1
  BY <1>1, <1>3, <1>4, SliceOfCell
<1>6. ASSUME NEW d \in 0 .. n - 1
      PROVE  LET world == WorldRange(numel, n, d)
             IN /\ Owns(index, world) /\ e[2] \in In(SubParam(index, world)) <=> d = owner
                /\ GbufWorld(index, world).start + e[2] - SubParam(index, world).start = cell
                /\ LocalRange(index, world).start + e[2] - SubParam(index, world).start
                     = cell - d * shard
  <2> DEFINE first == d * shard
             last == Min2(numel, first + shard)
             world == WorldRange(numel, n, d)
  <2>1. first \in Int /\ last \in Int
    BY SMTT(60), <1>3, <1>5 DEF Min2
  <2>2. world = Span(first, last)
    BY DEF WorldRange
  <2>3. cell \in In(world) <=> d = owner
    BY <1>5
  <2> HIDE DEF first, last, world, shard, owner
  <2>4. /\ Owns(index, world) /\ e[2] \in In(SubParam(index, world)) <=> a + e[2] \in In(world)
        /\ GbufWorld(index, world).start + e[2] - SubParam(index, world).start = a + e[2]
        /\ first + LocalRange(index, world).start + e[2] - SubParam(index, world).start = a + e[2]
    BY <1>2, <1>4, <2>1, <2>2, OwnedCells, ZenonT(60)
  <2>5. LocalRange(index, world).start \in Int /\ SubParam(index, world).start \in Int
    BY <1>2, <1>4, <2>1, <2>2 DEF Span, LocalRange, SubParam, Normalize, Size, Min2, Max2
  <2>6. LocalRange(index, world).start + e[2] - SubParam(index, world).start = cell - first
    BY <1>2, <1>4, <2>1, <2>4, <2>5
  <2> QED BY <1>2, <2>3, <2>4, <2>6 DEF first, world
<1>7. ASSUME NEW d \in 0 .. n - 1
      PROVE  e \in OwnedBy(c, n, <<d, m>>) <=> d = owner
  <2>1. <<d, m>>[1] = d /\ <<d, m>>[2] = m
    OBVIOUS
  <2>2. e \in OwnedBy(c, n, <<d, m>>) <=>
          Owns(index, WorldRange(numel, n, d)) /\ e[2] \in In(SubParam(index, WorldRange(numel, n, d)))
    BY <2>1 DEF OwnedBy, index, numel
  <2> QED BY <1>6, <2>2
<1>8. <<owner, m>> \in RanksOf(n) /\ e \in OwnedBy(c, n, <<owner, m>>)
  BY <1>5, <1>7 DEF RanksOf
<1>9. RangeMap[c][n][<<owner, m>>][e] =
        [gbuf_world |-> PlaceIn(c, n, <<owner, m>>, e, GbufWorld),
         gbuf_local |-> PlaceIn(c, n, <<owner, m>>, e, LocalRange)]
  BY <1>8 DEF RangeMap
<1>10. /\ PlaceIn(c, n, <<owner, m>>, e, GbufWorld) = cell
       /\ PlaceIn(c, n, <<owner, m>>, e, LocalRange) = cell - owner * shard
  <2> DEFINE world == WorldRange(numel, n, owner)
  <2>1. <<owner, m>>[1] = owner /\ <<owner, m>>[2] = m
    OBVIOUS
  <2>2. /\ PlaceIn(c, n, <<owner, m>>, e, GbufWorld)
             = GbufWorld(index, world).start + e[2] - SubParam(index, world).start
        /\ PlaceIn(c, n, <<owner, m>>, e, LocalRange)
             = LocalRange(index, world).start + e[2] - SubParam(index, world).start
    BY <2>1 DEF PlaceIn, index, numel
  <2> QED BY <1>5, <1>6, <2>2
<1>11. cell - owner * shard = cell % shard
  <2>1. owner * shard \in Int
    BY <1>5
  <2> HIDE DEF owner, shard
  <2> QED BY <1>4, <1>5, <2>1
<1>12. \A d \in 0 .. n - 1 : e \in OwnedBy(c, n, <<d, m>>) <=> <<d, m>> = <<owner, m>>
  BY <1>7
<1>13. RangeMap[c][n][<<owner, m>>][e] = [gbuf_world |-> cell, gbuf_local |-> cell % shard]
  BY <1>9, <1>10, <1>11
<1>14. cell \in Nat
  BY <1>4
<1> HIDE DEF shard, owner
<1>15. /\ shard \in Nat \ {0} /\ cell \in Nat /\ owner \in 0 .. n - 1
       /\ cell % shard \in 0 .. shard - 1 /\ owner * shard + (cell % shard) = cell
       /\ \A d \in 0 .. n - 1 : e \in OwnedBy(c, n, <<d, m>>) <=> <<d, m>> = <<owner, m>>
       /\ RangeMap[c][n][<<owner, m>>][e] = [gbuf_world |-> cell, gbuf_local |-> cell % shard]
       /\ NumelPadded(numel, n) \div n = shard
       /\ cell \in 0 .. NumelPadded(numel, n) - 1
  BY <1>5, <1>12, <1>13, <1>14, Zenon
<1> QED BY <1>15, Zenon DEF cell, numel, shard, owner

\* The cell of an element, the slice it lies in, its place there and the
\* first cell of slice d; and what param_range_map says of it.
CellAt(c, m, e) == Layout[c][m][e]
SliceOf(c, n, m, e) == CellAt(c, m, e) \div ShardSize(Numel(c, m), n)
OffsetOf(c, n, m, e) == CellAt(c, m, e) % ShardSize(Numel(c, m), n)
SliceStart(c, n, m, d) == d * ShardSize(Numel(c, m), n)
GbufWorldAt(c, n, r, e) == RangeMap[c][n][r][e].gbuf_world
GbufLocalAt(c, n, r, e) == RangeMap[c][n][r][e].gbuf_local

\* The owner of an element, and where in its slice the element lies.
LEMMA Owner ==
  ASSUME NEW c \in Configs, c.distributed, NEW n \in c.dp_sizes, NEW m \in Positions,
         NEW e \in ElementsOf(c, m)
  PROVE  /\ ShardSize(Numel(c, m), n) \in Nat \ {0}
         /\ SliceOf(c, n, m, e) \in 0 .. n - 1
         /\ OffsetOf(c, n, m, e) \in 0 .. ShardSize(Numel(c, m), n) - 1
         /\ SliceStart(c, n, m, SliceOf(c, n, m, e)) + OffsetOf(c, n, m, e) = CellAt(c, m, e)
         /\ SliceStart(c, n, m, SliceOf(c, n, m, e)) \in Nat
         /\ \A d \in 0 .. n - 1 : e \in OwnedBy(c, n, <<d, m>>) <=> d = SliceOf(c, n, m, e)
         /\ GbufWorldAt(c, n, <<SliceOf(c, n, m, e), m>>, e) = CellAt(c, m, e)
         /\ GbufLocalAt(c, n, <<SliceOf(c, n, m, e), m>>, e) = OffsetOf(c, n, m, e)
         /\ NumelPadded(Numel(c, m), n) \div n = ShardSize(Numel(c, m), n)
         /\ CellAt(c, m, e) \in 0 .. NumelPadded(Numel(c, m), n) - 1
<1>1. LET cell == Layout[c][m][e]
          shard == ShardSize(Numel(c, m), n)
          owner == <<cell \div shard, m>>
      IN /\ shard \in Nat \ {0} /\ cell \in Nat /\ cell \div shard \in 0 .. n - 1
         /\ cell % shard \in 0 .. shard - 1 /\ (cell \div shard) * shard + (cell % shard) = cell
         /\ \A d \in 0 .. n - 1 : e \in OwnedBy(c, n, <<d, m>>) <=> <<d, m>> = owner
         /\ RangeMap[c][n][owner][e] = [gbuf_world |-> cell, gbuf_local |-> cell % shard]
         /\ NumelPadded(Numel(c, m), n) \div n = shard
         /\ cell \in 0 .. NumelPadded(Numel(c, m), n) - 1
  BY OwnerOfElement
<1>2. \A d \in 0 .. n - 1 : e \in OwnedBy(c, n, <<d, m>>) <=> <<d, m>> = <<SliceOf(c, n, m, e), m>>
  BY <1>1 DEF SliceOf, CellAt
<1>3. \A d \in 0 .. n - 1 : e \in OwnedBy(c, n, <<d, m>>) <=> d = SliceOf(c, n, m, e)
  BY <1>2
<1>4. SliceOf(c, n, m, e) * ShardSize(Numel(c, m), n) \in Nat
  <2>1. \A x, y \in Nat : x * y \in Nat
    OBVIOUS
  <2>2. SliceOf(c, n, m, e) \in Nat /\ ShardSize(Numel(c, m), n) \in Nat
    BY <1>1 DEF SliceOf, CellAt
  <2> QED BY <2>1, <2>2
<1>5. RangeMap[c][n][<<SliceOf(c, n, m, e), m>>][e] = [gbuf_world |-> CellAt(c, m, e), gbuf_local |-> OffsetOf(c, n, m, e)]
  BY <1>1 DEF SliceOf, OffsetOf, CellAt
<1>6. /\ GbufWorldAt(c, n, <<SliceOf(c, n, m, e), m>>, e) = CellAt(c, m, e)
      /\ GbufLocalAt(c, n, <<SliceOf(c, n, m, e), m>>, e) = OffsetOf(c, n, m, e)
  BY <1>5 DEF GbufWorldAt, GbufLocalAt
<1>7. /\ ShardSize(Numel(c, m), n) \in Nat \ {0}
      /\ SliceOf(c, n, m, e) \in 0 .. n - 1
      /\ OffsetOf(c, n, m, e) \in 0 .. ShardSize(Numel(c, m), n) - 1
      /\ SliceStart(c, n, m, SliceOf(c, n, m, e)) + OffsetOf(c, n, m, e) = CellAt(c, m, e)
      /\ SliceStart(c, n, m, SliceOf(c, n, m, e)) \in Nat
      /\ NumelPadded(Numel(c, m), n) \div n = ShardSize(Numel(c, m), n)
      /\ CellAt(c, m, e) \in 0 .. NumelPadded(Numel(c, m), n) - 1
  BY <1>1, <1>4 DEF SliceOf, OffsetOf, SliceStart, CellAt
<1> QED BY <1>3, <1>6, <1>7

\* Cells are of one element.
LEMMA OneElement ==
  ASSUME NEW c \in Configs, NEW m \in Positions,
         NEW e \in ElementsOf(c, m), NEW d \in ElementsOf(c, m), CellAt(c, m, e) = CellAt(c, m, d)
  PROVE  e = d
BY LayoutInjective DEF CellAt

\* Without it every rank owns all its elements.
LEMMA AllOwned ==
  ASSUME NEW c \in Configs, ~c.distributed, NEW n, NEW r
  PROVE  OwnedBy(c, n, r) = ElementsOf(c, r[2])
BY DEF OwnedBy

-----------------------------------------------------------------------------
(***************************************************************************)
(* The groups of the collectives.                                          *)
(***************************************************************************)

\* The sizes a job starts with are accepted.
LEMMA SizesOfJob ==
  ASSUME NEW c \in Configs, NEW n \in c.dp_sizes
  PROVE  LET s == Sizes(c, n)
         IN /\ s \in AcceptedSizes /\ n \in Nat \ {0} /\ DataParallelSize(s) = n /\ s.sequence = 1
            /\ IF c.shared = "embedding" THEN s.tensor = 1 /\ s.pipeline = 2
               ELSE s.tensor = 2 /\ s.pipeline = 1
<1> DEFINE s == Sizes(c, n)
<1>1. n \in Nat \ {0} /\ c.shared \in {"embedding", "layernorm"}
  BY ConfigsAssumption
<1>2. Cardinality(Positions) = 2
  <2>1. Cardinality({0, 1}) = 2
    <3>1. {0, 1} = {0} \cup {1} /\ 1 \notin {0}
      OBVIOUS
    <3>2. IsFiniteSet({0}) /\ Cardinality({0}) = 1
      BY FS_Singleton
    <3>3. Cardinality({0} \cup {1}) = Cardinality({0}) + 1
      BY <3>1, <3>2, FS_AddElement
    <3> QED BY ONLY <3>1, <3>2, <3>3
  <2> QED BY <2>1 DEF Positions
<1>3. /\ s = [world |-> n * 2, sequence |-> 1,
              tensor |-> IF c.shared = "layernorm" THEN 2 ELSE 1,
              pipeline |-> IF c.shared = "embedding" THEN 2 ELSE 1]
  BY <1>2 DEF Sizes
<1> HIDE DEF s
<1>4. IF c.shared = "embedding" THEN s.tensor = 1 /\ s.pipeline = 2
      ELSE s.tensor = 2 /\ s.pipeline = 1
  BY <1>1, <1>3
<1>5. s.tensor * s.pipeline * s.sequence = 2 /\ s.tensor * s.pipeline = 2 /\ s.world = n * 2 /\ s.sequence = 1
  BY <1>3, <1>4
<1>6. (n * 2) % 2 = 0 /\ (n * 2) \div 2 = n
  BY <1>1
<1>7. s \in AcceptedSizes
  <2>1. Accepted(s)
    BY <1>5, <1>6 DEF Accepted
  <2>2. s \in [world : Nat \ {0}, tensor : Nat \ {0}, pipeline : Nat \ {0}, sequence : {1}]
    BY <1>1, <1>3
  <2> QED BY <2>1, <2>2 DEF AcceptedSizes
<1>8. DataParallelSize(s) = n
  BY <1>5, <1>6 DEF DataParallelSize
<1> QED BY <1>1, <1>4, <1>5, <1>7, <1>8 DEF s

\* The rank at coordinates, as the model names it.
LEMMA RankAt ==
  ASSUME NEW c \in Configs, NEW n \in c.dp_sizes, NEW d \in 0 .. n - 1, NEW m \in Positions
  PROVE  LET s == Sizes(c, n)
             g == IF c.shared = "embedding" THEN Coordinate(s, m, d, 0) ELSE Coordinate(s, 0, d, m)
         IN <<DataParallelRank(s, g), IF s.pipeline > 1 THEN PipelineRank(s, g)
                                      ELSE TensorParallelRank(s, g)>> = <<d, m>>
<1> DEFINE s == Sizes(c, n)
<1>1. s \in AcceptedSizes /\ DataParallelSize(s) = n /\ m \in 0 .. 1 /\ n \in Nat \ {0}
  BY SizesOfJob DEF Positions
<1> HIDE DEF s
<1>2. CASE c.shared = "embedding"
  <2>1. s.tensor = 1 /\ s.pipeline = 2
    BY <1>2, SizesOfJob DEF s
  <2>2. m \in 0 .. s.pipeline - 1 /\ d \in 0 .. DataParallelSize(s) - 1 /\ 0 \in 0 .. s.tensor - 1
    BY <1>1, <2>1
  <2>3. /\ DataParallelRank(s, Coordinate(s, m, d, 0)) = d
        /\ PipelineRank(s, Coordinate(s, m, d, 0)) = m
    BY <1>1, <2>2, DataParallelPlace, PipelinePlace
  <2> QED BY <1>2, <2>1, <2>3 DEF s
<1>3. CASE c.shared # "embedding"
  <2>1. s.tensor = 2 /\ s.pipeline = 1
    BY <1>3, SizesOfJob DEF s
  <2>2. m \in 0 .. s.tensor - 1 /\ d \in 0 .. DataParallelSize(s) - 1 /\ 0 \in 0 .. s.pipeline - 1
    BY <1>1, <2>1
  <2>3. /\ DataParallelRank(s, Coordinate(s, 0, d, m)) = d
        /\ TensorParallelRank(s, Coordinate(s, 0, d, m)) = m
    BY <1>1, <2>2, DataParallelPlace, TensorParallelPlace
  <2> QED BY <1>3, <2>1, <2>3 DEF s
<1> QED BY <1>2, <1>3

\* The number of the rank that the model calls <<d, m>>.
RankNumber(c, n, d, m) ==
  LET s == Sizes(c, n)
  IN IF c.shared = "embedding" THEN Coordinate(s, m, d, 0) ELSE Coordinate(s, 0, d, m)

\* A group is known by the numbers of its ranks.
LEMMA GroupAt ==
  ASSUME NEW c \in Configs, NEW n \in c.dp_sizes, NEW list,
         NEW S \in SUBSET ((0 .. n - 1) \X Positions),
         Members(list) = {RankNumber(c, n, x[1], x[2]) : x \in S}
  PROVE  Group(Sizes(c, n), list) = S
<1> DEFINE s == Sizes(c, n)
           name(g) == <<DataParallelRank(s, g), IF s.pipeline > 1 THEN PipelineRank(s, g)
                                                ELSE TensorParallelRank(s, g)>>
<1>1. Group(s, list) = {name(g) : g \in Members(list)}
  BY DEF Group
<1>2. \A x \in S : name(RankNumber(c, n, x[1], x[2])) = x
  <2> SUFFICES ASSUME NEW x \in S PROVE name(RankNumber(c, n, x[1], x[2])) = x
    OBVIOUS
  <2>1. x[1] \in 0 .. n - 1 /\ x[2] \in Positions /\ x = <<x[1], x[2]>>
    OBVIOUS
  <2> QED BY <2>1, RankAt DEF RankNumber
<1> HIDE DEF name, s
<1> QED BY <1>1, <1>2 DEF s

\* A data-parallel group has the ranks of one position, ...
LEMMA DataMembers ==
  ASSUME NEW c \in Configs, NEW n \in c.dp_sizes, NEW m \in Positions
  PROVE  /\ Members(DataParallelGroups(Sizes(c, n))[m + 1]) = {RankNumber(c, n, x[1], x[2]) : x \in (0 .. n - 1) \X {m}}
         /\ \A d \in 0 .. n - 1 : DataParallelGroups(Sizes(c, n))[m + 1][d + 1] = RankNumber(c, n, d, m)
<1> DEFINE s == Sizes(c, n)
           t == s.tensor
<1>1. /\ s \in AcceptedSizes /\ DataParallelSize(s) = n /\ n \in Nat \ {0} /\ m \in {0, 1}
      /\ IF c.shared = "embedding" THEN t = 1 /\ s.pipeline = 2 ELSE t = 2 /\ s.pipeline = 1
  BY SizesOfJob DEF Positions
<1> HIDE DEF s, t
<1>2. s.pipeline * s.tensor = 2 /\ m + 1 \in 1 .. 2
  BY <1>1 DEF t
<1>3. DataParallelGroups(s) =
           [k \in 1 .. s.pipeline * s.tensor |-> [l \in 1 .. n |->
              Coordinate(s, (k - 1) \div t, l - 1, (k - 1) % t)]]
  BY <1>1, DataParallelGroupsShape DEF t
<1>4. (m + 1) - 1 = m
  BY <1>1
<1>5. DataParallelGroups(s)[m + 1] = [l \in 1 .. n |-> Coordinate(s, m \div t, l - 1, m % t)]
  BY <1>2, <1>3, <1>4
<1>6. \A d : Coordinate(s, m \div t, d, m % t) = RankNumber(c, n, d, m)
  <2>1. CASE c.shared = "embedding"
    <3>1. m \div t = m /\ m % t = 0
      BY <1>1, <2>1
    <3> QED BY <2>1, <3>1 DEF RankNumber, s
  <2>2. CASE c.shared # "embedding"
    <3>1. m \div t = 0 /\ m % t = m
      BY <1>1, <2>2
    <3> QED BY <2>2, <3>1 DEF RankNumber, s
  <2> QED BY <2>1, <2>2
<1>7. DataParallelGroups(s)[m + 1] = [l \in 1 .. n |-> RankNumber(c, n, l - 1, m)]
  BY <1>5, <1>6
<1>8. Members(DataParallelGroups(s)[m + 1]) = {RankNumber(c, n, l - 1, m) : l \in 1 .. n}
  BY <1>7 DEF Members
<1>9. {RankNumber(c, n, l - 1, m) : l \in 1 .. n} = {RankNumber(c, n, x[1], x[2]) : x \in (0 .. n - 1) \X {m}}
  <2>1. ASSUME NEW l \in 1 .. n
        PROVE  \E x \in (0 .. n - 1) \X {m} : RankNumber(c, n, l - 1, m) = RankNumber(c, n, x[1], x[2])
    <3>1. <<l - 1, m>> \in (0 .. n - 1) \X {m}
      BY <1>1
    <3> QED BY <3>1
  <2>2. ASSUME NEW x \in (0 .. n - 1) \X {m}
        PROVE  \E l \in 1 .. n : RankNumber(c, n, x[1], x[2]) = RankNumber(c, n, l - 1, m)
    <3>1. x[1] + 1 \in 1 .. n /\ (x[1] + 1) - 1 = x[1] /\ x[2] = m
      BY <1>1
    <3> QED BY <3>1
  <2> QED BY <2>1, <2>2
<1>10. ASSUME NEW d \in 0 .. n - 1
       PROVE  DataParallelGroups(s)[m + 1][d + 1] = RankNumber(c, n, d, m)
  <2>1. d + 1 \in 1 .. n /\ (d + 1) - 1 = d
    BY <1>1
  <2> QED BY <1>7, <2>1
<1> QED BY <1>8, <1>9, <1>10 DEF s

\* The ranks of a replica.
LEMMA ReplicaNumbers ==
  ASSUME NEW c, NEW n, NEW d
  PROVE  {RankNumber(c, n, x[1], x[2]) : x \in {d} \X Positions}
           = {RankNumber(c, n, d, 0), RankNumber(c, n, d, 1)}
<1>1. ASSUME NEW x \in {d} \X Positions PROVE x[1] = d /\ x[2] \in {0, 1}
  BY DEF Positions
<1>2. <<d, 0>> \in {d} \X Positions /\ <<d, 1>> \in {d} \X Positions
  BY DEF Positions
<1>3. /\ <<d, 0>>[1] = d /\ <<d, 0>>[2] = 0 /\ <<d, 1>>[1] = d /\ <<d, 1>>[2] = 1
  OBVIOUS
<1>4. ASSUME NEW x \in {d} \X Positions
      PROVE  RankNumber(c, n, x[1], x[2]) \in {RankNumber(c, n, d, 0), RankNumber(c, n, d, 1)}
  BY <1>1
<1>5. /\ RankNumber(c, n, d, 0) \in {RankNumber(c, n, x[1], x[2]) : x \in {d} \X Positions}
      /\ RankNumber(c, n, d, 1) \in {RankNumber(c, n, x[1], x[2]) : x \in {d} \X Positions}
  BY <1>2, <1>3
<1> QED BY <1>4, <1>5

\* ... and a model-parallel group those of one replica.
LEMMA ModelMembers ==
  ASSUME NEW c \in Configs, NEW n \in c.dp_sizes, NEW d \in 0 .. n - 1
  PROVE  Members(ModelParallelGroups(Sizes(c, n))[d + 1]) = {RankNumber(c, n, x[1], x[2]) : x \in {d} \X Positions}
<1> DEFINE s == Sizes(c, n)
<1>1. /\ s \in AcceptedSizes /\ DataParallelSize(s) = n /\ n \in Nat \ {0}
      /\ IF c.shared = "embedding" THEN s.tensor = 1 /\ s.pipeline = 2 ELSE s.tensor = 2 /\ s.pipeline = 1
  BY SizesOfJob
<1>2. \A m \in Positions : DataParallelGroups(s)[m + 1][d + 1] = RankNumber(c, n, d, m)
  BY DataMembers
<1> HIDE DEF s
<1>3. s.pipeline * s.tensor = 2 /\ d + 1 \in 1 .. n
  BY <1>1
<1>4. ModelParallelGroups(s) =
        [k \in 1 .. n |-> [l \in 1 .. s.pipeline * s.tensor |-> DataParallelGroups(s)[l][k]]]
  BY <1>1, ModelParallelGroupsShape
<1>5. ModelParallelGroups(s)[d + 1] = [l \in 1 .. 2 |-> DataParallelGroups(s)[l][d + 1]]
  BY <1>3, <1>4
<1>6. Members(ModelParallelGroups(s)[d + 1]) = {DataParallelGroups(s)[l][d + 1] : l \in 1 .. 2}
  BY <1>5 DEF Members
<1>7. DataParallelGroups(s)[1][d + 1] = RankNumber(c, n, d, 0) /\ DataParallelGroups(s)[2][d + 1] = RankNumber(c, n, d, 1)
  BY <1>2 DEF Positions
<1>8. {DataParallelGroups(s)[l][d + 1] : l \in 1 .. 2} = {RankNumber(c, n, d, 0), RankNumber(c, n, d, 1)}
  <2>1. 1 .. 2 = {1, 2}
    OBVIOUS
  <2> QED BY <1>7, <2>1
<1>9. {RankNumber(c, n, x[1], x[2]) : x \in {d} \X Positions} = {RankNumber(c, n, d, 0), RankNumber(c, n, d, 1)}
  BY ReplicaNumbers
<1> QED BY <1>6, <1>8, <1>9 DEF s

\* So have the groups that share a parameter.
LEMMA SharingMembers ==
  ASSUME NEW c \in Configs, NEW n \in c.dp_sizes, NEW d \in 0 .. n - 1
  PROVE  Members(IF c.shared = "embedding"
                 THEN EmbeddingRanks(PipelineGroups(Sizes(c, n))[d + 1], NoSplit)
                 ELSE TensorParallelGroups(Sizes(c, n))[d + 1])
           = {RankNumber(c, n, x[1], x[2]) : x \in {d} \X Positions}
<1> DEFINE s == Sizes(c, n)
<1>1. /\ s \in AcceptedSizes /\ DataParallelSize(s) = n /\ n \in Nat \ {0} /\ d + 1 \in 1 .. n
      /\ IF c.shared = "embedding" THEN s.tensor = 1 /\ s.pipeline = 2 ELSE s.tensor = 2 /\ s.pipeline = 1
  BY SizesOfJob
<1>2. {RankNumber(c, n, x[1], x[2]) : x \in {d} \X Positions} = {RankNumber(c, n, d, 0), RankNumber(c, n, d, 1)}
  BY ReplicaNumbers
<1> HIDE DEF s
<1>3. PerStage(s) = n * s.tensor /\ PerStage(s) \in Nat
  BY <1>1, Shape
<1>4. CASE c.shared = "embedding"
  <2> DEFINE list == PipelineGroups(s)[d + 1]
  <2>1. s.tensor = 1 /\ s.pipeline = 2 /\ PerStage(s) = n
    BY <1>1, <1>3, <1>4
  <2>2. list = [i \in 1 .. 2 |-> (d + 1) - 1 + (i - 1) * n]
    <3>1. PipelineGroups(s) = [k \in 1 .. PerStage(s) |-> [i \in 1 .. s.pipeline |-> k - 1 + (i - 1) * PerStage(s)]]
      BY <1>1, PipelineGroupsShape
    <3>2. PipelineGroups(s) = [k \in 1 .. n |-> [i \in 1 .. 2 |-> k - 1 + (i - 1) * n]]
      BY <2>1, <3>1
    <3> QED BY <1>1, <3>2
  <2>3. Len(list) = 2 /\ list[1] = d /\ list[2] = d + n
    BY <1>1, <2>2
  <2> HIDE DEF list
  <2>4. EmbeddingRanks(list, NoSplit) = <<d, d + n>>
    BY <2>3 DEF EmbeddingRanks, NoSplit
  <2>5. Members(<<d, d + n>>) = {d, d + n}
    BY DEF Members
  <2>6. RankNumber(c, n, d, 0) = d /\ RankNumber(c, n, d, 1) = d + n
    BY <1>1, <1>4, <2>1 DEF RankNumber, Coordinate, s
  <2> QED BY <1>2, <1>4, <2>4, <2>5, <2>6 DEF list, s
<1>5. CASE c.shared # "embedding"
  <2> DEFINE list == TensorParallelGroups(s)[d + 1]
  <2>1. s.tensor = 2 /\ s.pipeline = 1 /\ s.pipeline * DataParallelSize(s) = n
    BY <1>1, <1>5
  <2>2. list = [j \in 1 .. 2 |-> ((d + 1) - 1) * 2 + (j - 1)]
    <3>1. TensorParallelGroups(s) =
            [k \in 1 .. s.pipeline * DataParallelSize(s) |-> [j \in 1 .. s.tensor |-> (k - 1) * s.tensor + (j - 1)]]
      BY <1>1, TensorParallelGroupsShape
    <3>2. TensorParallelGroups(s) = [k \in 1 .. n |-> [j \in 1 .. 2 |-> (k - 1) * 2 + (j - 1)]]
      BY <2>1, <3>1
    <3> QED BY <1>1, <3>2
  <2>3. DOMAIN list = {1, 2} /\ list[1] = d * 2 /\ list[2] = d * 2 + 1
    BY <1>1, <2>2
  <2> HIDE DEF list
  <2>4. Members(list) = {d * 2, d * 2 + 1}
    BY <2>3 DEF Members
  <2>5. RankNumber(c, n, d, 0) = d * 2 /\ RankNumber(c, n, d, 1) = d * 2 + 1
    BY <1>1, <1>3, <1>5, <2>1 DEF RankNumber, Coordinate, s
  <2> QED BY <1>2, <1>5, <2>4, <2>5 DEF list, s
<1> QED BY <1>4, <1>5

\* The groups of every collective, as the model names ranks.
LEMMA GroupsAre ==
  ASSUME NEW c \in Configs, NEW n \in c.dp_sizes
  PROVE  /\ \A m \in Positions : Groups[c][n].data[m] = (0 .. n - 1) \X {m}
         /\ \A d \in 0 .. n - 1 : /\ Groups[c][n].model[d] = {d} \X Positions
                                  /\ Groups[c][n].shared[d] = {d} \X Positions
<1> DEFINE s == Sizes(c, n)
           shared(d) == IF c.shared = "embedding"
                        THEN EmbeddingRanks(PipelineGroups(s)[d + 1], NoSplit)
                        ELSE TensorParallelGroups(s)[d + 1]
<1>1. Groups[c][n] =
        [data |-> [m \in Positions |-> Group(s, DataParallelGroups(s)[m + 1])],
         model |-> [d \in 0 .. n-1 |-> Group(s, ModelParallelGroups(s)[d + 1])],
         shared |-> [d \in 0 .. n-1 |-> Group(s, shared(d))]]
  BY DEF Groups
<1>2. ASSUME NEW m \in Positions PROVE Group(s, DataParallelGroups(s)[m + 1]) = (0 .. n - 1) \X {m}
  <2>1. (0 .. n - 1) \X {m} \in SUBSET ((0 .. n - 1) \X Positions)
    OBVIOUS
  <2> QED BY <2>1, DataMembers, GroupAt, ZenonT(60)
<1>3. ASSUME NEW d \in 0 .. n - 1
      PROVE  Group(s, ModelParallelGroups(s)[d + 1]) = {d} \X Positions /\ Group(s, shared(d)) = {d} \X Positions
  <2>1. {d} \X Positions \in SUBSET ((0 .. n - 1) \X Positions)
    OBVIOUS
  <2>2. Group(s, ModelParallelGroups(s)[d + 1]) = {d} \X Positions
    BY <2>1, ModelMembers, GroupAt, ZenonT(60)
  <2>3. Members(shared(d)) = {RankNumber(c, n, x[1], x[2]) : x \in {d} \X Positions}
    BY SharingMembers
  <2> HIDE DEF shared
  <2>4. Group(s, shared(d)) = {d} \X Positions
    BY <2>1, <2>3, GroupAt
  <2> QED BY <2>2, <2>4
<1> HIDE DEF s, shared
<1> QED BY <1>1, <1>2, <1>3

-----------------------------------------------------------------------------
(***************************************************************************)
(* Sums of gradients.                                                      *)
(***************************************************************************)

\* The gradient of element `of`, of the passes of ranks `from`.
GradOf(of, from, divided, scale, inf) ==
  [kind |-> "grad", of |-> of, from |-> from, divided |-> divided, scale |-> scale, inf |-> inf]

\* Cells that hold gradients of one element, divided and scaled alike, of
\* different ranks.
Summands(cells, S, of, divided, scale) ==
  /\ \A x \in S : /\ cells[x] = GradOf(of, cells[x].from, divided, scale, cells[x].inf)
                  /\ cells[x].inf \in BOOLEAN
  /\ \A x, y \in S : x # y => cells[x].from \cap cells[y].from = {}

\* What their sum is to be.
Total(cells, S, of, divided, scale) ==
  IF S = {} THEN Zero
  ELSE GradOf(of, UNION {cells[x].from : x \in S}, divided, scale, \E x \in S : cells[x].inf)

\* Either is infinite.
Or(i, j) == i \/ j

\* Two of them add up.
LEMMA AddGrads ==
  ASSUME NEW of, NEW divided, NEW scale, NEW a, NEW b, NEW i, NEW j,
         a \cap b = {}
  PROVE  Add(GradOf(of, a, divided, scale, i), GradOf(of, b, divided, scale, j))
           = GradOf(of, a \cup b, divided, scale, Or(i, j))
<1> DEFINE x == GradOf(of, a, divided, scale, i)
           y == GradOf(of, b, divided, scale, j)
<1>1. /\ x.kind = "grad" /\ x.of = of /\ x.from = a /\ x.divided = divided /\ x.scale = scale /\ x.inf = i
      /\ y.kind = "grad" /\ y.of = of /\ y.from = b /\ y.divided = divided /\ y.scale = scale /\ y.inf = j
  BY DEF GradOf
<1>2. x # Zero /\ y # Zero
  <2>1. Zero.kind = "zero"
    BY DEF Zero
  <2> QED BY ONLY <1>1, <2>1
<1>3. Add(x, y) = [kind |-> "grad", of |-> x.of, from |-> x.from \cup y.from,
                   divided |-> x.divided, scale |-> x.scale, inf |-> Or(x.inf, y.inf)]
  <2> HIDE DEF x, y
  <2> QED BY <1>1, <1>2 DEF Add, Or
<1>4. @ = [kind |-> "grad", of |-> of, from |-> a \cup b, divided |-> divided, scale |-> scale, inf |-> Or(i, j)]
  <2> HIDE DEF x, y
  <2> QED BY <1>1
<1> QED BY ONLY <1>3, <1>4 DEF x, y, GradOf

\* One more of them.
LEMMA OneMoreGrad ==
  ASSUME NEW S, NEW cells, NEW of, NEW divided, NEW scale, Summands(cells, S, of, divided, scale),
         NEW T \in SUBSET S, NEW x \in T
  PROVE  Total(cells, T, of, divided, scale) = Add(cells[x], Total(cells, T \ {x}, of, divided, scale))
<1> DEFINE rest == T \ {x}
           f == UNION {cells[y].from : y \in rest}
           i == \E y \in rest : cells[y].inf
<1>1. cells[x] = GradOf(of, cells[x].from, divided, scale, cells[x].inf) /\ cells[x].inf \in BOOLEAN
  BY DEF Summands
<1>2. cells[x] # Zero
  <2>1. cells[x].kind = "grad"
    BY <1>1 DEF GradOf
  <2>2. Zero.kind = "zero"
    BY DEF Zero
  <2> QED BY <2>1, <2>2
<1>3. CASE rest = {}
  <2>1. T = {x}
    BY <1>3
  <2>2. UNION {cells[y].from : y \in T} = cells[x].from /\ ((\E y \in T : cells[y].inf) <=> cells[x].inf)
    BY <2>1
  <2>3. Total(cells, T, of, divided, scale) = GradOf(of, cells[x].from, divided, scale, cells[x].inf)
    <3>1. (\E y \in T : cells[y].inf) = cells[x].inf
      BY <1>1, <2>2
    <3> QED BY <2>1, <2>2, <3>1 DEF Total
  <2>4. Total(cells, rest, of, divided, scale) = Zero
    BY <1>3 DEF Total
  <2> QED BY <1>1, <1>2, <2>3, <2>4 DEF Add
<1>4. CASE rest # {}
  <2>1. Total(cells, rest, of, divided, scale) = GradOf(of, f, divided, scale, i)
    BY <1>4 DEF Total
  <2>2. GradOf(of, f, divided, scale, i) # Zero
    <3>1. GradOf(of, f, divided, scale, i).kind = "grad" /\ Zero.kind = "zero"
      BY DEF GradOf, Zero
    <3> QED BY <3>1
  <2>3. cells[x].from \cap f = {}
    <3>1. \A y \in rest : cells[x].from \cap cells[y].from = {}
      BY DEF Summands
    <3> QED BY <3>1
  <2>4. UNION {cells[y].from : y \in T} = cells[x].from \cup f
    BY DEF rest
  <2>5. (\E y \in T : cells[y].inf) = (cells[x].inf \/ i)
    BY <1>1
  <2>6. Total(cells, T, of, divided, scale) = GradOf(of, cells[x].from \cup f, divided, scale, cells[x].inf \/ i)
    BY <2>4, <2>5 DEF Total
  <2> HIDE DEF f, i
  <2>7. i \in BOOLEAN
    BY DEF i
  <2>8. Add(cells[x], GradOf(of, f, divided, scale, i))
          = GradOf(of, cells[x].from \cup f, divided, scale, cells[x].inf \/ i)
    <3> HIDE DEF f, i
    <3> DEFINE from == cells[x].from
               inf == cells[x].inf
    <3>1. cells[x] = GradOf(of, from, divided, scale, inf) /\ inf \in BOOLEAN /\ from \cap f = {}
      BY <1>1, <2>3
    <3> HIDE DEF from, inf
    <3>2. Add(GradOf(of, from, divided, scale, inf), GradOf(of, f, divided, scale, i))
            = GradOf(of, from \cup f, divided, scale, Or(inf, i))
      BY <3>1, AddGrads
    <3> QED BY <3>1, <3>2 DEF from, inf, Or
  <2> QED BY <2>1, <2>6, <2>8
<1> QED BY <1>3, <1>4

\* The recursion of Sum.
IsSum(iter, cells) ==
  iter = [s \in SUBSET DOMAIN cells |->
            IF s = {} THEN Zero
            ELSE Add(cells[CHOOSE t \in s : TRUE], iter[s \ {CHOOSE t \in s : TRUE}])]

\* Sum is computed by that recursion.
LEMMA SumUnfolded ==
  ASSUME NEW cells, NEW f, IsSum(f, cells)
  PROVE  \E iter : IsSum(iter, cells) /\ Sum(cells) = iter[DOMAIN cells]
<1> DEFINE iter == CHOOSE iter : IsSum(iter, cells)
<1>1. IsSum(iter, cells)
  OBVIOUS
<1>2. Sum(cells) = iter[DOMAIN cells]
  BY DEF Sum, MapThenFoldSet, IsSum
<1> HIDE DEF iter
<1> QED BY <1>1, <1>2

\* The sum of gradients is the gradient of all the ranks they are from.
LEMMA SumOfGrads ==
  ASSUME NEW cells, IsFiniteSet(DOMAIN cells), NEW of, NEW divided, NEW scale,
         Summands(cells, DOMAIN cells, of, divided, scale)
  PROVE  Sum(cells) = Total(cells, DOMAIN cells, of, divided, scale)
<1> DEFINE S == DOMAIN cells
           H(T) == Total(cells, T, of, divided, scale)
           h == [T \in SUBSET S |-> H(T)]
<1>1. ASSUME NEW T \in SUBSET S, T # {}, NEW x \in T
      PROVE  H(T) = Add(cells[x], H(T \ {x}))
  BY OneMoreGrad
<1>2. H({}) = Zero
  BY DEF Total
<1> HIDE DEF H
<1>3. IsSum(h, cells)
  <2>1. ASSUME NEW s \in SUBSET S
        PROVE  H(s) = IF s = {} THEN Zero
                      ELSE Add(cells[CHOOSE t \in s : TRUE], h[s \ {CHOOSE t \in s : TRUE}])
    <3>1. CASE s = {}
      BY <1>2, <3>1
    <3>2. CASE s # {}
      <4> DEFINE x == CHOOSE t \in s : TRUE
      <4>1. x \in s
        BY <3>2
      <4> HIDE DEF x
      <4>2. s \ {x} \in SUBSET S
        OBVIOUS
      <4>3. h[s \ {x}] = H(s \ {x})
        BY <4>2
      <4>4. H(s) = Add(cells[x], h[s \ {x}])
        BY <1>1, <3>2, <4>1, <4>3
      <4> QED BY <3>2, <4>4 DEF x
    <3> QED BY <3>1, <3>2
  <2>2. h = [s \in SUBSET S |-> IF s = {} THEN Zero
                                ELSE Add(cells[CHOOSE t \in s : TRUE], h[s \ {CHOOSE t \in s : TRUE}])]
    BY <2>1
  <2> QED BY <2>2 DEF IsSum
<1>4. PICK iter : IsSum(iter, cells) /\ Sum(cells) = iter[DOMAIN cells]
  BY <1>3, SumUnfolded
<1>5. ASSUME NEW s \in SUBSET S
      PROVE  iter[s] = IF s = {} THEN Zero
                       ELSE Add(cells[CHOOSE t \in s : TRUE], iter[s \ {CHOOSE t \in s : TRUE}])
  BY <1>4 DEF IsSum
<1> DEFINE N == {n \in Nat : \A T \in SUBSET S : Cardinality(T) = n => iter[T] = H(T)}
<1>6. \A T \in SUBSET S : IsFiniteSet(T) /\ Cardinality(T) \in Nat
  BY FS_Subset, FS_CardinalityType
<1>7. 0 \in N
  <2>1. \A T \in SUBSET S : Cardinality(T) = 0 => T = {}
    BY <1>6, FS_EmptySet
  <2> QED BY <1>2, <1>5, <2>1
<1>8. ASSUME NEW n \in N PROVE n + 1 \in N
  <2>1. n \in Nat /\ \A T \in SUBSET S : Cardinality(T) = n => iter[T] = H(T)
    OBVIOUS
  <2>2. ASSUME NEW T \in SUBSET S, Cardinality(T) = n + 1 PROVE iter[T] = H(T)
    <3>1. T # {}
      <4>1. Cardinality({}) = 0 /\ n + 1 # 0
        BY <2>1, FS_EmptySet
      <4> QED BY <2>2, <4>1
    <3> DEFINE x == CHOOSE t \in T : TRUE
    <3>2. x \in T
      BY <3>1
    <3>3. iter[T] = Add(cells[x], iter[T \ {x}])
      BY <1>5, <3>1
    <3> HIDE DEF x
    <3>4. Cardinality(T \ {x}) = n /\ T \ {x} \in SUBSET S
      <4>1. Cardinality(T \ {x}) = Cardinality(T) - 1
        BY <1>6, <3>2, FS_RemoveElement
      <4> QED BY <2>1, <2>2, <4>1
    <3>5. iter[T \ {x}] = H(T \ {x})
      BY <2>1, <3>4
    <3> QED BY <1>1, <3>1, <3>2, <3>3, <3>5
  <2> QED BY <2>1, <2>2
<1>9. N = Nat
  <2>1. N \in SUBSET Nat
    OBVIOUS
  <2> HIDE DEF N
  <2> QED BY <1>7, <1>8, <2>1, SetInduction
<1>10. iter[S] = H(S)
  <2>1. S \in SUBSET S /\ Cardinality(S) \in N
    BY <1>6, <1>9
  <2> QED BY <2>1
<1> QED BY <1>4, <1>10 DEF H

-----------------------------------------------------------------------------
(***************************************************************************)
(* The inductive invariant of the optimizers.  Its witness g says of every *)
(* step of the job whether it is applied; what a rank holds is a function  *)
(* of g, of the steps the rank has finished and of the phase of the next   *)
(* one it is in.  The predicates are of values, not of the state: what a   *)
(* step leaves alone on a rank stays right.                                *)
(***************************************************************************)

\* The phases of a step are numbered in the order a rank goes through them.
SharedFirst(c) == c.distributed \/ c.shared = "layernorm"
First(c) == IF SharedFirst(c) THEN c.shared ELSE "allreduce"
Second(c) == IF c.distributed THEN "scatter" ELSE IF SharedFirst(c) THEN "allreduce" ELSE c.shared
Phases(c) == {"train", First(c), Second(c), "unscale", "found_inf", "clip"}
               \cup (IF c.distributed THEN {"gather"} ELSE {})
Number(c, p) ==
  IF p = "train" THEN 0 ELSE IF p = First(c) THEN 1 ELSE IF p = Second(c) THEN 2
  ELSE IF p = "unscale" THEN 3 ELSE IF p = "found_inf" THEN 4 ELSE IF p = "clip" THEN 5 ELSE 6

\* How often a rank in phase p, that has finished the steps of h, has been
\* through phase i.
Passes(c, p, h, i) == Len(h) + (IF Number(c, p) > i THEN 1 ELSE 0)

\* The collective of phase i has both ranks in its group.
Meet(c, i, r, q) ==
  \/ i = 1 /\ (IF SharedFirst(c) THEN r[1] = q[1] ELSE r[2] = q[2])
  \/ i = 2 /\ (IF SharedFirst(c) THEN r[2] = q[2] ELSE r[1] = q[1])
  \/ i \in {4, 5} /\ (c.distributed \/ r[1] = q[1])
  \/ i = 6 /\ c.distributed /\ r[2] = q[2]

\* Ranks of a group have been through its collective equally often.
InStep(c, n, phase, history) ==
  \A r, q \in RanksOf(n) : \A i \in 1 .. 6 :
    Meet(c, i, r, q) => Passes(c, phase[r], history[r], i) = Passes(c, phase[q], history[q], i)

Hist(g, k) == [i \in 1 .. k |-> g[i]]
AppliedIn(g, k) == Cardinality({i \in 1 .. k : g[i]})

\* The ranks whose gradients of e have come to rank r in phase i.
Holders(c, e) == {m \in Positions : e \in ElementsOf(c, m)}
From(c, n, r, e, i) ==
  IF i = 1 THEN {r}
  ELSE IF i = 2 THEN IF SharedFirst(c) THEN {r[1]} \X Holders(c, e) ELSE (0 .. n-1) \X {r[2]}
  ELSE (0 .. n-1) \X Holders(c, e)

\* The rank that may overflow has, in step k.
Overflower(c) == <<c.overflow.dp, c.overflow.position>>
Infinite(c, g, k, e, from) ==
  ~g[k] /\ Overflower(c) \in from /\ e[1] = c.overflow.name

\* The gradient of e on rank r in phase i of step k, and at its end.
Piece(c, n, g, k, r, e, i) ==
  GradOf(e, From(c, n, r, e, i), IF i = 3 \/ (i = 2 /\ ~SharedFirst(c)) THEN 1 ELSE 0,
         Expected(c, Hist(g, k - 1)).scale, Infinite(c, g, k, e, From(c, n, r, e, i)))
MainGrad(c, n, g, k, e) ==
  GradOf(e, From(c, n, <<0, 0>>, e, 3), 1, 0, Infinite(c, g, k, e, From(c, n, <<0, 0>>, e, 3)))

\* What rank r holds: gradients, ...
BufferOK(c, n, g, r, p, buf, main, h) ==
  /\ DOMAIN buf = 0 .. NumelPadded(Numel(c, r[2]), n) - 1
  /\ Number(c, p) \in 1 .. 3 =>
       \A e \in ElementsOf(c, r[2]) :
         (Number(c, p) = 3 => e \in OwnedBy(c, n, r))
         => buf[CellAt(c, r[2], e)] = Piece(c, n, g, Len(h) + 1, r, e, Number(c, p))
  /\ Number(c, p) = 6 => \A e \in OwnedBy(c, n, r) : buf[CellAt(c, r[2], e)] = main[e]
GradsOK(c, n, g, r, p, grads, h) ==
  Number(c, p) \in {4, 5} => grads = [e \in OwnedBy(c, n, r) |-> MainGrad(c, n, g, Len(h) + 1, e)]

\* ... parameters, ...
ParamsOK(c, g, m, par, k) == par = [e \in ElementsOf(c, m) |-> Value(e, AppliedIn(g, k))]
MainOK(c, n, g, r, p, main, h) ==
  main = [e \in OwnedBy(c, n, r) |->
            Value(e, AppliedIn(g, Len(h)) + (IF Number(c, p) = 6 THEN 1 ELSE 0))]

\* ... and the steps so far; a step is clipped when it is applied, and one
\* that is not finished is skipped only if a gradient may overflow.
Effective(c, n) ==
  Overflower(c) \in RanksOf(n) /\ c.overflow.name \in Names(c, c.overflow.position)
HistoryOK(c, n, g, p, h) ==
  /\ p \in Phases(c)
  /\ Len(h) \in 0 .. MaxSteps /\ h = Hist(g, Len(h))
  /\ Number(c, p) > 0 => Len(h) < MaxSteps
  /\ Number(c, p) > 4 => g[Len(h) + 1]
  /\ \A k \in Len(h) + 1 .. MaxSteps : g[k] \/ Effective(c, n)

RankOK(c, n, g, r, p, buf, par, main, grads, h) ==
  /\ HistoryOK(c, n, g, p, h)
  /\ BufferOK(c, n, g, r, p, buf, main, h)
  /\ GradsOK(c, n, g, r, p, grads, h)
  /\ ParamsOK(c, g, r[2], par, Len(h))
  /\ MainOK(c, n, g, r, p, main, h)

\* The checkpoint, of a step all ranks have finished.
DiskOK(c, g, d) ==
  /\ Len(d.results) \in 0 .. MaxSteps /\ d.results = Hist(g, Len(d.results))
  /\ d # NoCheckpoint =>
       \A m \in Positions :
         /\ ParamsOK(c, g, m, d.params[m], Len(d.results))
         /\ IF c.distributed
            THEN \A e \in ElementsOf(c, m) :
                   d.main[m][CellAt(c, m, e)] = Value(e, AppliedIn(g, Len(d.results)))
            ELSE ParamsOK(c, g, m, d.main[m], Len(d.results))

Explained(g) ==
  /\ config \in Configs /\ dp \in config.dp_sizes /\ restarts \in 0 .. MaxRestarts
  /\ DOMAIN pc = Ranks /\ DOMAIN buffer = Ranks /\ DOMAIN params = Ranks
  /\ DOMAIN main_params = Ranks /\ DOMAIN main_grads = Ranks /\ DOMAIN scaler = Ranks
  /\ DOMAIN results = Ranks
  /\ \A r \in Ranks : RankOK(config, dp, g, r, pc[r], buffer[r], params[r], main_params[r],
                             main_grads[r], results[r])
  /\ InStep(config, dp, pc, results)
  /\ DiskOK(config, g, disk)
  /\ \A r \in Ranks : Len(disk.results) <= Len(results[r])

SyncInv == \E g \in [1 .. MaxSteps -> BOOLEAN] : Explained(g)

-----------------------------------------------------------------------------
(***************************************************************************)
(* Facts about the terms of the invariant.                                 *)
(***************************************************************************)

\* The types of a job.
LEMMA Job ==
  ASSUME NEW c \in Configs, NEW n \in c.dp_sizes
  PROVE  /\ n \in Nat \ {0} /\ c.distributed \in BOOLEAN /\ c.dynamic \in BOOLEAN
         /\ c.shared \in {"embedding", "layernorm"}
BY ConfigsAssumption

\* The numbers of the phases.
LEMMA PhasesAre ==
  ASSUME NEW c \in Configs
  PROVE  /\ Number(c, "train") = 0 /\ Number(c, First(c)) = 1 /\ Number(c, Second(c)) = 2
         /\ Number(c, "unscale") = 3 /\ Number(c, "found_inf") = 4 /\ Number(c, "clip") = 5
         /\ Number(c, "gather") = 6
         /\ First(c) \in {"layernorm", "embedding", "allreduce"}
         /\ Second(c) \in {"embedding", "allreduce", "scatter"}
<1>1. c.shared \in {"embedding", "layernorm"} /\ c.distributed \in BOOLEAN
  BY ConfigsAssumption
<1>2. First(c) \in {"layernorm", "embedding", "allreduce"}
      /\ Second(c) \in {"embedding", "allreduce", "scatter"} /\ First(c) # Second(c)
  BY <1>1 DEF First, Second, SharedFirst
<1>3. /\ First(c) \notin {"train", "unscale", "found_inf", "clip", "gather"}
      /\ Second(c) \notin {"train", "unscale", "found_inf", "clip", "gather"}
  BY <1>2
<1> QED BY <1>2, <1>3 DEF Number

\* A phase is known by its number.
LEMMA PhaseOfNumber ==
  ASSUME NEW c \in Configs, NEW p \in Phases(c)
  PROVE  /\ Number(c, p) \in 0 .. 6
         /\ Number(c, p) = 0 <=> p = "train"
         /\ Number(c, p) = 1 <=> p = First(c)
         /\ Number(c, p) = 2 <=> p = Second(c)
         /\ Number(c, p) = 3 <=> p = "unscale"
         /\ Number(c, p) = 4 <=> p = "found_inf"
         /\ Number(c, p) = 5 <=> p = "clip"
         /\ Number(c, p) = 6 <=> p = "gather"
         /\ Number(c, p) = 6 => c.distributed
<1>1. p \in {"train", First(c), Second(c), "unscale", "found_inf", "clip", "gather"}
      /\ (p = "gather" => c.distributed)
  <2>1. "gather" \notin {"train", First(c), Second(c), "unscale", "found_inf", "clip"}
    BY PhasesAre
  <2> QED BY <2>1 DEF Phases
<1> QED BY <1>1, PhasesAre

\* What the state functions of the module are.
LEMMA Terms ==
  ASSUME config \in Configs, dp \in config.dp_sizes
  PROVE  /\ Ranks = RanksOf(dp)
         /\ \A m \in Positions : /\ Elements(m) = ElementsOf(config, m)
                                 /\ Cells(m) = 0 .. NumelPadded(Numel(config, m), dp) - 1
                                 /\ DataParallel(m) = (0 .. dp-1) \X {m}
         /\ \A m \in Positions : \A e \in ElementsOf(config, m) : CellOf(m, e) = CellAt(config, m, e)
         /\ \A r \in Ranks : Owned(r) = OwnedBy(config, dp, r)
         /\ \A d \in 0 .. dp-1 : Replica(d) = {d} \X Positions /\ Sharing(d) = {d} \X Positions
         /\ \A m : Reductions(m) = <<First(config), Second(config)>>
<1>1. Ranks = RanksOf(dp)
  BY DEF Ranks
<1>2. ASSUME NEW m \in Positions
      PROVE  /\ Elements(m) = ElementsOf(config, m)
             /\ Cells(m) = 0 .. NumelPadded(Numel(config, m), dp) - 1
             /\ DataParallel(m) = (0 .. dp-1) \X {m}
  BY GroupsAre DEF Elements, Layout, Cells, CellsOf, DataParallel
<1>3. \A m \in Positions : \A e \in ElementsOf(config, m) : CellOf(m, e) = CellAt(config, m, e)
  BY DEF CellOf, CellAt
<1>4. \A r \in Ranks : Owned(r) = OwnedBy(config, dp, r)
  BY <1>1 DEF Owned, RangeMap
<1>5. \A d \in 0 .. dp-1 : Replica(d) = {d} \X Positions /\ Sharing(d) = {d} \X Positions
  BY GroupsAre DEF Replica, Sharing
<1>6. \A m : Reductions(m) = <<First(config), Second(config)>>
  <2>1. config.shared \in {"embedding", "layernorm"} /\ config.distributed \in BOOLEAN
    BY ConfigsAssumption
  <2> QED BY <2>1 DEF Reductions, First, Second, SharedFirst
<1> QED BY <1>1, <1>2, <1>3, <1>4, <1>5, <1>6

\* Every element lies in the padded buffer.
LEMMA CellInBuffer ==
  ASSUME NEW c \in Configs, NEW n \in c.dp_sizes, NEW m \in Positions, NEW e \in ElementsOf(c, m)
  PROVE  CellAt(c, m, e) \in 0 .. NumelPadded(Numel(c, m), n) - 1
<1>1. /\ Numel(c, m) \in Nat \ {0}
      /\ \E a \in Nat, b \in 1 .. Numel(c, m) :
           /\ Index(c, m, e[1]) = Span(a, b) /\ e[2] \in 0 .. b - a - 1
           /\ Layout[c][m][e] = a + e[2]
  BY ElementPlace
<1>2. CellAt(c, m, e) \in 0 .. Numel(c, m) - 1
  BY <1>1 DEF CellAt
<1>3. n \in Nat \ {0}
  BY Job
<1> QED BY <1>1, <1>2, <1>3, SliceOfCell

\* Where the optimizer of a rank puts what it owns.
LEMMA OwnedIs ==
  ASSUME NEW c \in Configs, NEW n \in c.dp_sizes, NEW r \in RanksOf(n), NEW e \in OwnedBy(c, n, r)
  PROVE  /\ e \in ElementsOf(c, r[2]) /\ r[2] \in Positions /\ r[1] \in 0 .. n-1 /\ r = <<r[1], r[2]>>
         /\ GbufWorldAt(c, n, r, e) = CellAt(c, r[2], e)
         /\ c.distributed =>
              /\ r[1] = SliceOf(c, n, r[2], e)
              /\ SliceStart(c, n, r[2], r[1]) + GbufLocalAt(c, n, r, e) = CellAt(c, r[2], e)
<1>1. e \in ElementsOf(c, r[2]) /\ r[2] \in Positions /\ r[1] \in 0 .. n-1 /\ r = <<r[1], r[2]>>
  BY DEF OwnedBy, RanksOf
<1>2. CASE ~c.distributed
  <2>1. RangeMap[c][n][r][e] = [gbuf_world |-> CellAt(c, r[2], e), gbuf_local |-> 0]
    BY <1>2 DEF RangeMap, CellAt
  <2> QED BY <1>1, <1>2, <2>1 DEF GbufWorldAt
<1>3. CASE c.distributed
  <2> DEFINE m == r[2]
             d == SliceOf(c, n, m, e)
  <2>2. /\ d \in 0 .. n-1 /\ \A x \in 0 .. n-1 : e \in OwnedBy(c, n, <<x, m>>) <=> x = d
        /\ SliceStart(c, n, m, d) + OffsetOf(c, n, m, e) = CellAt(c, m, e)
        /\ GbufWorldAt(c, n, <<d, m>>, e) = CellAt(c, m, e)
        /\ GbufLocalAt(c, n, <<d, m>>, e) = OffsetOf(c, n, m, e)
    BY <1>1, <1>3, Owner
  <2> HIDE DEF d, m
  <2>3. r[1] = d /\ r = <<d, m>>
    BY <1>1, <2>2 DEF m
  <2> QED BY <1>1, <2>2, <2>3 DEF d, m
<1> QED BY <1>2, <1>3

\* Histories.
LEMMA HistIs ==
  ASSUME NEW g \in [1 .. MaxSteps -> BOOLEAN], NEW k \in 0 .. MaxSteps
  PROVE  /\ Hist(g, k) \in Seq(BOOLEAN) /\ Len(Hist(g, k)) = k
         /\ AppliedIn(g, k) \in 0 .. k
         /\ k < MaxSteps => /\ Append(Hist(g, k), g[k + 1]) = Hist(g, k + 1)
                            /\ AppliedIn(g, k + 1) = AppliedIn(g, k) + (IF g[k + 1] THEN 1 ELSE 0)
<1>1. MaxSteps \in Nat /\ k \in Nat /\ \A i \in 1 .. k : g[i] \in BOOLEAN
  BY BoundsAssumption
<1>2. Hist(g, k) \in [1 .. k -> BOOLEAN]
  BY <1>1 DEF Hist
<1>3. Hist(g, k) \in Seq(BOOLEAN) /\ Len(Hist(g, k)) = k
  BY <1>1, <1>2
<1> DEFINE S(l) == {i \in 1 .. l : g[i]}
<1>4. \A l \in Nat : IsFiniteSet(S(l)) /\ Cardinality(S(l)) \in 0 .. l
  <2> TAKE l \in Nat
  <2>1. IsFiniteSet(1 .. l) /\ Cardinality(1 .. l) = l
    BY FS_Interval
  <2>2. S(l) \in SUBSET (1 .. l)
    OBVIOUS
  <2> HIDE DEF S
  <2>3. IsFiniteSet(S(l)) /\ Cardinality(S(l)) <= l
    BY <2>1, <2>2, FS_Subset
  <2> QED BY <2>3, FS_CardinalityType
<1>5. ASSUME k < MaxSteps
      PROVE  Append(Hist(g, k), g[k + 1]) = Hist(g, k + 1)
  <2>1. Append(Hist(g, k), g[k + 1]) \in Seq(BOOLEAN)
        /\ Len(Append(Hist(g, k), g[k + 1])) = k + 1
    BY <1>1, <1>3, <1>5
  <2>2. ASSUME NEW i \in 1 .. k + 1 PROVE Append(Hist(g, k), g[k + 1])[i] = Hist(g, k + 1)[i]
    BY <1>1, <1>3 DEF Hist
  <2>3. Hist(g, k + 1) \in Seq(BOOLEAN) /\ Len(Hist(g, k + 1)) = k + 1
    <3>1. Hist(g, k + 1) \in [1 .. k + 1 -> BOOLEAN]
      BY <1>1, <1>5 DEF Hist
    <3> QED BY <1>1, <3>1
  <2> QED BY <2>1, <2>2, <2>3, SeqEqual
<1>6. ASSUME k < MaxSteps
      PROVE  AppliedIn(g, k + 1) = AppliedIn(g, k) + (IF g[k + 1] THEN 1 ELSE 0)
  <2>1. CASE g[k + 1]
    <3>1. S(k + 1) = S(k) \cup {k + 1} /\ k + 1 \notin S(k)
      BY <1>1, <2>1
    <3> HIDE DEF S
    <3>2. Cardinality(S(k + 1)) = Cardinality(S(k)) + 1
      BY <1>1, <1>4, <3>1, FS_AddElement
    <3> QED BY <2>1, <3>2 DEF S, AppliedIn
  <2>2. CASE ~g[k + 1]
    <3>1. S(k + 1) = S(k)
      BY <1>1, <2>2
    <3>2. Cardinality(S(k)) \in Nat
      BY <1>1, <1>4
    <3> QED BY SMTT(60), <2>2, <3>1, <3>2 DEF AppliedIn
  <2> QED BY <2>1, <2>2
<1> QED BY <1>1, <1>3, <1>4, <1>5, <1>6 DEF AppliedIn

-----------------------------------------------------------------------------
\* A group goes through the collectives of phases first to last: all ranks
\* they have in common with another rank are in it.
Leaving(c, n, phase, history, phase2, history2, G, i, last) ==
  /\ G \in SUBSET RanksOf(n) /\ i \in 0 .. 6 /\ last \in {i, 6}
  /\ InStep(c, n, phase, history)
  /\ \A r \in RanksOf(n) : Len(history[r]) \in Nat
  /\ \A r \in RanksOf(n) \ G : phase2[r] = phase[r] /\ history2[r] = history[r]
  /\ \A r \in G : Number(c, phase[r]) = i
  /\ \/ last = i /\ \A r \in G : Number(c, phase2[r]) = i + 1 /\ history2[r] = history[r]
     \/ last = 6 /\ \A r \in G : /\ Number(c, phase2[r]) = 0
                                 /\ Len(history2[r]) = Len(history[r]) + 1
  /\ \A j \in 1 .. 6 : i <= j /\ j <= last =>
       \A r \in G, q \in RanksOf(n) : Meet(c, j, r, q) => q \in G

\* Ranks stay in step when all ranks of a group leave a collective.
LEMMA InStepKept ==
  ASSUME NEW c, NEW n, NEW phase, NEW history, NEW phase2, NEW history2, NEW G, NEW i, NEW last,
         Leaving(c, n, phase, history, phase2, history2, G, i, last)
  PROVE  InStep(c, n, phase2, history2)
<1> USE DEF Leaving
<1> DEFINE P(r, j) == Passes(c, phase[r], history[r], j)
           Q(r, j) == Passes(c, phase2[r], history2[r], j)
<1>1. ASSUME NEW r \in RanksOf(n), r \notin G, NEW j \in 1 .. 6 PROVE Q(r, j) = P(r, j)
  BY <1>1
<1>2. ASSUME NEW r \in G, NEW j \in 1 .. 6
      PROVE  Q(r, j) = P(r, j) + (IF i <= j /\ j <= last THEN 1 ELSE 0)
  <2>1. PICK l \in Nat : l = Len(history[r])
    OBVIOUS
  <2>2. P(r, j) = IF i > j THEN l + 1 ELSE l
    <3>1. Number(c, phase[r]) = i
      OBVIOUS
    <3>2. P(r, j) = l + (IF i > j THEN 1 ELSE 0)
      BY <2>1, <3>1 DEF Passes
    <3> QED BY ONLY <3>2, l \in Nat
  <2>3. i \in Int /\ j \in Int /\ 1 <= j /\ j <= 6
    OBVIOUS
  <2>4. CASE last = i /\ Number(c, phase2[r]) = i + 1 /\ history2[r] = history[r]
    <3>1. Q(r, j) = l + (IF i + 1 > j THEN 1 ELSE 0)
      BY <2>1, <2>4 DEF Passes
    <3> HIDE DEF P, Q
    <3> QED BY ONLY <2>2, <2>3, <2>4, <3>1, l \in Nat
  <2>5. CASE last = 6 /\ Number(c, phase2[r]) = 0 /\ Len(history2[r]) = Len(history[r]) + 1
    <3>1. Number(c, phase2[r]) = 0 /\ Len(history2[r]) = l + 1 /\ ~(0 > j)
      BY <2>1, <2>3, <2>5
    <3>2. Q(r, j) = (l + 1) + (IF 0 > j THEN 1 ELSE 0)
      BY <3>1 DEF Passes
    <3> HIDE DEF P, Q
    <3> QED BY ONLY <2>2, <2>3, <2>5, <3>1, <3>2, l \in Nat
  <2> QED BY <2>4, <2>5
<1>3. \A j \in 1 .. 6 : \A r, q : Meet(c, j, r, q) => Meet(c, j, q, r)
  BY DEF Meet
<1>4. \A r, q \in RanksOf(n), j \in 1 .. 6 : Meet(c, j, r, q) => P(r, j) = P(q, j)
  BY DEF InStep
<1> HIDE DEF P, Q
<1>5. ASSUME NEW r \in RanksOf(n), NEW q \in RanksOf(n), NEW j \in 1 .. 6, Meet(c, j, r, q)
      PROVE  Q(r, j) = Q(q, j)
  <2>1. P(r, j) = P(q, j) /\ Meet(c, j, q, r)
    BY <1>3, <1>4, <1>5
  <2>2. CASE i <= j /\ j <= last
    <3>1. r \in G <=> q \in G
      BY <1>5, <2>1, <2>2
    <3> QED BY <1>1, <1>2, <2>1, <2>2, <3>1
  <2>3. CASE ~(i <= j /\ j <= last)
    <3>1. \A x \in RanksOf(n) : P(x, j) \in Int
      BY DEF P, Passes
    <3>2. \A x \in RanksOf(n) : Q(x, j) = P(x, j)
      BY <1>1, <1>2, <2>3, <3>1
    <3> QED BY <2>1, <3>2
  <2> QED BY <2>2, <2>3
<1> QED BY <1>5 DEF InStep, Q

\* No rank is through the second reduction of a step while another has not
\* been in the first.
LEMMA Lag ==
  ASSUME NEW c \in Configs, NEW n \in c.dp_sizes, NEW phase, NEW history,
         InStep(c, n, phase, history), \A r \in RanksOf(n) : Len(history[r]) \in Nat,
         NEW r \in RanksOf(n), NEW q \in RanksOf(n)
  PROVE  Passes(c, phase[q], history[q], 2) <= Passes(c, phase[r], history[r], 1)
<1> DEFINE x == IF SharedFirst(c) THEN <<r[1], q[2]>> ELSE <<q[1], r[2]>>
<1>1. x \in RanksOf(n)
  BY DEF RanksOf
<1>2. Meet(c, 1, x, r) /\ Meet(c, 2, x, q)
  BY DEF Meet
<1> HIDE DEF x
<1>3. /\ Passes(c, phase[x], history[x], 1) = Passes(c, phase[r], history[r], 1)
      /\ Passes(c, phase[x], history[x], 2) = Passes(c, phase[q], history[q], 2)
  BY <1>1, <1>2 DEF InStep
<1>4. Passes(c, phase[x], history[x], 2) <= Passes(c, phase[x], history[x], 1)
  <2>1. Len(history[x]) \in Nat
    BY <1>1
  <2>2. Number(c, phase[x]) > 2 => Number(c, phase[x]) > 1
    <3>1. Number(c, phase[x]) \in Int
      BY DEF Number
    <3> QED BY <3>1
  <2> QED BY <2>1, <2>2 DEF Passes
<1> QED BY <1>3, <1>4

-----------------------------------------------------------------------------
(***************************************************************************)
(* The reductions.                                                         *)
(***************************************************************************)

\* Cells of the ranks of a group S with the gradients of one element, of
\* the ranks from[x] for every x of the group, of `all` together.
Parts(c, g, k, e, divided, scale, cells, S, from, all) ==
  /\ DOMAIN cells = S /\ IsFiniteSet(S) /\ S # {}
  /\ \A x \in S : cells[x] = GradOf(e, from[x], divided, scale, Infinite(c, g, k, e, from[x]))
  /\ \A x, y \in S : x # y => from[x] \cap from[y] = {}
  /\ all = UNION {from[x] : x \in S}

\* Parts of a gradient add up to the gradient of all their ranks.
LEMMA ReducedGrads ==
  ASSUME NEW c, NEW g, NEW k, NEW e, NEW divided, NEW scale, NEW cells, NEW S, NEW from, NEW all,
         Parts(c, g, k, e, divided, scale, cells, S, from, all)
  PROVE  Sum(cells) = GradOf(e, all, divided, scale, Infinite(c, g, k, e, all))
<1>0. /\ DOMAIN cells = S /\ IsFiniteSet(S) /\ S # {}
      /\ \A x \in S : cells[x] = GradOf(e, from[x], divided, scale, Infinite(c, g, k, e, from[x]))
      /\ \A x, y \in S : x # y => from[x] \cap from[y] = {}
      /\ all = UNION {from[x] : x \in S}
  BY DEF Parts
<1> DEFINE inf(F) == Infinite(c, g, k, e, F)
<1>1. \A F : inf(F) \in BOOLEAN
  BY DEF Infinite
<1>2. (\E x \in S : inf(from[x])) <=> inf(all)
  <2>1. \A y : y \in all <=> \E x \in S : y \in from[x]
    BY <1>0
  <2> QED BY <2>1 DEF Infinite
<1> HIDE DEF inf
<1>3. \A x \in S : cells[x] = GradOf(e, from[x], divided, scale, inf(from[x]))
  BY <1>0 DEF inf
<1>4. \A x \in S : cells[x].from = from[x] /\ cells[x].inf = inf(from[x])
  <2>1. \A f, b : /\ GradOf(e, f, divided, scale, b).from = f
                  /\ GradOf(e, f, divided, scale, b).inf = b
    BY DEF GradOf
  <2> QED BY <1>3, <2>1
<1>5. Summands(cells, S, e, divided, scale)
  <2>1. \A x \in S : cells[x] = GradOf(e, cells[x].from, divided, scale, cells[x].inf)
    BY <1>3, <1>4
  <2>2. \A x \in S : cells[x].inf \in BOOLEAN
    BY <1>1, <1>4
  <2>3. \A x, y \in S : x # y => cells[x].from \cap cells[y].from = {}
    BY <1>0, <1>4
  <2> QED BY <2>1, <2>2, <2>3 DEF Summands
<1>6. Sum(cells) = Total(cells, S, e, divided, scale)
  BY <1>0, <1>5, SumOfGrads
<1>7. UNION {cells[x].from : x \in S} = all
  BY <1>0, <1>4
<1>8. (\E x \in S : cells[x].inf) = (\E x \in S : inf(from[x]))
  BY <1>1, <1>4
<1>9. Total(cells, S, e, divided, scale)
        = GradOf(e, UNION {cells[x].from : x \in S}, divided, scale, \E x \in S : cells[x].inf)
  BY <1>0 DEF Total
<1>10. @ = GradOf(e, all, divided, scale, inf(all))
  <2>1. (\E x \in S : cells[x].inf) = inf(all)
    BY <1>1, <1>2, <1>8
  <2> QED BY <1>7, <2>1
<1> QED BY <1>6, <1>9, <1>10 DEF inf

\* A gradient is divided once more.
LEMMA DividedGrad ==
  ASSUME NEW e, NEW from, NEW divided, NEW scale, NEW inf
  PROVE  Divided(GradOf(e, from, divided, scale, inf)) = GradOf(e, from, divided + 1, scale, inf)
BY DEF Divided, GradOf

\* The pieces of element e that the ranks of a group have in phase i.
PiecesOf(c, n, g, k, e, i, S, cells) ==
  DOMAIN cells = S /\ \A q \in S : cells[q] = Piece(c, n, g, k, q, e, i)

OfReplica(c, n, g, k, r, e, i, cells) ==
  /\ c \in Configs /\ n \in c.dp_sizes /\ r \in RanksOf(n)
  /\ i \in {1, 2} /\ (i = 1 <=> SharedFirst(c)) /\ Holders(c, e) = Positions
  /\ PiecesOf(c, n, g, k, e, i, {r[1]} \X Positions, cells)

\* The all-reduce of the shared parameter.
LEMMA SharedReduced ==
  ASSUME NEW c, NEW n, NEW g, NEW k, NEW r, NEW e, NEW i, NEW cells,
         OfReplica(c, n, g, k, r, e, i, cells)
  PROVE  Sum(cells) = Piece(c, n, g, k, r, e, i + 1)
<1> USE DEF OfReplica, PiecesOf
<1> DEFINE S == {r[1]} \X Positions
           from == [q \in S |-> From(c, n, q, e, i)]
           divided == IF i = 2 /\ ~SharedFirst(c) THEN 1 ELSE 0
           scale == Expected(c, Hist(g, k - 1)).scale
<1>1. IsFiniteSet(S) /\ S # {}
  <2>1. Positions = 0 .. 1 /\ IsFiniteSet({r[1]}) /\ IsFiniteSet(0 .. 1)
    <3>1. Positions = 0 .. 1
      BY DEF Positions
    <3>2. 0 \in Int /\ 1 \in Int
      OBVIOUS
    <3>3. IsFiniteSet(0 .. 1)
      BY <3>2, FS_Interval
    <3> QED BY <3>1, <3>3, FS_Singleton
  <2>2. IsFiniteSet(S)
    BY <2>1, FS_Product
  <2>3. <<r[1], 0>> \in S
    BY DEF Positions
  <2> QED BY <2>2, <2>3
<1>2. \A q \in S : cells[q] = GradOf(e, from[q], divided, scale, Infinite(c, g, k, e, from[q]))
  BY DEF Piece
<1>3. Holders(c, e) = Positions
  OBVIOUS
<1>4. \A q \in S : q[1] = r[1] /\ q[2] \in Positions /\ q = <<q[1], q[2]>>
  OBVIOUS
<1>5. \A x, y \in S : x # y => from[x] \cap from[y] = {}
  <2>1. CASE i = 1
    BY <2>1 DEF From
  <2>2. CASE i = 2
    <3>1. \A q \in S : from[q] = (0 .. n-1) \X {q[2]}
      BY <2>2 DEF From
    <3>2. \A x, y \in S : x # y => x[2] # y[2]
      BY <1>4
    <3> HIDE DEF from, S
    <3> QED BY <3>1, <3>2
  <2> QED BY <2>1, <2>2
<1>6. UNION {from[q] : q \in S} = From(c, n, r, e, i + 1)
  <2>1. CASE i = 1
    <3>1. From(c, n, r, e, i + 1) = S
      BY <1>3, <2>1 DEF From
    <3>2. \A q \in S : from[q] = {q}
      BY <2>1 DEF From
    <3> HIDE DEF S, from
    <3> QED BY <3>1, <3>2
  <2>2. CASE i = 2
    <3>1. From(c, n, r, e, i + 1) = (0 .. n-1) \X Positions
      BY <1>3, <2>2 DEF From
    <3>2. \A q \in S : from[q] = (0 .. n-1) \X {q[2]}
      BY <2>2 DEF From
    <3>3. \A m \in Positions : <<r[1], m>> \in S /\ <<r[1], m>>[2] = m
      OBVIOUS
    <3> HIDE DEF S, from
    <3>4. ASSUME NEW x \in (0 .. n-1) \X Positions PROVE \E q \in S : x \in from[q]
      BY <3>2, <3>3, ZenonT(60)
    <3>5. ASSUME NEW q \in S, NEW x \in from[q] PROVE x \in (0 .. n-1) \X Positions
      BY <1>4, <3>2
    <3> QED BY <3>1, <3>4, <3>5
  <2> QED BY <2>1, <2>2
<1> HIDE DEF from, S, divided, scale
<1>7. PICK all : all = UNION {from[q] : q \in S}
  OBVIOUS
<1>9. Sum(cells) = GradOf(e, all, divided, scale, Infinite(c, g, k, e, all))
  <2>1. DOMAIN cells = S
    BY DEF S
  <2>2. Parts(c, g, k, e, divided, scale, cells, S, from, all)
    BY <1>1, <1>2, <1>5, <1>7, <2>1 DEF Parts
  <2> QED BY ONLY <2>2, ReducedGrads
<1>8. divided = IF i + 1 = 3 \/ (i + 1 = 2 /\ ~SharedFirst(c)) THEN 1 ELSE 0
  BY DEF divided
<1> QED BY <1>6, <1>7, <1>8, <1>9 DEF Piece, scale

\* The all-reduce, or reduce-scatter, over data-parallel ranks.
DividedPieces(c, n, g, k, e, i, S, cells) ==
  DOMAIN cells = S /\ \A q \in S : cells[q] = Divided(Piece(c, n, g, k, q, e, i))

OfReplicas(c, n, g, k, r, e, i, cells) ==
  /\ c \in Configs /\ n \in c.dp_sizes /\ r \in RanksOf(n)
  /\ i \in {1, 2} /\ (i = 1 <=> ~SharedFirst(c))
  /\ DividedPieces(c, n, g, k, e, i, (0 .. n-1) \X {r[2]}, cells)

\* The sum over a data-parallel group is the piece of the next phase.
LEMMA DataReduced ==
  ASSUME NEW c, NEW n, NEW g, NEW k, NEW r, NEW e, NEW i, NEW cells,
         OfReplicas(c, n, g, k, r, e, i, cells)
  PROVE  Sum(cells) = Piece(c, n, g, k, r, e, i + 1)
<1> USE DEF OfReplicas, DividedPieces
<1> DEFINE S == (0 .. n-1) \X {r[2]}
           from == [q \in S |-> From(c, n, q, e, i)]
           scale == Expected(c, Hist(g, k - 1)).scale
<1>1. IsFiniteSet(S) /\ S # {}
  <2>1. n \in Nat \ {0}
    BY Job
  <2>2. IsFiniteSet(0 .. n-1) /\ IsFiniteSet({r[2]})
    <3>1. 0 \in Int /\ n-1 \in Int
      BY <2>1
    <3>2. IsFiniteSet(0 .. n-1)
      BY <3>1, FS_Interval
    <3> QED BY <3>2, FS_Singleton
  <2>3. IsFiniteSet(S)
    BY <2>2, FS_Product
  <2>4. <<0, r[2]>> \in S
    BY <2>1
  <2> QED BY <2>3, <2>4
<1>2. \A q \in S : cells[q] = GradOf(e, from[q], 1, scale, Infinite(c, g, k, e, from[q]))
  <2>1. ASSUME NEW q \in S PROVE cells[q] = GradOf(e, from[q], 1, scale, Infinite(c, g, k, e, from[q]))
    <3>1. Piece(c, n, g, k, q, e, i) = GradOf(e, from[q], 0, scale, Infinite(c, g, k, e, from[q]))
      BY DEF Piece
    <3>2. Divided(GradOf(e, from[q], 0, scale, Infinite(c, g, k, e, from[q])))
            = GradOf(e, from[q], 0 + 1, scale, Infinite(c, g, k, e, from[q]))
      BY ONLY DividedGrad
    <3> HIDE DEF from, scale, Infinite
    <3> QED BY <3>1, <3>2
  <2> QED BY <2>1
<1>3. \A q \in S : q[1] \in 0 .. n-1 /\ q[2] = r[2] /\ q = <<q[1], q[2]>>
  OBVIOUS
<1>4. \A x, y \in S : x # y => from[x] \cap from[y] = {}
  <2>1. CASE i = 1
    BY <2>1 DEF From
  <2>2. CASE i = 2
    <3>1. \A q \in S : from[q] = {q[1]} \X Holders(c, e)
      BY <2>2 DEF From
    <3>2. \A x, y \in S : x # y => x[1] # y[1]
      BY <1>3
    <3> HIDE DEF from, S
    <3> QED BY <3>1, <3>2
  <2> QED BY <2>1, <2>2
<1>5. UNION {from[q] : q \in S} = From(c, n, r, e, i + 1)
  <2>1. CASE i = 1
    <3>1. From(c, n, r, e, i + 1) = S
      BY <2>1 DEF From
    <3>2. \A q \in S : from[q] = {q}
      BY <2>1 DEF From
    <3> HIDE DEF S, from
    <3> QED BY <3>1, <3>2
  <2>2. CASE i = 2
    <3>1. From(c, n, r, e, i + 1) = (0 .. n-1) \X Holders(c, e)
      BY <2>2 DEF From
    <3>2. \A q \in S : from[q] = {q[1]} \X Holders(c, e)
      BY <2>2 DEF From
    <3>3. \A d \in 0 .. n-1 : <<d, r[2]>> \in S /\ <<d, r[2]>>[1] = d
      OBVIOUS
    <3> HIDE DEF S, from
    <3>4. ASSUME NEW x \in (0 .. n-1) \X Holders(c, e) PROVE \E q \in S : x \in from[q]
      BY <3>2, <3>3, ZenonT(60)
    <3>5. ASSUME NEW q \in S, NEW x \in from[q] PROVE x \in (0 .. n-1) \X Holders(c, e)
      BY <1>3, <3>2
    <3> QED BY <3>1, <3>4, <3>5
  <2> QED BY <2>1, <2>2
<1> HIDE DEF from, S, scale
<1>6. PICK all : all = UNION {from[q] : q \in S}
  OBVIOUS
<1>8. Sum(cells) = GradOf(e, all, 1, scale, Infinite(c, g, k, e, all))
  <2>1. DOMAIN cells = S
    BY DEF S
  <2>2. Parts(c, g, k, e, 1, scale, cells, S, from, all)
    BY <1>1, <1>2, <1>4, <1>6, <2>1 DEF Parts
  <2> QED BY ONLY <2>2, ReducedGrads
<1>7. (IF i + 1 = 3 \/ (i + 1 = 2 /\ ~SharedFirst(c)) THEN 1 ELSE 0) = 1
  OBVIOUS
<1> QED BY <1>5, <1>6, <1>7, <1>8 DEF Piece, scale

\* What is not shared is left as it is by the all-reduce of what is.
LEMMA NotShared ==
  ASSUME NEW c \in Configs, NEW n \in c.dp_sizes, NEW g, NEW k, NEW r \in RanksOf(n), NEW e,
         NEW i \in {1, 2}, i = 1 <=> SharedFirst(c), e \in ElementsOf(c, r[2]),
         \E m \in Positions : e \notin ElementsOf(c, m)
  PROVE  Piece(c, n, g, k, r, e, i + 1) = Piece(c, n, g, k, r, e, i)
<1>1. r[2] \in Positions /\ r = <<r[1], r[2]>>
  BY DEF RanksOf
<1>2. Holders(c, e) = {r[2]}
  BY <1>1 DEF Holders, Positions
<1>3. From(c, n, r, e, i + 1) = From(c, n, r, e, i)
  <2>1. CASE i = 1
    BY <1>1, <1>2, <2>1 DEF From
  <2>2. CASE i = 2
    BY <1>2, <2>2 DEF From
  <2> QED BY <2>1, <2>2
<1>4. (i + 1 = 3 \/ (i + 1 = 2 /\ ~SharedFirst(c))) <=> (i = 3 \/ (i = 2 /\ ~SharedFirst(c)))
  OBVIOUS
<1> QED BY <1>3, <1>4 DEF Piece

-----------------------------------------------------------------------------
(***************************************************************************)
(* Steps of a group.                                                       *)
(***************************************************************************)

Witnesses == [1 .. MaxSteps -> BOOLEAN]

\* What a rank of the job holds.
LEMMA OfRank ==
  ASSUME NEW g \in Witnesses, Explained(g), NEW r \in Ranks
  PROVE  /\ config \in Configs /\ dp \in config.dp_sizes /\ dp \in Nat \ {0}
         /\ r \in RanksOf(dp) /\ r[1] \in 0 .. dp-1 /\ r[2] \in Positions /\ r = <<r[1], r[2]>>
         /\ RankOK(config, dp, g, r, pc[r], buffer[r], params[r], main_params[r], main_grads[r],
                   results[r])
         /\ HistoryOK(config, dp, g, pc[r], results[r])
         /\ pc[r] \in Phases(config) /\ Number(config, pc[r]) \in 0 .. 6
         /\ Len(results[r]) \in 0 .. MaxSteps /\ results[r] = Hist(g, Len(results[r]))
         /\ Number(config, pc[r]) > 0 => Len(results[r]) + 1 \in 1 .. MaxSteps
<1>1. config \in Configs /\ dp \in config.dp_sizes /\ Ranks = RanksOf(dp)
  BY DEF Explained, Ranks
<1>2. dp \in Nat \ {0}
  BY <1>1, Job
<1>3. r \in RanksOf(dp) /\ r[1] \in 0 .. dp-1 /\ r[2] \in Positions /\ r = <<r[1], r[2]>>
  BY <1>1 DEF RanksOf
<1>4. RankOK(config, dp, g, r, pc[r], buffer[r], params[r], main_params[r], main_grads[r], results[r])
  BY DEF Explained
<1>5. HistoryOK(config, dp, g, pc[r], results[r])
  BY <1>4 DEF RankOK
<1>6. /\ pc[r] \in Phases(config) /\ Len(results[r]) \in 0 .. MaxSteps
      /\ results[r] = Hist(g, Len(results[r]))
      /\ Number(config, pc[r]) > 0 => Len(results[r]) < MaxSteps
  BY <1>5 DEF HistoryOK
<1>7. Number(config, pc[r]) \in 0 .. 6
  BY <1>1, <1>6, PhaseOfNumber
<1>8. Number(config, pc[r]) > 0 => Len(results[r]) + 1 \in 1 .. MaxSteps
  BY <1>6, BoundsAssumption
<1> QED BY <1>1, <1>2, <1>3, <1>4, <1>5, <1>6, <1>7, <1>8

\* The ranks of G leave the collective of phase i, alike.
Leaves(G, i, last) ==
  /\ G \in SUBSET Ranks /\ i \in 0 .. 6 /\ last \in {i, 6}
  /\ \A r \in G : Number(config, pc[r]) = i
  /\ \/ last = i /\ \A r \in G : Number(config, pc'[r]) = i + 1 /\ results'[r] = results[r]
     \/ last = 6 /\ \A r \in G : /\ Number(config, pc'[r]) = 0
                                 /\ Len(results'[r]) = Len(results[r]) + 1
  /\ \A j \in 1 .. 6 : i <= j /\ j <= last =>
       \A r \in G, q \in Ranks : Meet(config, j, r, q) => q \in G

Rest(G) ==
  /\ UNCHANGED <<config, dp, disk, restarts>>
  /\ DOMAIN pc' = Ranks /\ DOMAIN buffer' = Ranks /\ DOMAIN params' = Ranks
  /\ DOMAIN main_params' = Ranks /\ DOMAIN main_grads' = Ranks /\ DOMAIN scaler' = Ranks
  /\ DOMAIN results' = Ranks
  /\ \A r \in Ranks \ G :
       /\ pc'[r] = pc[r] /\ buffer'[r] = buffer[r] /\ params'[r] = params[r]
       /\ main_params'[r] = main_params[r] /\ main_grads'[r] = main_grads[r]
       /\ results'[r] = results[r]

\* The state stays explained when the ranks of a group move on alike, and
\* what each of them then holds is right.
LEMMA Move ==
  ASSUME NEW g \in Witnesses, Explained(g), NEW G, NEW i, NEW last, Rest(G), Leaves(G, i, last),
         \A r \in G : RankOK(config, dp, g, r, pc'[r], buffer'[r], params'[r], main_params'[r],
                             main_grads'[r], results'[r])
  PROVE  Explained(g)'
<1>1. /\ config' = config /\ dp' = dp /\ disk' = disk /\ restarts' = restarts
      /\ config \in Configs /\ dp \in config.dp_sizes /\ Ranks = RanksOf(dp) /\ Ranks' = Ranks
  BY DEF Explained, Rest, Ranks
<1>2. \A r \in Ranks : RankOK(config, dp, g, r, pc'[r], buffer'[r], params'[r], main_params'[r],
                              main_grads'[r], results'[r])
  <2> SUFFICES ASSUME NEW r \in Ranks
               PROVE  RankOK(config, dp, g, r, pc'[r], buffer'[r], params'[r], main_params'[r],
                             main_grads'[r], results'[r])
    OBVIOUS
  <2>1. CASE r \in G
    BY <2>1
  <2>2. CASE r \notin G
    <3>1. RankOK(config, dp, g, r, pc[r], buffer[r], params[r], main_params[r], main_grads[r], results[r])
      BY OfRank
    <3> QED BY <2>2, <3>1 DEF Rest
  <2> QED BY <2>1, <2>2
<1>3. \A r \in Ranks : Len(results[r]) \in Nat /\ Len(results[r]) <= Len(results'[r])
  <2> SUFFICES ASSUME NEW r \in Ranks
               PROVE  Len(results[r]) \in Nat /\ Len(results[r]) <= Len(results'[r])
    OBVIOUS
  <2>1. Len(results[r]) \in Nat
    BY OfRank
  <2>2. results'[r] = results[r] \/ Len(results'[r]) = Len(results[r]) + 1
    BY DEF Rest, Leaves
  <2> QED BY <2>1, <2>2
<1>4. InStep(config, dp, pc', results')
  <2>1. InStep(config, dp, pc, results)
    BY DEF Explained
  <2>2. \A r \in RanksOf(dp) \ G : pc'[r] = pc[r] /\ results'[r] = results[r]
    BY <1>1 DEF Rest
  <2>3. /\ G \in SUBSET RanksOf(dp) /\ i \in 0 .. 6 /\ last \in {i, 6}
        /\ \A r \in G : Number(config, pc[r]) = i
        /\ \/ last = i /\ \A r \in G : Number(config, pc'[r]) = i + 1 /\ results'[r] = results[r]
           \/ last = 6 /\ \A r \in G : /\ Number(config, pc'[r]) = 0
                                       /\ Len(results'[r]) = Len(results[r]) + 1
        /\ \A j \in 1 .. 6 : i <= j /\ j <= last =>
             \A r \in G, q \in RanksOf(dp) : Meet(config, j, r, q) => q \in G
    BY <1>1 DEF Leaves
  <2>4. \A r \in RanksOf(dp) : Len(results[r]) \in Nat
    BY <1>1, <1>3
  <2>5. PICK phase2, history2 : phase2 = pc' /\ history2 = results'
    OBVIOUS
  <2>6. InStep(config, dp, phase2, history2)
    <3>1. \A r \in RanksOf(dp) \ G : phase2[r] = pc[r] /\ history2[r] = results[r]
      BY <2>2, <2>5
    <3>2. \/ last = i /\ \A r \in G : Number(config, phase2[r]) = i + 1 /\ history2[r] = results[r]
          \/ last = 6 /\ \A r \in G : /\ Number(config, phase2[r]) = 0
                                      /\ Len(history2[r]) = Len(results[r]) + 1
      BY <2>3, <2>5
    <3>3. Leaving(config, dp, pc, results, phase2, history2, G, i, last)
      BY ONLY <1>1, <2>1, <2>3, <2>4, <3>1, <3>2 DEF Leaving
    <3> QED BY ONLY <3>3, InStepKept
  <2> QED BY <2>5, <2>6
<1>5. \A r \in Ranks : Len(disk.results) <= Len(results'[r])
  <2> SUFFICES ASSUME NEW r \in Ranks PROVE Len(disk.results) <= Len(results'[r])
    OBVIOUS
  <2>1. Len(disk.results) <= Len(results[r]) /\ Len(disk.results) \in Nat
    BY DEF Explained, DiskOK
  <2>2. Len(results'[r]) \in Int
    BY <1>2 DEF RankOK, HistoryOK
  <2> QED BY <1>3, <2>1, <2>2
<1> QED BY <1>1, <1>2, <1>4, <1>5 DEF Explained, Rest

\* What is in the buffer of a rank before a reduction, ...
LEMMA BeforeReduction ==
  ASSUME NEW g \in Witnesses, Explained(g), NEW r \in Ranks, NEW i \in {1, 2},
         Number(config, pc[r]) = i
  PROVE  /\ DOMAIN buffer[r] = Cells(r[2])
         /\ \A e \in ElementsOf(config, r[2]) :
              buffer[r][CellAt(config, r[2], e)] = Piece(config, dp, g, Len(results[r]) + 1, r, e, i)
<1>1. /\ config \in Configs /\ dp \in config.dp_sizes /\ r[2] \in Positions
      /\ RankOK(config, dp, g, r, pc[r], buffer[r], params[r], main_params[r], main_grads[r], results[r])
  BY OfRank
<1>2. BufferOK(config, dp, g, r, pc[r], buffer[r], main_params[r], results[r])
  BY <1>1 DEF RankOK
<1>3. Cells(r[2]) = 0 .. NumelPadded(Numel(config, r[2]), dp) - 1
  BY <1>1, Terms
<1>4. i \in 1 .. 3 /\ i # 3
  OBVIOUS
<1> QED BY <1>2, <1>3, <1>4 DEF BufferOK

\* ... and what has to be in it after that.
LEMMA AfterReductionOK ==
  ASSUME NEW c \in Configs, NEW n, NEW g, NEW r, NEW p, NEW p2 \in Phases(c), NEW i \in {1, 2},
         Number(c, p) = i, Number(c, p2) = i + 1,
         NEW buf, NEW buf2, NEW par, NEW main, NEW grads, NEW h,
         RankOK(c, n, g, r, p, buf, par, main, grads, h), DOMAIN buf2 = DOMAIN buf,
         \A e \in ElementsOf(c, r[2]) :
           (i = 2 => e \in OwnedBy(c, n, r))
           => buf2[CellAt(c, r[2], e)] = Piece(c, n, g, Len(h) + 1, r, e, i + 1)
  PROVE  RankOK(c, n, g, r, p2, buf2, par, main, grads, h)
<1>1. i \in 1 .. 2 /\ i + 1 \in 2 .. 3 /\ i + 1 # 6 /\ i # 6 /\ i + 1 \notin {4, 5} /\ i + 1 \in 1 .. 3
      /\ (i + 1 = 3 <=> i = 2) /\ ~(i + 1 > 4) /\ i > 0
  OBVIOUS
<1>2. HistoryOK(c, n, g, p2, h)
  BY <1>1 DEF RankOK, HistoryOK
<1>3. BufferOK(c, n, g, r, p2, buf2, main, h)
  BY <1>1 DEF RankOK, BufferOK
<1>4. GradsOK(c, n, g, r, p2, grads, h) /\ MainOK(c, n, g, r, p2, main, h)
  BY <1>1 DEF RankOK, GradsOK, MainOK
<1> QED BY <1>2, <1>3, <1>4 DEF RankOK

\* A reduction of group G in phase i, named p, that leaves the right
\* pieces.
Reduces(g, G, i, p) ==
  /\ G \in SUBSET Ranks /\ i \in {1, 2} /\ p \in {First(config), Second(config)}
  /\ Number(config, p) = i /\ At(G, p) /\ GotoAfter(G, p)
  /\ UNCHANGED <<config, dp, params, main_params, main_grads, scaler, results, disk, restarts>>
  /\ DOMAIN buffer' = Ranks /\ \A r \in Ranks \ G : buffer'[r] = buffer[r]
  /\ \A r \in G : DOMAIN buffer'[r] = Cells(r[2])
  /\ \A r \in G : \A e \in ElementsOf(config, r[2]) :
       (i = 2 => e \in OwnedBy(config, dp, r))
       => buffer'[r][CellAt(config, r[2], e)]
            = Piece(config, dp, g, Len(results[r]) + 1, r, e, i + 1)
  /\ \A r \in G, q \in Ranks : Meet(config, i, r, q) => q \in G

\* Such a reduction keeps the state explained.
LEMMA Reduced ==
  ASSUME NEW g \in Witnesses, Explained(g), NEW G, NEW i, NEW p, Reduces(g, G, i, p)
  PROVE  Explained(g)'
<1> USE DEF Reduces
<1>1. config \in Configs /\ dp \in config.dp_sizes
  BY DEF Explained
<1>2. \A m : AfterReduction(m, p) = IF i = 1 THEN Second(config) ELSE "unscale"
  <2>1. \A m : Reductions(m)[1] = First(config) /\ Reductions(m)[2] = Second(config)
    BY <1>1, Terms
  <2>2. i = 1 <=> p = First(config)
    BY <1>1, PhasesAre
  <2> QED BY <2>1, <2>2 DEF AfterReduction
<1> DEFINE next == IF i = 1 THEN Second(config) ELSE "unscale"
<1>3. Number(config, next) = i + 1 /\ next \in Phases(config)
  BY <1>1, PhasesAre DEF Phases
<1>4. \A r \in G : pc[r] = p /\ pc'[r] = next
  BY <1>2 DEF At, GotoAfter
<1>5. Rest(G)
  BY DEF Rest, Explained, GotoAfter
<1>6. Leaves(G, i, i)
  <2>1. \A j \in 1 .. 6 : i <= j /\ j <= i => j = i
    OBVIOUS
  <2> HIDE DEF next
  <2> QED BY <1>3, <1>4, <2>1 DEF Leaves
<1>7. ASSUME NEW r \in G
      PROVE  RankOK(config, dp, g, r, pc'[r], buffer'[r], params'[r], main_params'[r],
                    main_grads'[r], results'[r])
  <2>1. RankOK(config, dp, g, r, pc[r], buffer[r], params[r], main_params[r], main_grads[r], results[r])
    BY OfRank
  <2>2. Number(config, pc[r]) = i /\ pc'[r] \in Phases(config) /\ Number(config, pc'[r]) = i + 1
    BY <1>3, <1>4
  <2>3. DOMAIN buffer'[r] = DOMAIN buffer[r]
    BY <2>2, BeforeReduction
  <2> HIDE DEF next
  <2>4. PICK buf2, p2 : buf2 = buffer'[r] /\ p2 = pc'[r]
    OBVIOUS
  <2>5. \A e \in ElementsOf(config, r[2]) :
           (i = 2 => e \in OwnedBy(config, dp, r))
           => buf2[CellAt(config, r[2], e)] = Piece(config, dp, g, Len(results[r]) + 1, r, e, i + 1)
    BY <2>4
  <2>7. i \in {1, 2}
    OBVIOUS
  <2>6. RankOK(config, dp, g, r, p2, buf2, params[r], main_params[r], main_grads[r], results[r])
    BY ONLY <1>1, <2>1, <2>2, <2>3, <2>4, <2>5, <2>7, AfterReductionOK
  <2> QED BY <2>4, <2>6
<1> QED BY <1>5, <1>6, <1>7, Move

\* Ranks that come to a reduction are in the same step.
LEMMA SameStep ==
  ASSUME NEW g \in Witnesses, Explained(g), NEW r \in Ranks, NEW q \in Ranks, NEW i \in 1 .. 6,
         Meet(config, i, r, q), Number(config, pc[r]) <= i, Number(config, pc[q]) <= i
  PROVE  Len(results[r]) = Len(results[q])
<1>1. Passes(config, pc[r], results[r], i) = Passes(config, pc[q], results[q], i)
  BY DEF Explained, InStep, Ranks
<1>2. /\ Len(results[r]) \in Nat /\ Len(results[q]) \in Nat
      /\ Number(config, pc[r]) \in Int /\ Number(config, pc[q]) \in Int
  BY OfRank
<1>3. ~(Number(config, pc[r]) > i) /\ ~(Number(config, pc[q]) > i)
  BY <1>2
<1> QED BY <1>1, <1>2, <1>3 DEF Passes

\* The shared parameter.
LEMMA SharedElements ==
  ASSUME config \in Configs, NEW m \in Positions, NEW e \in ElementsOf(config, m)
  PROVE  e[1] \in SharedNames <=> \A l \in Positions : e \in ElementsOf(config, l)
<1>1. PICK name \in Names(config, m) : e \in {name} \X (0 .. config.size[name] - 1)
  BY DEF ElementsOf
<1>2. e[1] = name
  BY <1>1
<1>3. SharedNames = {x \in Names(config, 0) : x \in Names(config, 1)}
  BY DEF SharedNames, Last
<1>4. ASSUME name \in SharedNames, NEW l \in Positions PROVE e \in ElementsOf(config, l)
  <2>1. name \in Names(config, l)
    BY <1>3, <1>4 DEF Positions
  <2> QED BY <1>1, <2>1 DEF ElementsOf
<1>5. ASSUME \A l \in Positions : e \in ElementsOf(config, l) PROVE name \in SharedNames
  <2>1. ASSUME NEW l \in Positions PROVE name \in Names(config, l)
    <3>1. PICK x \in Names(config, l) : e \in {x} \X (0 .. config.size[x] - 1)
      BY <1>5 DEF ElementsOf
    <3> QED BY <1>2, <3>1
  <2> QED BY <1>3, <2>1 DEF Positions
<1> QED BY <1>2, <1>4, <1>5

\* The all-reduce of the shared parameter in a replica.
LEMMA AllreduceSharedKeeps ==
  ASSUME NEW g \in Witnesses, Explained(g), NEW d \in 0 .. dp-1, AllreduceShared(d)
  PROVE  Explained(g)'
<1>1. config \in Configs /\ dp \in config.dp_sizes /\ dp \in Nat \ {0} /\ Ranks = RanksOf(dp)
  BY Job DEF Explained, Ranks
<1> DEFINE G == {d} \X Positions
           p == config.shared
           i == IF SharedFirst(config) THEN 1 ELSE 2
<1>2. Sharing(d) = G /\ G \in SUBSET Ranks /\ \A r \in G : r[1] = d /\ r[2] \in Positions
  <2>1. Sharing(d) = G
    BY <1>1, Terms
  <2>2. G \in SUBSET Ranks
    BY <1>1 DEF RanksOf
  <2> QED BY <2>1, <2>2
<1>3. i \in {1, 2} /\ Number(config, p) = i /\ p \in {First(config), Second(config)}
      /\ (i = 1 <=> SharedFirst(config))
  <2>1. config.shared \in {"embedding", "layernorm"} /\ config.distributed \in BOOLEAN
    BY <1>1, Job
  <2>2. p = IF SharedFirst(config) THEN First(config) ELSE Second(config)
    BY <2>1 DEF First, Second, SharedFirst
  <2> QED BY <1>1, <2>2, PhasesAre
<1> DEFINE of(r, j) == {e \in Elements(r[2]) : e[1] \in SharedNames /\ CellOf(r[2], e) = j}
<1>4. /\ At(G, p) /\ GotoAfter(G, p)
      /\ UNCHANGED <<config, dp, params, main_params, main_grads, scaler, results, disk, restarts>>
      /\ buffer' = [r \in Ranks |->
           IF r \notin G THEN buffer[r]
           ELSE [j \in Cells(r[2]) |->
                  IF of(r, j) = {} THEN buffer[r][j]
                  ELSE Sum([q \in G |-> buffer[q][CellOf(q[2], CHOOSE e \in of(r, j) : TRUE)]])]]
  <2> HIDE DEF G
  <2> QED BY <1>2 DEF AllreduceShared
<1> HIDE DEF i, p
<1>5. \A r \in G : Number(config, pc[r]) = i
  BY <1>3, <1>4 DEF At
<1>6. ASSUME NEW r \in G, NEW e \in ElementsOf(config, r[2])
      PROVE  buffer'[r][CellAt(config, r[2], e)]
               = Piece(config, dp, g, Len(results[r]) + 1, r, e, i + 1)
  <2> DEFINE j == CellAt(config, r[2], e)
             k == Len(results[r]) + 1
  <2>1. r \in Ranks /\ r[1] = d /\ r[2] \in Positions /\ r \in RanksOf(dp)
    BY <1>1, <1>2
  <2>2. /\ DOMAIN buffer[r] = Cells(r[2])
        /\ buffer[r][j] = Piece(config, dp, g, k, r, e, i)
    BY <1>3, <1>5, <2>1, BeforeReduction
  <2>3. j \in Cells(r[2])
    BY <1>1, <2>1, CellInBuffer, Terms
  <2>4. /\ Elements(r[2]) = ElementsOf(config, r[2])
        /\ \A m \in Positions : \A x \in ElementsOf(config, m) : CellOf(m, x) = CellAt(config, m, x)
    BY <1>1, <2>1, Terms
  <2>5. buffer'[r][j] = IF of(r, j) = {} THEN buffer[r][j]
                        ELSE Sum([q \in G |-> buffer[q][CellOf(q[2], CHOOSE x \in of(r, j) : TRUE)]])
    BY <1>4, <2>1, <2>3
  <2>6. \A x \in of(r, j) : x = e
    BY <1>1, <2>1, <2>4, OneElement
  <2>7. CASE e[1] \in SharedNames
    <3>1. of(r, j) = {e}
      BY <2>1, <2>4, <2>6, <2>7
    <3>2. (CHOOSE x \in of(r, j) : TRUE) = e /\ of(r, j) # {}
      BY <3>1
    <3>3. \A m \in Positions : e \in ElementsOf(config, m)
      BY <1>1, <2>1, <2>7, SharedElements
    <3> DEFINE cells == [q \in G |-> buffer[q][CellOf(q[2], e)]]
    <3>4. buffer'[r][j] = Sum(cells)
      BY <2>5, <3>2
    <3>5. ASSUME NEW q \in G PROVE cells[q] = Piece(config, dp, g, k, q, e, i)
      <4>1. q \in Ranks /\ q[2] \in Positions /\ q[1] = r[1]
        BY <1>2, <2>1
      <4>2. buffer[q][CellAt(config, q[2], e)] = Piece(config, dp, g, Len(results[q]) + 1, q, e, i)
        BY <1>3, <1>5, <3>3, <4>1, BeforeReduction
      <4>3. Meet(config, i, r, q)
        BY <1>3, <4>1 DEF Meet
      <4>4. Len(results[r]) = Len(results[q])
        <5>1. i \in 1 .. 6 /\ Number(config, pc[r]) <= i /\ Number(config, pc[q]) <= i
          BY <1>3, <1>5
        <5> QED BY <2>1, <4>1, <4>3, <5>1, SameStep
      <4> QED BY <2>4, <3>3, <4>1, <4>2, <4>4
    <3> HIDE DEF cells
    <3>6. Sum(cells) = Piece(config, dp, g, k, r, e, i + 1)
      <4>1. DOMAIN cells = {r[1]} \X Positions /\ G = {r[1]} \X Positions
        BY <2>1 DEF cells
      <4>2. PiecesOf(config, dp, g, k, e, i, {r[1]} \X Positions, cells)
        BY <3>5, <4>1 DEF PiecesOf
      <4>3. Holders(config, e) = Positions
        BY <3>3 DEF Holders
      <4> HIDE DEF k, G
      <4>4. OfReplica(config, dp, g, k, r, e, i, cells)
        BY <1>1, <1>3, <2>1, <4>2, <4>3 DEF OfReplica
      <4> QED BY ONLY <4>4, SharedReduced
    <3> QED BY <3>4, <3>6
  <2>8. CASE e[1] \notin SharedNames
    <3>1. of(r, j) = {}
      BY <2>6, <2>8
    <3>2. \E m \in Positions : e \notin ElementsOf(config, m)
      BY <1>1, <2>1, <2>8, SharedElements
    <3>3. Piece(config, dp, g, k, r, e, i + 1) = Piece(config, dp, g, k, r, e, i)
      BY <1>1, <1>3, <2>1, <3>2, NotShared
    <3> QED BY <2>2, <2>5, <3>1, <3>3
  <2> QED BY <2>7, <2>8
<1>7. \A r \in G, q \in Ranks : Meet(config, i, r, q) => q \in G
  <2> SUFFICES ASSUME NEW r \in G, NEW q \in Ranks, Meet(config, i, r, q) PROVE q \in G
    OBVIOUS
  <2>1. q[1] = r[1]
    BY <1>3 DEF Meet
  <2> QED BY <1>1, <1>2, <2>1 DEF RanksOf
<1>8. /\ DOMAIN buffer' = Ranks /\ \A r \in Ranks \ G : buffer'[r] = buffer[r]
      /\ \A r \in G : DOMAIN buffer'[r] = Cells(r[2])
  BY <1>2, <1>4
<1>9. Reduces(g, G, i, p)
  <2> HIDE DEF G
  <2> QED BY <1>2, <1>3, <1>4, <1>6, <1>7, <1>8 DEF Reduces
<1> QED BY <1>9, Reduced

\* What the ranks of a data-parallel group make of a cell.
LEMMA DataGroup ==
  ASSUME NEW g \in Witnesses, Explained(g), NEW m \in Positions
  PROVE  /\ config \in Configs /\ dp \in config.dp_sizes /\ Ranks = RanksOf(dp)
         /\ DataParallel(m) = (0 .. dp-1) \X {m} /\ DataParallel(m) \in SUBSET Ranks
         /\ \A r \in DataParallel(m) : r[2] = m /\ r[1] \in 0 .. dp-1 /\ r = <<r[1], m>>
         /\ <<0, m>> \in DataParallel(m)
         /\ \A r \in DataParallel(m), q \in Ranks : r[2] = q[2] => q \in DataParallel(m)
<1>1. config \in Configs /\ dp \in config.dp_sizes /\ Ranks = RanksOf(dp)
  BY DEF Explained, Ranks
<1>2. dp \in Nat \ {0}
  BY <1>1, Job
<1>3. DataParallel(m) = (0 .. dp-1) \X {m}
  BY <1>1, Terms
<1>4. ASSUME NEW r \in (0 .. dp-1) \X {m}
      PROVE  r[2] = m /\ r[1] \in 0 .. dp-1 /\ r = <<r[1], m>> /\ r \in RanksOf(dp)
  BY <1>4 DEF RanksOf
<1>5. <<0, m>> \in (0 .. dp-1) \X {m}
  BY <1>2
<1>6. ASSUME NEW q \in RanksOf(dp), q[2] = m PROVE q \in (0 .. dp-1) \X {m}
  BY <1>6 DEF RanksOf
<1> QED BY <1>1, <1>3, <1>4, <1>5, <1>6

\* What a data-parallel group reduces an element to.
LEMMA ReducedPiece ==
  ASSUME NEW g \in Witnesses, Explained(g), NEW m \in Positions, NEW i \in {1, 2},
         i = 1 <=> ~SharedFirst(config), \A q \in DataParallel(m) : Number(config, pc[q]) = i,
         NEW r \in DataParallel(m), NEW e \in ElementsOf(config, m)
  PROVE  ReducedCell(m, CellAt(config, m, e)) = Piece(config, dp, g, Len(results[r]) + 1, r, e, i + 1)
<1> DEFINE j == CellAt(config, m, e)
           k == Len(results[r]) + 1
           cells == [q \in DataParallel(m) |-> Divided(buffer[q][j])]
<1>1. ReducedCell(m, j) = Sum(cells)
  BY DEF ReducedCell
<1>2. /\ config \in Configs /\ dp \in config.dp_sizes /\ Ranks = RanksOf(dp)
      /\ DataParallel(m) = (0 .. dp-1) \X {r[2]} /\ DataParallel(m) \in SUBSET Ranks
      /\ r \in RanksOf(dp) /\ \A q \in DataParallel(m) : q[2] = m
  BY DataGroup
<1>3. ASSUME NEW q \in DataParallel(m) PROVE cells[q] = Divided(Piece(config, dp, g, k, q, e, i))
  <2>1. q \in Ranks /\ q[2] = m /\ r[2] = m /\ r \in Ranks
    BY <1>2
  <2>2. buffer[q][j] = Piece(config, dp, g, Len(results[q]) + 1, q, e, i)
    BY <2>1, BeforeReduction
  <2>3. Meet(config, i, r, q)
    BY <2>1 DEF Meet
  <2>4. i \in 1 .. 6 /\ Number(config, pc[r]) <= i /\ Number(config, pc[q]) <= i
    OBVIOUS
  <2>5. Len(results[r]) = Len(results[q])
    BY <2>1, <2>3, <2>4, SameStep
  <2> QED BY <2>2, <2>5
<1> HIDE DEF cells, k
<1>4. DividedPieces(config, dp, g, k, e, i, (0 .. dp-1) \X {r[2]}, cells)
  <2>1. DOMAIN cells = DataParallel(m)
    BY DEF cells
  <2> QED BY <1>2, <1>3, <2>1 DEF DividedPieces
<1>5. Sum(cells) = Piece(config, dp, g, k, r, e, i + 1)
  <2>1. i \in {1, 2} /\ (i = 1 <=> ~SharedFirst(config))
    OBVIOUS
  <2>2. OfReplicas(config, dp, g, k, r, e, i, cells)
    BY <1>2, <1>4, <2>1 DEF OfReplicas
  <2> QED BY ONLY <2>2, DataReduced
<1> QED BY <1>1, <1>5 DEF k

\* The all-reduce over data-parallel ranks of the plain optimizer, ...
LEMMA AllreduceGradientsKeeps ==
  ASSUME NEW g \in Witnesses, Explained(g), NEW m \in Positions, AllreduceGradients(m)
  PROVE  Explained(g)'
<1> DEFINE G == DataParallel(m)
           p == "allreduce"
           i == IF SharedFirst(config) THEN 2 ELSE 1
<1>1. /\ config \in Configs /\ dp \in config.dp_sizes /\ G \in SUBSET Ranks
      /\ \A r \in G : r[2] = m
      /\ <<0, m>> \in G /\ \A r \in G, q \in Ranks : r[2] = q[2] => q \in G
  BY DataGroup
<1>2. /\ At(G, p) /\ GotoAfter(G, p)
      /\ UNCHANGED <<config, dp, params, main_params, main_grads, scaler, results, disk, restarts>>
      /\ buffer' = [r \in Ranks |-> IF r \notin G THEN buffer[r] ELSE [j \in Cells(m) |-> ReducedCell(m, j)]]
  <2> HIDE DEF G
  <2>1. PICK H : H = DataParallel(m)
    OBVIOUS
  <2> QED BY <2>1 DEF AllreduceGradients, G
<1>3. i \in {1, 2} /\ Number(config, p) = i /\ p \in {First(config), Second(config)}
      /\ (i = 1 <=> ~SharedFirst(config))
  <2>1. p \in Phases(config)
    BY <1>1, <1>2, OfRank DEF At
  <2>2. p \in {First(config), Second(config)}
    BY <2>1 DEF Phases
  <2>3. config.shared \in {"embedding", "layernorm"}
    BY <1>1, Job
  <2>4. p = IF SharedFirst(config) THEN Second(config) ELSE First(config)
    BY <2>2, <2>3 DEF First, Second, SharedFirst
  <2> QED BY <1>1, <2>2, <2>4, PhasesAre
<1> HIDE DEF G, i, p
<1>4. \A r \in G : Number(config, pc[r]) = i
  BY <1>2, <1>3 DEF At
<1>5. ASSUME NEW r \in G, NEW e \in ElementsOf(config, r[2])
      PROVE  buffer'[r][CellAt(config, r[2], e)] = Piece(config, dp, g, Len(results[r]) + 1, r, e, i + 1)
  <2>1. r[2] = m /\ r \in Ranks
    BY <1>1
  <2>2. CellAt(config, m, e) \in Cells(m)
    BY <1>1, <2>1, CellInBuffer, Terms
  <2>3. buffer'[r][CellAt(config, m, e)] = ReducedCell(m, CellAt(config, m, e))
    BY <1>2, <2>1, <2>2
  <2>4. ReducedCell(m, CellAt(config, m, e)) = Piece(config, dp, g, Len(results[r]) + 1, r, e, i + 1)
    BY <1>3, <1>4, <2>1, ReducedPiece DEF G
  <2> QED BY <2>1, <2>3, <2>4
<1>6. \A r \in G, q \in Ranks : Meet(config, i, r, q) => q \in G
  BY <1>1, <1>3 DEF Meet
<1>7. Reduces(g, G, i, p)
  <2>1. /\ DOMAIN buffer' = Ranks /\ \A r \in Ranks \ G : buffer'[r] = buffer[r]
        /\ \A r \in G : DOMAIN buffer'[r] = Cells(r[2])
    BY <1>1, <1>2
  <2> QED BY <1>1, <1>2, <1>3, <1>5, <1>6, <2>1 DEF Reduces
<1> QED BY <1>7, Reduced

\* ... and the reduce-scatter of the distributed optimizer.
LEMMA ReduceScatterKeeps ==
  ASSUME NEW g \in Witnesses, Explained(g), NEW m \in Positions, ReduceScatter(m)
  PROVE  Explained(g)'
<1> DEFINE G == DataParallel(m)
           p == "scatter"
<1>1. /\ config \in Configs /\ dp \in config.dp_sizes /\ G \in SUBSET Ranks /\ Ranks = RanksOf(dp)
      /\ \A r \in G : r[2] = m
      /\ <<0, m>> \in G /\ \A r \in G, q \in Ranks : r[2] = q[2] => q \in G
  BY DataGroup
<1>2. /\ At(G, p) /\ GotoAfter(G, p)
      /\ UNCHANGED <<config, dp, params, main_params, main_grads, scaler, results, disk, restarts>>
      /\ buffer' = [r \in Ranks |->
           IF r \notin G THEN buffer[r]
           ELSE [j \in Cells(m) |-> IF ViewOf(m, j) = r[1] THEN ReducedCell(m, j) ELSE Divided(buffer[r][j])]]
  <2> HIDE DEF G
  <2>1. PICK H : H = DataParallel(m)
    OBVIOUS
  <2> QED BY <2>1 DEF ReduceScatter, G
<1>3. config.distributed /\ SharedFirst(config) /\ Number(config, p) = 2 /\ p = Second(config)
  <2>1. p \in Phases(config)
    BY <1>1, <1>2, OfRank DEF At
  <2>2. config.shared \in {"embedding", "layernorm"} /\ p # First(config)
    BY <1>1, Job, PhasesAre
  <2>3. p = Second(config)
    BY <2>1, <2>2 DEF Phases
  <2> QED BY <1>1, <2>2, <2>3, PhasesAre DEF Second, SharedFirst
<1> HIDE DEF G, p
<1>4. \A r \in G : Number(config, pc[r]) = 2
  BY <1>2, <1>3 DEF At
<1>5. ASSUME NEW r \in G, NEW e \in ElementsOf(config, r[2]), e \in OwnedBy(config, dp, r)
      PROVE  buffer'[r][CellAt(config, r[2], e)] = Piece(config, dp, g, Len(results[r]) + 1, r, e, 3)
  <2>1. r[2] = m /\ r \in Ranks
    BY <1>1
  <2>2. CellAt(config, m, e) \in Cells(m)
    BY <1>1, <2>1, CellInBuffer, Terms
  <2>3. ViewOf(m, CellAt(config, m, e)) = r[1]
    <3>1. r[1] = SliceOf(config, dp, m, e)
      BY <1>1, <1>3, <1>5, <2>1, OwnedIs
    <3>2. NumelPadded(Numel(config, m), dp) \div dp = ShardSize(Numel(config, m), dp)
      BY <1>1, <1>3, <2>1, Owner
    <3> QED BY <3>1, <3>2 DEF ViewOf, SliceOf
  <2>4. buffer'[r][CellAt(config, m, e)] = ReducedCell(m, CellAt(config, m, e))
    BY <1>2, <2>1, <2>2, <2>3
  <2>5. ReducedCell(m, CellAt(config, m, e)) = Piece(config, dp, g, Len(results[r]) + 1, r, e, 2 + 1)
    BY <1>3, <1>4, <2>1, ReducedPiece DEF G
  <2> QED BY <2>1, <2>4, <2>5
<1>6. \A r \in G, q \in Ranks : Meet(config, 2, r, q) => q \in G
  BY <1>1, <1>3 DEF Meet
<1>7. Reduces(g, G, 2, p)
  <2>1. /\ DOMAIN buffer' = Ranks /\ \A r \in Ranks \ G : buffer'[r] = buffer[r]
        /\ \A r \in G : DOMAIN buffer'[r] = Cells(r[2])
    BY <1>1, <1>2
  <2>2. 2 + 1 = 3
    OBVIOUS
  <2> QED BY <1>1, <1>2, <1>3, <1>5, <1>6, <2>1, <2>2 DEF Reduces
<1> QED BY <1>7, Reduced

-----------------------------------------------------------------------------
(***************************************************************************)
(* From the gradients to the decision on the step.                         *)
(***************************************************************************)

\* What a loss scaler is.
ScalerType == [scale : Int, growth : 0 .. GrowthInterval - 1, hysteresis : Int]

\* update() keeps the types.
LEMMA UpdateTyped ==
  ASSUME NEW s \in ScalerType, NEW inf \in BOOLEAN
  PROVE  Update(s, inf) \in ScalerType
<1>1. /\ s.scale \in Int /\ s.growth \in 0 .. GrowthInterval - 1 /\ s.hysteresis \in Int
      /\ GrowthInterval \in Nat \ {0} /\ Hysteresis \in Int /\ MinScale \in Int
  BY ScalerAssumption DEF ScalerType
<1>2. Overflowed(s) \in ScalerType
  BY <1>1 DEF Overflowed, Backoff, ScalerType
<1>3. Succeeded(s) \in ScalerType
  <2>1. CASE s.growth + 1 = GrowthInterval
    <3>1. Succeeded(s) = [scale |-> s.scale + 1, growth |-> 0, hysteresis |-> Hysteresis]
      BY <2>1 DEF Succeeded
    <3> QED BY <1>1, <3>1 DEF ScalerType
  <2>2. CASE s.growth + 1 # GrowthInterval
    <3>1. Succeeded(s) = [s EXCEPT !.growth = @ + 1]
      BY <2>2 DEF Succeeded
    <3>2. s.growth + 1 \in 0 .. GrowthInterval - 1
      BY <1>1, <2>2
    <3> QED BY <3>1, <3>2 DEF ScalerType
  <2> QED BY <2>1, <2>2
<1> QED BY <1>2, <1>3 DEF Update

\* A history makes a loss scaler.
LEMMA ScalerTyped ==
  ASSUME NEW h \in Seq(BOOLEAN), NEW c
  PROVE  Expected(c, h) \in ScalerType
<1> DEFINE T == {l \in Nat : \A x \in Seq(BOOLEAN) : Len(x) = l => ScalerAfter(x) \in ScalerType}
<1>1. NewScaler \in ScalerType
  BY ScalerAssumption DEF NewScaler, ScalerType
<1>2. 0 \in T
  <2>1. \A x \in Seq(BOOLEAN) : Len(x) = 0 => x = <<>>
    OBVIOUS
  <2>2. ScalerAfter(<<>>) = NewScaler
    BY ScalerAtStart
  <2> QED BY <1>1, <2>1, <2>2
<1>3. ASSUME NEW l \in T PROVE l + 1 \in T
  <2>1. l \in Nat /\ \A x \in Seq(BOOLEAN) : Len(x) = l => ScalerAfter(x) \in ScalerType
    OBVIOUS
  <2>2. ASSUME NEW x \in Seq(BOOLEAN), Len(x) = l + 1 PROVE ScalerAfter(x) \in ScalerType
    <3> DEFINE y == SubSeq(x, 1, l)
    <3>1. y \in Seq(BOOLEAN) /\ Len(y) = l /\ x[l + 1] \in BOOLEAN
      BY <2>1, <2>2
    <3>2. x = Append(y, x[l + 1])
      <4>1. Append(y, x[l + 1]) \in Seq(BOOLEAN) /\ Len(Append(y, x[l + 1])) = Len(x)
        BY <2>2, <3>1
      <4>2. ASSUME NEW i \in 1 .. Len(x) PROVE x[i] = Append(y, x[l + 1])[i]
        BY <2>1, <2>2, <3>1
      <4> QED BY <4>1, <4>2, SeqEqual
    <3> HIDE DEF y
    <3>3. ScalerAfter(Append(y, x[l + 1])) = Update(ScalerAfter(y), ~x[l + 1])
      BY <3>1, ScalerStep
    <3>4. ScalerAfter(y) \in ScalerType
      BY <2>1, <3>1
    <3>5. (~x[l + 1]) \in BOOLEAN
      OBVIOUS
    <3>6. Update(ScalerAfter(y), ~x[l + 1]) \in ScalerType
      BY <3>4, <3>5, UpdateTyped
    <3> QED BY <3>2, <3>3, <3>6
  <2> QED BY <2>1, <2>2
<1>4. T = Nat
  <2>1. T \in SUBSET Nat
    OBVIOUS
  <2> HIDE DEF T
  <2> QED BY <1>2, <1>3, <2>1, SetInduction
<1>5. ScalerAfter(h) \in ScalerType
  <2>1. Len(h) \in T
    BY <1>4
  <2> QED BY <2>1
<1> QED BY <1>1, <1>5 DEF Expected

\* The scaler of a rank by the steps that are in it.
LEMMA ScalerOfRank ==
  ASSUME NEW g \in Witnesses, Explained(g), ScalersInv, NEW r \in Ranks
  PROVE  /\ Number(config, pc[r]) <= 4 => scaler[r] = Expected(config, Hist(g, Len(results[r])))
         /\ Number(config, pc[r]) > 4 => scaler[r] = Expected(config, Hist(g, Len(results[r]) + 1))
         /\ scaler[r] \in ScalerType
<1>1. /\ config \in Configs /\ pc[r] \in Phases(config) /\ Number(config, pc[r]) \in 0 .. 6
      /\ HistoryOK(config, dp, g, pc[r], results[r])
      /\ Len(results[r]) \in 0 .. MaxSteps /\ results[r] = Hist(g, Len(results[r]))
  BY OfRank
<1>2. scaler[r] = Expected(config, Seen(r)) /\ Seen(r) \in Seq(BOOLEAN)
  <2>1. scaler[r] = Expected(config, Seen(r)) /\ results[r] \in Seq(BOOLEAN)
    BY DEF ScalersInv
  <2>2. Append(results[r], TRUE) \in Seq(BOOLEAN)
    BY <2>1
  <2>3. Seen(r) = results[r] \/ Seen(r) = Append(results[r], TRUE)
    BY DEF Seen
  <2> QED BY <2>1, <2>2, <2>3
<1>3. Number(config, pc[r]) > 4 <=> pc[r] \in Pending
  BY <1>1, PhaseOfNumber DEF Pending
<1>4. CASE Number(config, pc[r]) > 4
  <2>1. Len(results[r]) < MaxSteps /\ g[Len(results[r]) + 1] = TRUE
    <3>1. Len(results[r]) < MaxSteps /\ g[Len(results[r]) + 1]
      BY <1>1, <1>4 DEF HistoryOK
    <3>2. Len(results[r]) + 1 \in 1 .. MaxSteps
      BY <1>1, <3>1, BoundsAssumption
    <3> QED BY <3>1, <3>2
  <2>2. Seen(r) = Append(Hist(g, Len(results[r])), TRUE)
    BY <1>1, <1>3, <1>4 DEF Seen
  <2>3. Append(Hist(g, Len(results[r])), g[Len(results[r]) + 1]) = Hist(g, Len(results[r]) + 1)
    BY <1>1, <2>1, HistIs DEF Witnesses
  <2>4. Seen(r) = Hist(g, Len(results[r]) + 1)
    BY <2>1, <2>2, <2>3
  <2>5. scaler[r] \in ScalerType
    BY <1>2, ScalerTyped
  <2>6. ~(Number(config, pc[r]) <= 4)
    BY <1>1, <1>4
  <2> QED BY <1>2, <2>4, <2>5, <2>6
<1>5. CASE ~(Number(config, pc[r]) > 4)
  BY <1>1, <1>2, <1>3, <1>5, ScalerTyped DEF Seen
<1> QED BY <1>4, <1>5

\* The unscaling of a rank's gradients.
LEMMA RankUnscaled ==
  ASSUME NEW c \in Configs, NEW n, NEW g, NEW r, NEW p, Number(c, p) = 3,
         NEW buf, NEW par, NEW main, NEW grads, NEW h, NEW grads2,
         RankOK(c, n, g, r, p, buf, par, main, grads, h),
         grads2 = [e \in OwnedBy(c, n, r) |-> MainGrad(c, n, g, Len(h) + 1, e)]
  PROVE  RankOK(c, n, g, r, "found_inf", buf, par, main, grads2, h)
<1>1. Number(c, "found_inf") = 4 /\ "found_inf" \in Phases(c)
  BY PhasesAre DEF Phases
<1>2. HistoryOK(c, n, g, "found_inf", h)
  BY <1>1 DEF RankOK, HistoryOK
<1>3. BufferOK(c, n, g, r, "found_inf", buf, main, h)
  BY <1>1 DEF RankOK, BufferOK
<1>4. GradsOK(c, n, g, r, "found_inf", grads2, h) /\ MainOK(c, n, g, r, "found_inf", main, h)
  BY <1>1 DEF RankOK, GradsOK, MainOK
<1> QED BY <1>2, <1>3, <1>4 DEF RankOK

\* Unscaling keeps the state explained.
LEMMA UnscaleKeeps ==
  ASSUME NEW g \in Witnesses, Explained(g), ScalersInv, NEW r \in Ranks, Unscale(r)
  PROVE  Explained(g)'
<1> DEFINE k == Len(results[r]) + 1
<1>1. /\ config \in Configs /\ dp \in config.dp_sizes /\ r[2] \in Positions /\ r \in RanksOf(dp)
      /\ RankOK(config, dp, g, r, pc[r], buffer[r], params[r], main_params[r], main_grads[r], results[r])
      /\ Len(results[r]) \in 0 .. MaxSteps
  BY OfRank
<1>2. /\ pc[r] = "unscale"
      /\ main_grads' = [main_grads EXCEPT ![r] =
           [e \in Owned(r) |-> Unscaled(r, buffer[r][CellOf(r[2], e)])]]
      /\ pc' = [q \in Ranks |-> IF q \in {r} THEN "found_inf" ELSE pc[q]]
      /\ UNCHANGED <<config, dp, buffer, params, main_params, scaler, results, disk, restarts>>
  BY DEF Unscale, Goto
<1>3. Number(config, pc[r]) = 3 /\ Number(config, pc'[r]) = 4 /\ pc'[r] = "found_inf"
  BY <1>1, <1>2, PhasesAre
<1>4. scaler[r].scale = Expected(config, Hist(g, k - 1)).scale /\ scaler[r].scale \in Int
  <2>1. scaler[r] = Expected(config, Hist(g, Len(results[r]))) /\ scaler[r] \in ScalerType
    BY <1>3, ScalerOfRank
  <2>2. k - 1 = Len(results[r])
    BY <1>1
  <2> QED BY <2>1, <2>2 DEF ScalerType
<1>5. ASSUME NEW e \in OwnedBy(config, dp, r)
      PROVE  Unscaled(r, buffer[r][CellOf(r[2], e)]) = MainGrad(config, dp, g, k, e)
  <2>1. e \in ElementsOf(config, r[2])
    BY <1>1, OwnedIs
  <2>2. CellOf(r[2], e) = CellAt(config, r[2], e)
    BY <1>1, <2>1, Terms
  <2> DEFINE from == (0 .. dp-1) \X Holders(config, e)
             inf == Infinite(config, g, k, e, from)
             s == Expected(config, Hist(g, k - 1)).scale
  <2>3. buffer[r][CellAt(config, r[2], e)] = Piece(config, dp, g, k, r, e, 3)
    BY <1>1, <1>3, <2>1 DEF RankOK, BufferOK
  <2>4. Piece(config, dp, g, k, r, e, 3) = GradOf(e, from, 1, s, inf)
    BY DEF Piece, From
  <2>5. MainGrad(config, dp, g, k, e) = GradOf(e, from, 1, 0, inf)
    BY DEF MainGrad, From
  <2> HIDE DEF from, inf, s
  <2>6. Unscaled(r, GradOf(e, from, 1, s, inf)) = GradOf(e, from, 1, s - scaler[r].scale, inf)
    BY DEF Unscaled, GradOf
  <2>7. s - scaler[r].scale = 0
    BY <1>4 DEF s
  <2> QED BY <2>2, <2>3, <2>4, <2>5, <2>6, <2>7
<1>6. main_grads'[r] = [e \in OwnedBy(config, dp, r) |-> MainGrad(config, dp, g, k, e)]
      /\ \A q \in Ranks \ {r} : main_grads'[q] = main_grads[q]
  <2>1. Owned(r) = OwnedBy(config, dp, r)
    BY <1>1, Terms
  <2>2. r \in DOMAIN main_grads
    BY DEF Explained
  <2> QED BY <1>2, <1>5, <2>1, <2>2
<1>7. Rest({r})
  BY <1>2, <1>6 DEF Rest, Explained
<1>8. Leaves({r}, 3, 3)
  <2>1. \A j \in 1 .. 6 : 3 <= j /\ j <= 3 => j = 3
    OBVIOUS
  <2>2. \A q \in Ranks : ~Meet(config, 3, r, q)
    BY DEF Meet
  <2> QED BY <1>2, <1>3, <2>1, <2>2 DEF Leaves
<1>9. RankOK(config, dp, g, r, pc'[r], buffer'[r], params'[r], main_params'[r], main_grads'[r], results'[r])
  BY <1>1, <1>2, <1>3, <1>6, RankUnscaled
<1> QED BY <1>7, <1>8, <1>9, Move

\* The ranks of a model-parallel group.
LEMMA ModelGroup ==
  ASSUME NEW g \in Witnesses, Explained(g), NEW x \in Ranks
  PROVE  LET G == ModelParallelGroup(x)
         IN /\ G \in SUBSET Ranks /\ x \in G
            /\ config.distributed => G = Ranks
            /\ ~config.distributed => G = {x[1]} \X Positions
            /\ \A r \in G, q \in Ranks, j \in {4, 5} : Meet(config, j, r, q) <=> q \in G
            /\ \A r \in G, q \in Ranks : Meet(config, 6, r, q) => q \in G
<1>1. /\ config \in Configs /\ dp \in config.dp_sizes /\ x[1] \in 0 .. dp-1 /\ x[2] \in Positions
      /\ Ranks = RanksOf(dp) /\ x = <<x[1], x[2]>> /\ x \in RanksOf(dp)
  BY OfRank DEF Ranks
<1>2. Replica(x[1]) = {x[1]} \X Positions
  BY <1>1, Terms
<1>3. CASE config.distributed
  BY <1>3 DEF ModelParallelGroup, Meet
<1>4. CASE ~config.distributed
  <2>1. ModelParallelGroup(x) = {x[1]} \X Positions
    BY <1>2, <1>4 DEF ModelParallelGroup
  <2>2. \A q \in RanksOf(dp) : q \in {x[1]} \X Positions <=> q[1] = x[1]
    BY <1>1 DEF RanksOf
  <2>3. {x[1]} \X Positions \in SUBSET RanksOf(dp)
    BY <1>1 DEF RanksOf
  <2>4. \A j \in {4, 5} : ~(j = 1) /\ ~(j = 2) /\ ~(j = 6)
    OBVIOUS
  <2>5. ~(6 = 1) /\ ~(6 = 2) /\ 6 \notin {4, 5}
    OBVIOUS
  <2>6. \A r, q \in RanksOf(dp), j \in {4, 5} : Meet(config, j, r, q) <=> r[1] = q[1]
    BY <1>4, <2>4 DEF Meet
  <2>7. \A r, q \in RanksOf(dp) : ~Meet(config, 6, r, q)
    BY <1>4, <2>5 DEF Meet
  <2> QED BY <1>1, <1>4, <2>1, <2>2, <2>3, <2>6, <2>7
<1> QED BY <1>3, <1>4

\* An element that the rank that may overflow has an infinite gradient for.
LEMMA OverflowElement ==
  ASSUME NEW c \in Configs, NEW n \in c.dp_sizes, Effective(c, n)
  PROVE  LET e == <<c.overflow.name, 0>>
         IN /\ e \in ElementsOf(c, c.overflow.position) /\ c.overflow.position \in Positions
            /\ c.overflow.dp \in 0 .. n-1
            /\ Overflower(c) \in (0 .. n-1) \X Holders(c, e)
<1> DEFINE e == <<c.overflow.name, 0>>
           m == c.overflow.position
<1>1. m \in Positions /\ c.overflow.dp \in 0 .. n-1 /\ c.overflow.name \in Names(c, m)
  BY DEF Effective, Overflower, RanksOf
<1>2. c.size[c.overflow.name] \in Nat \ {0}
  BY <1>1, ConfigsAssumption DEF Names
<1>3. 0 \in 0 .. c.size[c.overflow.name] - 1
  BY <1>2
<1>4. e \in ElementsOf(c, m)
  BY <1>1, <1>3 DEF ElementsOf
<1> QED BY <1>1, <1>4 DEF Overflower, Holders

\* Some rank of a model-parallel group owns any element of its replica.
LEMMA SomeOwner ==
  ASSUME NEW g \in Witnesses, Explained(g), NEW x \in Ranks, NEW m \in Positions,
         NEW e \in ElementsOf(config, m)
  PROVE  \E r \in ModelParallelGroup(x) : r[2] = m /\ e \in OwnedBy(config, dp, r)
<1>1. /\ config \in Configs /\ dp \in config.dp_sizes /\ x[1] \in 0 .. dp-1 /\ Ranks = RanksOf(dp)
  BY OfRank DEF Ranks
<1>2. CASE config.distributed
  <2> DEFINE d == SliceOf(config, dp, m, e)
  <2>1. d \in 0 .. dp-1 /\ e \in OwnedBy(config, dp, <<d, m>>)
    BY <1>1, <1>2, Owner
  <2>2. <<d, m>> \in ModelParallelGroup(x)
    BY <1>1, <1>2, <2>1, ModelGroup DEF RanksOf
  <2> HIDE DEF d
  <2> QED BY <2>1, <2>2
<1>3. CASE ~config.distributed
  <2>1. <<x[1], m>> \in ModelParallelGroup(x)
    BY <1>3, ModelGroup
  <2>2. e \in OwnedBy(config, dp, <<x[1], m>>)
    BY <1>1, <1>3, AllOwned
  <2> QED BY <2>1, <2>2
<1> QED BY <1>2, <1>3

\* The ranks of the group are in one step.
LEMMA SameStepInGroup ==
  ASSUME NEW g \in Witnesses, Explained(g), NEW x \in Ranks, NEW i \in {4, 5},
         \A r \in ModelParallelGroup(x) : Number(config, pc[r]) = i
  PROVE  \A r \in ModelParallelGroup(x) : Len(results[r]) = Len(results[x])
<1> TAKE r \in ModelParallelGroup(x)
<1>1. r \in Ranks /\ x \in ModelParallelGroup(x) /\ Meet(config, i, r, x)
  BY ModelGroup
<1>2. i \in 1 .. 6 /\ Number(config, pc[r]) <= i /\ Number(config, pc[x]) <= i
  BY <1>1
<1> QED BY <1>1, <1>2, SameStep

\* The group finds an infinite gradient when the step is not applied.
LEMMA InfFound ==
  ASSUME NEW g \in Witnesses, Explained(g), NEW x \in Ranks,
         At(ModelParallelGroup(x), "found_inf")
  PROVE  (\E r \in ModelParallelGroup(x) : IsInf(r)) <=> ~g[Len(results[x]) + 1]
<1> DEFINE G == ModelParallelGroup(x)
           k == Len(results[x]) + 1
<1>1. /\ config \in Configs /\ dp \in config.dp_sizes /\ G \in SUBSET Ranks /\ x \in G
  BY ModelGroup, OfRank
<1>2. \A r \in G : Number(config, pc[r]) = 4
  BY <1>1, PhasesAre DEF At
<1>3. \A r \in G : Len(results[r]) = Len(results[x])
  BY <1>2, SameStepInGroup
<1> DEFINE inf(e) == Infinite(config, g, k, e, (0 .. dp-1) \X Holders(config, e))
<1>4. ASSUME NEW r \in G
      PROVE  /\ DOMAIN main_grads[r] = OwnedBy(config, dp, r)
             /\ \A e \in OwnedBy(config, dp, r) : /\ main_grads[r][e].kind = "grad"
                                                  /\ main_grads[r][e].inf <=> inf(e)
  <2>1. r \in Ranks /\ Number(config, pc[r]) \in {4, 5}
    BY <1>1, <1>2
  <2>2. main_grads[r] = [e \in OwnedBy(config, dp, r) |-> MainGrad(config, dp, g, k, e)]
    BY SMTT(60), <1>3, <2>1, OfRank DEF RankOK, GradsOK
  <2>3. \A e : MainGrad(config, dp, g, k, e) = GradOf(e, (0 .. dp-1) \X Holders(config, e), 1, 0, inf(e))
    BY DEF MainGrad, From
  <2> HIDE DEF inf
  <2>5. \A e, f, b : GradOf(e, f, 1, 0, b).kind = "grad" /\ GradOf(e, f, 1, 0, b).inf = b
    BY DEF GradOf
  <2>4. \A e : /\ MainGrad(config, dp, g, k, e).kind = "grad"
               /\ MainGrad(config, dp, g, k, e).inf = inf(e)
    <3> TAKE e
    <3>1. PICK f, b : f = (0 .. dp-1) \X Holders(config, e) /\ b = inf(e)
      OBVIOUS
    <3>2. MainGrad(config, dp, g, k, e) = GradOf(e, f, 1, 0, b)
      BY <2>3, <3>1
    <3> QED BY <2>5, <3>1, <3>2
  <2> QED BY <2>2, <2>4
<1>5. ASSUME NEW r \in G, IsInf(r) PROVE ~g[k]
  <2>1. \E e \in OwnedBy(config, dp, r) : inf(e)
    BY <1>4, <1>5 DEF IsInf
  <2> QED BY <2>1 DEF Infinite
<1>6. ASSUME ~g[k] PROVE \E r \in G : IsInf(r)
  <2> DEFINE e == <<config.overflow.name, 0>>
             m == config.overflow.position
  <2>1. k \in 1 .. MaxSteps /\ k \in Len(results[x]) + 1 .. MaxSteps
    <3>1. Number(config, pc[x]) > 0
      BY <1>1, <1>2
    <3>2. k \in 1 .. MaxSteps /\ Len(results[x]) \in 0 .. MaxSteps
      BY <3>1, OfRank
    <3> HIDE DEF k
    <3> QED BY <3>2, BoundsAssumption DEF k
  <2>2. Effective(config, dp)
    BY <1>6, <2>1, OfRank DEF HistoryOK
  <2>3. e \in ElementsOf(config, m) /\ m \in Positions
        /\ Overflower(config) \in (0 .. dp-1) \X Holders(config, e)
    BY <1>1, <2>2, OverflowElement
  <2>4. PICK r \in G : e \in OwnedBy(config, dp, r)
    BY <2>3, SomeOwner
  <2>5. inf(e)
    BY <1>6, <2>3 DEF Infinite
  <2> QED BY <1>4, <2>4, <2>5 DEF IsInf
<1> QED BY <1>5, <1>6

\* A rank goes on to its optimizer's step, ...
LEMMA RankApplies ==
  ASSUME NEW c \in Configs, NEW n, NEW g, NEW r, NEW p, Number(c, p) = 4,
         NEW buf, NEW par, NEW main, NEW grads, NEW h,
         RankOK(c, n, g, r, p, buf, par, main, grads, h), g[Len(h) + 1]
  PROVE  RankOK(c, n, g, r, "clip", buf, par, main, grads, h)
<1>1. Number(c, "clip") = 5 /\ "clip" \in Phases(c)
  BY PhasesAre DEF Phases
<1>2. HistoryOK(c, n, g, "clip", h)
  BY <1>1 DEF RankOK, HistoryOK
<1>3. BufferOK(c, n, g, r, "clip", buf, main, h)
  BY <1>1 DEF RankOK, BufferOK
<1>4. GradsOK(c, n, g, r, "clip", grads, h) /\ MainOK(c, n, g, r, "clip", main, h)
  BY <1>1 DEF RankOK, GradsOK, MainOK
<1> QED BY <1>2, <1>3, <1>4 DEF RankOK

\* ... or has finished the step.
Finished(c, n, g, r, buf, par, main, h) ==
  /\ Len(h) \in 0 .. MaxSteps /\ h = Hist(g, Len(h)) /\ Len(h) < MaxSteps
  /\ \A k \in Len(h) + 1 .. MaxSteps : g[k] \/ Effective(c, n)
  /\ DOMAIN buf = 0 .. NumelPadded(Numel(c, r[2]), n) - 1
  /\ par = [e \in ElementsOf(c, r[2]) |-> Value(e, AppliedIn(g, Len(h) + 1))]
  /\ main = [e \in OwnedBy(c, n, r) |-> Value(e, AppliedIn(g, Len(h) + 1))]

\* Such a rank has finished the step.
LEMMA RankFinishes ==
  ASSUME NEW c \in Configs, NEW n, NEW g \in Witnesses, NEW r, NEW buf, NEW par, NEW main, NEW h,
         Finished(c, n, g, r, buf, par, main, h)
  PROVE  \E h2 : /\ h2 = Append(h, g[Len(h) + 1]) /\ Len(h2) = Len(h) + 1
                 /\ \A grads : RankOK(c, n, g, r, "train", buf, par, main, grads, h2)
<1> USE DEF Finished
<1> DEFINE h2 == Append(h, g[Len(h) + 1])
<1>1. Len(h) \in 0 .. MaxSteps /\ Len(h) + 1 \in 0 .. MaxSteps /\ MaxSteps \in Nat
  BY BoundsAssumption
<1>2. h2 = Hist(g, Len(h) + 1) /\ Len(h2) = Len(h) + 1
  <2>1. Append(Hist(g, Len(h)), g[Len(h) + 1]) = Hist(g, Len(h) + 1)
    BY <1>1, HistIs DEF Witnesses
  <2>2. Len(Hist(g, Len(h) + 1)) = Len(h) + 1
    BY <1>1, HistIs DEF Witnesses
  <2> QED BY <2>1, <2>2
<1> HIDE DEF h2
<1>3. Number(c, "train") = 0 /\ "train" \in Phases(c)
  BY PhasesAre DEF Phases
<1>4. \A k \in Len(h2) + 1 .. MaxSteps : g[k] \/ Effective(c, n)
  BY <1>1, <1>2
<1>5. HistoryOK(c, n, g, "train", h2)
  <2>1. Len(h2) \in 0 .. MaxSteps /\ h2 = Hist(g, Len(h2))
    BY <1>1, <1>2
  <2> QED BY <1>3, <1>4, <2>1 DEF HistoryOK
<1>6. BufferOK(c, n, g, r, "train", buf, main, h2)
  BY <1>3 DEF BufferOK
<1>7. \A grads : GradsOK(c, n, g, r, "train", grads, h2)
  BY <1>3 DEF GradsOK
<1>8. AppliedIn(g, Len(h2)) + 0 = AppliedIn(g, Len(h) + 1)
  <2>1. AppliedIn(g, Len(h) + 1) \in 0 .. Len(h) + 1
    BY <1>1, HistIs DEF Witnesses
  <2> QED BY <1>1, <1>2, <2>1
<1>9. ParamsOK(c, g, r[2], par, Len(h2)) /\ MainOK(c, n, g, r, "train", main, h2)
  BY <1>2, <1>3, <1>8 DEF ParamsOK, MainOK
<1> QED BY <1>2, <1>5, <1>6, <1>7, <1>9 DEF RankOK, h2

\* The decision on a step keeps the state explained.
LEMMA FoundInfKeeps ==
  ASSUME NEW g \in Witnesses, Explained(g), NEW x \in Ranks, FoundInf(ModelParallelGroup(x))
  PROVE  Explained(g)'
<1> DEFINE G == ModelParallelGroup(x)
           k == Len(results[x]) + 1
           found_inf == \E r \in G : IsInf(r)
<1>1. /\ config \in Configs /\ dp \in config.dp_sizes /\ G \in SUBSET Ranks /\ x \in G
      /\ config.distributed => G = Ranks
      /\ \A r \in G, q \in Ranks, j \in {4, 5} : Meet(config, j, r, q) <=> q \in G
      /\ \A r \in G, q \in Ranks : Meet(config, 6, r, q) => q \in G
  BY ModelGroup, OfRank
<1>2. /\ At(G, "found_inf")
      /\ pc' = [r \in Ranks |-> IF r \in G THEN IF found_inf THEN "train" ELSE "clip" ELSE pc[r]]
      /\ results' = [r \in Ranks |-> IF r \in G /\ found_inf THEN Append(results[r], FALSE) ELSE results[r]]
      /\ DOMAIN scaler' = Ranks
      /\ UNCHANGED <<config, dp, buffer, params, main_params, main_grads, disk, restarts>>
  BY DEF FoundInf, Goto
<1>3. found_inf <=> ~g[k]
  BY <1>2, InfFound
<1> HIDE DEF G, found_inf
<1>4. \A r \in G : Number(config, pc[r]) = 4
  BY <1>1, <1>2, PhasesAre DEF At
<1>5. \A r \in G : Len(results[r]) = Len(results[x])
  BY <1>4, SameStepInGroup DEF G
<1>6. Rest(G)
  BY <1>2 DEF Rest, Explained
<1>7. CASE ~found_inf
  <2>1. \A r \in G : pc'[r] = "clip" /\ results'[r] = results[r]
    BY <1>1, <1>2, <1>7
  <2>2. Leaves(G, 4, 4)
    <3>1. Number(config, "clip") = 4 + 1
      BY <1>1, PhasesAre
    <3>2. \A j \in 1 .. 6 : 4 <= j /\ j <= 4 => j \in {4, 5}
      OBVIOUS
    <3> QED BY <1>1, <1>4, <2>1, <3>1, <3>2 DEF Leaves
  <2>3. ASSUME NEW r \in G
        PROVE  RankOK(config, dp, g, r, pc'[r], buffer'[r], params'[r], main_params'[r], main_grads'[r], results'[r])
    <3>1. RankOK(config, dp, g, r, pc[r], buffer[r], params[r], main_params[r], main_grads[r], results[r])
      BY <1>1, OfRank
    <3>2. g[Len(results[r]) + 1]
      BY <1>3, <1>5, <1>7
    <3> QED BY <1>1, <1>2, <1>4, <2>1, <3>1, <3>2, RankApplies
  <2> QED BY <1>6, <2>2, <2>3, Move
<1>8. CASE found_inf
  <2>1. \A r \in G : pc'[r] = "train" /\ results'[r] = Append(results[r], FALSE)
    BY <1>1, <1>2, <1>8
  <2>2. ASSUME NEW r \in G
        PROVE  /\ RankOK(config, dp, g, r, pc'[r], buffer'[r], params'[r], main_params'[r], main_grads'[r], results'[r])
               /\ Len(results'[r]) = Len(results[r]) + 1
    <3>1. /\ RankOK(config, dp, g, r, pc[r], buffer[r], params[r], main_params[r], main_grads[r], results[r])
          /\ Len(results[r]) \in 0 .. MaxSteps /\ Len(results[r]) + 1 \in 1 .. MaxSteps
      BY <1>1, <1>4, OfRank
    <3>2. g[Len(results[r]) + 1] = FALSE
      BY <1>3, <1>5, <1>8, <3>1 DEF Witnesses
    <3>3. Len(results[r]) < MaxSteps
      BY <3>1, BoundsAssumption
    <3>4. AppliedIn(g, Len(results[r]) + 1) = AppliedIn(g, Len(results[r])) /\ AppliedIn(g, Len(results[r])) \in Int
      <4>1. /\ AppliedIn(g, Len(results[r])) \in 0 .. Len(results[r])
            /\ AppliedIn(g, Len(results[r]) + 1)
                 = AppliedIn(g, Len(results[r])) + (IF g[Len(results[r]) + 1] THEN 1 ELSE 0)
        BY <3>1, <3>3, HistIs DEF Witnesses
      <4> QED BY <3>2, <4>1
    <3>5. Finished(config, dp, g, r, buffer[r], params[r], main_params[r], results[r])
      BY <1>4, <3>1, <3>3, <3>4 DEF Finished, RankOK, HistoryOK, BufferOK, ParamsOK, MainOK
    <3>6. /\ RankOK(config, dp, g, r, "train", buffer[r], params[r], main_params[r], main_grads[r],
                    Append(results[r], g[Len(results[r]) + 1]))
          /\ Len(Append(results[r], g[Len(results[r]) + 1])) = Len(results[r]) + 1
      <4>1. config \in Configs /\ g \in Witnesses
        BY <1>1
      <4>3. PICK h2 : /\ h2 = Append(results[r], g[Len(results[r]) + 1]) /\ Len(h2) = Len(results[r]) + 1
                      /\ \A grads : RankOK(config, dp, g, r, "train", buffer[r], params[r], main_params[r], grads, h2)
        BY ONLY <3>5, <4>1, RankFinishes, ZenonT(60)
      <4> QED BY <4>3
    <3> QED BY <1>2, <2>1, <3>2, <3>6
  <2>3. Leaves(G, 4, 6)
    <3>1. Number(config, "train") = 0
      BY <1>1, PhasesAre
    <3>2. \A j \in 1 .. 6 : 4 <= j /\ j <= 6 => j \in {4, 5} \/ j = 6
      OBVIOUS
    <3>3. \A j \in 1 .. 6 : 4 <= j /\ j <= 6 => \A r \in G, q \in Ranks : Meet(config, j, r, q) => q \in G
      BY <1>1, <3>2
    <3>4. \A r \in G : Number(config, pc'[r]) = 0 /\ Len(results'[r]) = Len(results[r]) + 1
      BY <2>1, <2>2, <3>1
    <3>5. 4 \in 0 .. 6 /\ 6 \in {4, 6}
      OBVIOUS
    <3> QED BY ONLY <1>1, <1>4, <3>3, <3>4, <3>5 DEF Leaves
  <2> QED BY <1>6, <2>2, <2>3, Move
<1> QED BY <1>7, <1>8

-----------------------------------------------------------------------------
(***************************************************************************)
(* The optimizer's step.                                                   *)
(***************************************************************************)

\* The rank of a model-parallel group that counts an element in the norm.
LEMMA CountedOnce ==
  ASSUME NEW g \in Witnesses, Explained(g), NEW x \in Ranks, NEW l \in Positions,
         NEW e \in ElementsOf(config, l)
  PROVE  \E r \in ModelParallelGroup(x) :
           {q \in ModelParallelGroup(x) : e \in Owned(q) /\ InNorm(q, e)} = {r}
<1> DEFINE G == ModelParallelGroup(x)
<1>1. /\ config \in Configs /\ dp \in config.dp_sizes /\ Ranks = RanksOf(dp) /\ x[1] \in 0 .. dp-1
      /\ G \in SUBSET Ranks /\ (~config.distributed => G = {x[1]} \X Positions)
  BY ModelGroup, OfRank DEF Ranks
<1>2. \A q \in G : /\ q[1] \in 0 .. dp-1 /\ q[2] \in Positions /\ q = <<q[1], q[2]>>
                   /\ Owned(q) = OwnedBy(config, dp, q)
  BY <1>1, Terms DEF RanksOf
<1>3. PICK m \in Positions :
        /\ e \in ElementsOf(config, m) /\ (e[1] \in SharedNames => m = 0)
        /\ \A q \in G : e \in ElementsOf(config, q[2]) /\ InNorm(q, e) => q[2] = m
  <2>1. CASE e[1] \in SharedNames
    <3>1. e \in ElementsOf(config, 0) /\ 0 \in Positions
      BY <1>1, <2>1, SharedElements DEF Positions
    <3> QED BY <2>1, <3>1 DEF InNorm
  <2>2. CASE e[1] \notin SharedNames
    <3>1. PICK i \in Positions : e \notin ElementsOf(config, i)
      BY <1>1, <2>2, SharedElements
    <3>2. \A q \in Positions : q = i \/ q = l
      BY <3>1 DEF Positions
    <3> QED BY <1>2, <2>2, <3>1, <3>2
  <2> QED BY <2>1, <2>2
<1>4. PICK r \in G : r[2] = m /\ e \in OwnedBy(config, dp, r)
  BY <1>3, SomeOwner
<1>5. InNorm(r, e)
  BY <1>3, <1>4 DEF InNorm
<1>6. ASSUME NEW q \in G, e \in Owned(q), InNorm(q, e) PROVE q = r
  <2>1. e \in OwnedBy(config, dp, q) /\ e \in ElementsOf(config, q[2]) /\ q[2] = m
    BY <1>2, <1>3, <1>6 DEF OwnedBy
  <2>2. CASE config.distributed
    <3>1. q \in RanksOf(dp) /\ r \in RanksOf(dp)
      BY <1>1
    <3>2. q[1] = SliceOf(config, dp, m, e)
      BY <1>1, <2>1, <2>2, <3>1, OwnedIs
    <3>3. r[1] = SliceOf(config, dp, m, e)
      BY <1>1, <1>4, <2>2, <3>1, OwnedIs
    <3> QED BY <1>2, <1>4, <2>1, <3>2, <3>3
  <2>3. CASE ~config.distributed
    <3>1. q[1] = x[1] /\ r[1] = x[1]
      BY <1>1, <2>3
    <3> QED BY <1>2, <1>4, <2>1, <3>1
  <2> QED BY <2>2, <2>3
<1> QED BY <1>2, <1>4, <1>5, <1>6

\* The norm a group computes is that of the model.
LEMMA NormIsOfModel ==
  ASSUME NEW g \in Witnesses, Explained(g), NEW x \in Ranks
  PROVE  NormOfModel(ModelParallelGroup(x)) = TRUE
<1> DEFINE G == ModelParallelGroup(x)
           S(e) == {q \in G : e \in Owned(q) /\ InNorm(q, e)}
<1>1. config \in Configs /\ dp \in config.dp_sizes
  BY DEF Explained
<1>2. ASSUME NEW e \in Elements(0) \cup Elements(Last) PROVE Cardinality(S(e)) = 1
  <2>1. PICK l \in Positions : e \in ElementsOf(config, l)
    BY <1>1, Terms DEF Positions, Last
  <2>2. PICK r \in G : S(e) = {r}
    BY <2>1, CountedOnce
  <2> QED BY <2>2, FS_Singleton
<1> QED BY <1>2 DEF NormOfModel

\* The gradients a rank steps with are those of the batch.
LEMMA StepsWithBatch ==
  ASSUME NEW g \in Witnesses, Explained(g), NEW r \in Ranks, Number(config, pc[r]) = 5
  PROVE  /\ g[Len(results[r]) + 1] = TRUE
         /\ \A e \in OwnedBy(config, dp, r) :
              Updated(r, e, TRUE) = Value(e, AppliedIn(g, Len(results[r])) + 1)
<1> DEFINE k == Len(results[r]) + 1
           n == AppliedIn(g, Len(results[r]))
<1>1. /\ config \in Configs /\ dp \in config.dp_sizes /\ Ranks = RanksOf(dp)
      /\ RankOK(config, dp, g, r, pc[r], buffer[r], params[r], main_params[r], main_grads[r], results[r])
      /\ HistoryOK(config, dp, g, pc[r], results[r])
      /\ Len(results[r]) \in 0 .. MaxSteps /\ k \in 1 .. MaxSteps
  BY OfRank DEF Ranks
<1>2. g[k] = TRUE
  <2>1. g[k]
    BY <1>1 DEF HistoryOK
  <2>2. g[k] \in BOOLEAN
    BY <1>1 DEF Witnesses
  <2> QED BY <2>1, <2>2
<1>3. n \in Nat
  BY <1>1, HistIs DEF Witnesses
<1> HIDE DEF k, n
<1>4. ASSUME NEW e \in OwnedBy(config, dp, r) PROVE Updated(r, e, TRUE) = Value(e, n + 1)
  <2>1. main_params[r][e] = Value(e, n)
    <3>1. main_params[r] = [d \in OwnedBy(config, dp, r) |-> Value(d, n + 0)]
      BY <1>1 DEF RankOK, MainOK, n
    <3> QED BY <1>3, <3>1
  <2>2. main_grads[r][e] = MainGrad(config, dp, g, k, e)
    BY <1>1 DEF RankOK, GradsOK, k
  <2> DEFINE from == (0 .. dp-1) \X Holders(config, e)
  <2>3. MainGrad(config, dp, g, k, e) = GradOf(e, from, 1, 0, FALSE)
    <3>1. Infinite(config, g, k, e, from) = FALSE
      BY <1>2 DEF Infinite
    <3>2. MainGrad(config, dp, g, k, e) = GradOf(e, from, 1, 0, Infinite(config, g, k, e, from))
      BY DEF MainGrad, From
    <3> QED BY <3>1, <3>2
  <2>4. BatchGradient(e) = GradOf(e, from, 1, 0, FALSE)
    <3>1. Contributors(e) = from
      <4>1. \A q \in RanksOf(dp) : e \in Elements(q[2]) <=> q[2] \in Holders(config, e)
        BY <1>1, Terms DEF RanksOf, Holders
      <4>2. Holders(config, e) \in SUBSET Positions
        BY DEF Holders
      <4> QED BY <1>1, <4>1, <4>2 DEF Contributors, RanksOf
    <3> HIDE DEF from
    <3>2. BatchGradient(e) = [Grad(e, from, 0, FALSE) EXCEPT !.divided = 1]
      BY <3>1 DEF BatchGradient
    <3> QED BY <3>2 DEF Grad, GradOf
  <2>5. Value(e, n).of = e /\ Value(e, n).steps = n /\ n # Wrong
    BY <1>3 DEF Value, Wrong
  <2> QED BY <2>1, <2>2, <2>3, <2>4, <2>5 DEF Updated
<1> QED BY <1>2, <1>4 DEF k, n

\* A rank of the distributed optimizer has updated its slice.
LEMMA RankSteps ==
  ASSUME NEW c \in Configs, NEW n, NEW g, NEW r, NEW p, Number(c, p) = 5, c.distributed,
         NEW buf, NEW par, NEW main, NEW grads, NEW h, NEW buf2, NEW main2,
         RankOK(c, n, g, r, p, buf, par, main, grads, h), DOMAIN buf2 = DOMAIN buf,
         main2 = [e \in OwnedBy(c, n, r) |-> Value(e, AppliedIn(g, Len(h)) + 1)],
         \A e \in OwnedBy(c, n, r) : buf2[CellAt(c, r[2], e)] = main2[e]
  PROVE  RankOK(c, n, g, r, "gather", buf2, par, main2, grads, h)
<1>1. Number(c, "gather") = 6 /\ "gather" \in Phases(c)
  BY PhasesAre DEF Phases
<1>2. HistoryOK(c, n, g, "gather", h)
  BY <1>1 DEF RankOK, HistoryOK
<1>3. BufferOK(c, n, g, r, "gather", buf2, main2, h)
  BY <1>1 DEF RankOK, BufferOK
<1>4. GradsOK(c, n, g, r, "gather", grads, h) /\ MainOK(c, n, g, r, "gather", main2, h)
  BY <1>1 DEF RankOK, GradsOK, MainOK
<1> QED BY <1>2, <1>3, <1>4 DEF RankOK

\* The step itself keeps the state explained.
LEMMA ClipAndStepKeeps ==
  ASSUME NEW g \in Witnesses, Explained(g), NEW x \in Ranks, ClipAndStep(ModelParallelGroup(x))
  PROVE  Explained(g)'
<1> DEFINE G == ModelParallelGroup(x)
           updated(r) == [e \in Owned(r) |-> Updated(r, e, TRUE)]
           of(r, j) == {e \in Owned(r) : OwnedCell(r, e) = j}
<1>1. /\ config \in Configs /\ dp \in config.dp_sizes /\ Ranks = RanksOf(dp)
      /\ G \in SUBSET Ranks /\ x \in G
      /\ config.distributed => G = Ranks
      /\ ~config.distributed => G = {x[1]} \X Positions
      /\ \A r \in G, q \in Ranks, j \in {4, 5} : Meet(config, j, r, q) <=> q \in G
      /\ \A r \in G, q \in Ranks : Meet(config, 6, r, q) => q \in G
  BY ModelGroup, OfRank DEF Ranks
<1>2. /\ At(G, "clip")
      /\ main_params' = [r \in Ranks |-> IF r \in G THEN updated(r) ELSE main_params[r]]
      /\ config.distributed =>
           /\ buffer' = [r \in Ranks |->
                IF r \notin G THEN buffer[r]
                ELSE [j \in Cells(r[2]) |->
                       IF of(r, j) = {} THEN buffer[r][j] ELSE updated(r)[CHOOSE e \in of(r, j) : TRUE]]]
           /\ pc' = [r \in Ranks |-> IF r \in G THEN "gather" ELSE pc[r]]
           /\ UNCHANGED <<params, results>>
      /\ ~config.distributed =>
           /\ params' = [r \in Ranks |-> IF r \in G THEN updated(r) ELSE params[r]]
           /\ results' = [r \in Ranks |-> IF r \in G THEN Append(results[r], TRUE) ELSE results[r]]
           /\ pc' = [r \in Ranks |-> IF r \in G THEN "train" ELSE pc[r]]
           /\ UNCHANGED buffer
      /\ UNCHANGED <<config, dp, main_grads, scaler, disk, restarts>>
  <2>1. NormOfModel(G) = TRUE
    BY NormIsOfModel
  <2> HIDE DEF G
  <2>2. PICK H : H = ModelParallelGroup(x)
    OBVIOUS
  <2>3. ClipAndStep(G)
    BY DEF G
  <2>4. \A r : [e \in Owned(r) |-> Updated(r, e, NormOfModel(G))] = updated(r)
    BY <2>1
  <2>5. At(G, "clip") /\ UNCHANGED <<config, dp, main_grads, scaler, disk, restarts>>
    BY <2>3 DEF ClipAndStep
  <2>6. main_params' = [r \in Ranks |-> IF r \in G THEN updated(r) ELSE main_params[r]]
    <3>1. main_params' = [r \in Ranks |-> IF r \in G THEN [e \in Owned(r) |-> Updated(r, e, NormOfModel(G))]
                                         ELSE main_params[r]]
      BY <2>3 DEF ClipAndStep
    <3> HIDE DEF updated
    <3> QED BY <2>4, <3>1
  <2>7. ASSUME config.distributed
        PROVE  /\ buffer' = [r \in Ranks |->
                    IF r \notin G THEN buffer[r]
                    ELSE [j \in Cells(r[2]) |->
                           IF of(r, j) = {} THEN buffer[r][j] ELSE updated(r)[CHOOSE e \in of(r, j) : TRUE]]]
               /\ pc' = [r \in Ranks |-> IF r \in G THEN "gather" ELSE pc[r]]
               /\ UNCHANGED <<params, results>>
    <3>1. buffer' = [r \in Ranks |->
                      IF r \notin G THEN buffer[r]
                      ELSE [j \in Cells(r[2]) |->
                             IF of(r, j) = {} THEN buffer[r][j]
                             ELSE [e \in Owned(r) |-> Updated(r, e, NormOfModel(G))][CHOOSE e \in of(r, j) : TRUE]]]
      BY <2>3, <2>7 DEF ClipAndStep
    <3>2. buffer' = [r \in Ranks |->
                      IF r \notin G THEN buffer[r]
                      ELSE [j \in Cells(r[2]) |->
                             IF of(r, j) = {} THEN buffer[r][j] ELSE updated(r)[CHOOSE e \in of(r, j) : TRUE]]]
      <4> HIDE DEF of
      <4> QED BY <2>1, <3>1
    <3> QED BY <2>3, <2>7, <3>2 DEF ClipAndStep, Goto
  <2>8. ASSUME ~config.distributed
        PROVE  /\ params' = [r \in Ranks |-> IF r \in G THEN updated(r) ELSE params[r]]
               /\ results' = [r \in Ranks |-> IF r \in G THEN Append(results[r], TRUE) ELSE results[r]]
               /\ pc' = [r \in Ranks |-> IF r \in G THEN "train" ELSE pc[r]]
               /\ UNCHANGED buffer
    <3>1. params' = [r \in Ranks |-> IF r \in G THEN [e \in Owned(r) |-> Updated(r, e, NormOfModel(G))]
                                    ELSE params[r]]
      BY <2>3, <2>8 DEF ClipAndStep
    <3>2. params' = [r \in Ranks |-> IF r \in G THEN updated(r) ELSE params[r]]
      <4> HIDE DEF updated
      <4> QED BY <2>4, <3>1
    <3> QED BY <2>3, <2>8, <3>2 DEF ClipAndStep, Goto
  <2> QED BY <2>5, <2>6, <2>7, <2>8
<1> HIDE DEF G
<1>3. \A r \in G : Number(config, pc[r]) = 5
  BY <1>1, <1>2, PhasesAre DEF At
<1>4. ASSUME NEW r \in G
      PROVE  /\ r \in Ranks /\ r \in RanksOf(dp) /\ r[2] \in Positions
             /\ Len(results[r]) \in 0 .. MaxSteps /\ Len(results[r]) < MaxSteps
             /\ RankOK(config, dp, g, r, pc[r], buffer[r], params[r], main_params[r], main_grads[r],
                       results[r])
             /\ g[Len(results[r]) + 1] = TRUE
             /\ AppliedIn(g, Len(results[r]) + 1) = AppliedIn(g, Len(results[r])) + 1
             /\ Owned(r) = OwnedBy(config, dp, r)
             /\ updated(r) = [e \in OwnedBy(config, dp, r) |-> Value(e, AppliedIn(g, Len(results[r])) + 1)]
  <2>1. /\ r \in Ranks /\ r \in RanksOf(dp) /\ r[2] \in Positions
        /\ Len(results[r]) \in 0 .. MaxSteps
        /\ RankOK(config, dp, g, r, pc[r], buffer[r], params[r], main_params[r], main_grads[r], results[r])
        /\ HistoryOK(config, dp, g, pc[r], results[r])
    BY <1>1, OfRank
  <2>2. Len(results[r]) < MaxSteps
    BY <1>3, <2>1 DEF HistoryOK
  <2>3. /\ g[Len(results[r]) + 1] = TRUE
        /\ \A e \in OwnedBy(config, dp, r) :
             Updated(r, e, TRUE) = Value(e, AppliedIn(g, Len(results[r])) + 1)
    BY <1>3, <2>1, StepsWithBatch
  <2>4. AppliedIn(g, Len(results[r]) + 1) = AppliedIn(g, Len(results[r])) + 1
    <3>1. AppliedIn(g, Len(results[r]) + 1)
            = AppliedIn(g, Len(results[r])) + (IF g[Len(results[r]) + 1] THEN 1 ELSE 0)
      BY <2>1, <2>2, HistIs DEF Witnesses
    <3> QED BY <2>3, <3>1
  <2>5. Owned(r) = OwnedBy(config, dp, r)
    BY <1>1, <2>1, Terms
  <2> QED BY <2>1, <2>2, <2>3, <2>4, <2>5
<1>5. CASE config.distributed
  <2>1. Rest(G)
    BY <1>1, <1>2, <1>5 DEF Rest, Explained
  <2>2. \A r \in G : pc'[r] = "gather" /\ results'[r] = results[r] /\ params'[r] = params[r]
                     /\ main_grads'[r] = main_grads[r] /\ main_params'[r] = updated(r)
    BY <1>1, <1>2, <1>5
  <2>3. Leaves(G, 5, 5)
    <3>1. Number(config, "gather") = 5 + 1
      BY <1>1, PhasesAre
    <3>2. \A j \in 1 .. 6 : 5 <= j /\ j <= 5 => j \in {4, 5}
      OBVIOUS
    <3>3. \A r \in G : Number(config, pc'[r]) = 5 + 1 /\ results'[r] = results[r]
      BY <2>2, <3>1
    <3>4. \A j \in 1 .. 6 : 5 <= j /\ j <= 5 => \A r \in G, q \in Ranks : Meet(config, j, r, q) => q \in G
      BY <1>1, <3>2
    <3>5. 5 \in 0 .. 6 /\ 5 \in {5, 6}
      OBVIOUS
    <3> QED BY ONLY <1>1, <1>3, <3>3, <3>4, <3>5 DEF Leaves
  <2>4. ASSUME NEW r \in G
        PROVE  RankOK(config, dp, g, r, pc'[r], buffer'[r], params'[r], main_params'[r], main_grads'[r], results'[r])
    <3>1. /\ r \in Ranks /\ r \in RanksOf(dp) /\ r[2] \in Positions
          /\ RankOK(config, dp, g, r, pc[r], buffer[r], params[r], main_params[r], main_grads[r], results[r])
          /\ Owned(r) = OwnedBy(config, dp, r)
          /\ updated(r) = [e \in OwnedBy(config, dp, r) |-> Value(e, AppliedIn(g, Len(results[r])) + 1)]
      BY <1>4
    <3>2. buffer'[r] = [j \in Cells(r[2]) |->
                         IF of(r, j) = {} THEN buffer[r][j] ELSE updated(r)[CHOOSE e \in of(r, j) : TRUE]]
      BY <1>2, <1>5, <3>1
    <3>3. ASSUME NEW e \in OwnedBy(config, dp, r)
          PROVE  buffer'[r][CellAt(config, r[2], e)] = updated(r)[e]
      <4>1. e \in ElementsOf(config, r[2]) /\ CellAt(config, r[2], e) \in Cells(r[2])
        BY <1>1, <3>1, OwnedIs, CellInBuffer, Terms
      <4>2. \A d \in OwnedBy(config, dp, r) : OwnedCell(r, d) = CellAt(config, r[2], d)
        <5>1. \A d \in OwnedBy(config, dp, r) : GbufWorldAt(config, dp, r, d) = CellAt(config, r[2], d)
          BY <1>1, <3>1, OwnedIs
        <5> QED BY <5>1 DEF OwnedCell, GbufWorldAt
      <4>3. of(r, CellAt(config, r[2], e)) = {e}
        <5>1. ASSUME NEW d \in of(r, CellAt(config, r[2], e)) PROVE d = e
          <6>1. d \in ElementsOf(config, r[2]) /\ CellAt(config, r[2], e) = CellAt(config, r[2], d)
            BY <3>1, <4>2 DEF OwnedBy
          <6> QED BY <1>1, <3>1, <4>1, <6>1, OneElement
        <5>2. e \in of(r, CellAt(config, r[2], e))
          BY <3>1, <4>2
        <5> QED BY <5>1, <5>2
      <4>4. (CHOOSE d \in of(r, CellAt(config, r[2], e)) : TRUE) = e
        BY <4>3
      <4> HIDE DEF updated, of
      <4> QED BY <3>2, <4>1, <4>3, <4>4
    <3>4. DOMAIN buffer'[r] = DOMAIN buffer[r]
      <4>1. DOMAIN buffer[r] = Cells(r[2])
        BY <1>1, <3>1, Terms DEF RankOK, BufferOK
      <4> QED BY <3>2, <4>1
    <3>5. PICK buf2, main2 : buf2 = buffer'[r] /\ main2 = updated(r)
      OBVIOUS
    <3> HIDE DEF updated, of
    <3>6. /\ \A e \in OwnedBy(config, dp, r) : buf2[CellAt(config, r[2], e)] = main2[e]
          /\ DOMAIN buf2 = DOMAIN buffer[r]
          /\ main2 = [e \in OwnedBy(config, dp, r) |-> Value(e, AppliedIn(g, Len(results[r])) + 1)]
      BY <3>1, <3>3, <3>4, <3>5
    <3>7. RankOK(config, dp, g, r, "gather", buf2, params[r], main2, main_grads[r], results[r])
      BY <1>1, <1>3, <1>5, <3>1, <3>6, RankSteps
    <3> QED BY <2>2, <3>5, <3>7
  <2> QED BY <2>1, <2>3, <2>4, Move
<1>6. CASE ~config.distributed
  <2>1. Rest(G)
    BY <1>1, <1>2, <1>6 DEF Rest, Explained
  <2>2. ASSUME NEW r \in G
        PROVE  /\ pc'[r] = "train" /\ results'[r] = Append(results[r], TRUE) /\ buffer'[r] = buffer[r]
               /\ params'[r] = updated(r) /\ main_params'[r] = updated(r)
    BY <1>1, <1>2, <1>6
  <2>3. ASSUME NEW r \in G
        PROVE  /\ RankOK(config, dp, g, r, pc'[r], buffer'[r], params'[r], main_params'[r], main_grads'[r], results'[r])
               /\ Len(results'[r]) = Len(results[r]) + 1
    <3>1. PICK par, h : par = updated(r) /\ h = results[r]
      OBVIOUS
    <3>2. /\ g[Len(h) + 1] = TRUE /\ Len(h) \in 0 .. MaxSteps /\ Len(h) < MaxSteps
          /\ AppliedIn(g, Len(h) + 1) = AppliedIn(g, Len(h)) + 1
          /\ RankOK(config, dp, g, r, pc[r], buffer[r], params[r], main_params[r], main_grads[r], h)
          /\ par = [e \in OwnedBy(config, dp, r) |-> Value(e, AppliedIn(g, Len(h) + 1))]
          /\ OwnedBy(config, dp, r) = ElementsOf(config, r[2])
      <4>1. OwnedBy(config, dp, r) = ElementsOf(config, r[2])
        BY <1>1, <1>6, AllOwned
      <4> QED BY <1>4, <3>1, <4>1
    <3>3. Finished(config, dp, g, r, buffer[r], par, par, h)
      BY <3>2 DEF Finished, RankOK, HistoryOK, BufferOK
    <3>4. config \in Configs /\ g \in Witnesses
      BY <1>1
    <3>5. PICK h2 : /\ h2 = Append(h, g[Len(h) + 1]) /\ Len(h2) = Len(h) + 1
                    /\ \A grads : RankOK(config, dp, g, r, "train", buffer[r], par, par, grads, h2)
      BY ONLY <3>3, <3>4, RankFinishes, ZenonT(60)
    <3>6. h2 = results'[r]
      BY <2>2, <3>1, <3>2, <3>5
    <3> QED BY <2>2, <3>1, <3>5, <3>6
  <2>4. Leaves(G, 5, 6)
    <3>1. \A r \in G : Number(config, pc'[r]) = 0 /\ Len(results'[r]) = Len(results[r]) + 1
      BY <1>1, <2>2, <2>3, PhasesAre
    <3>2. \A j \in 1 .. 6 : 5 <= j /\ j <= 6 => j \in {4, 5} \/ j = 6
      OBVIOUS
    <3>3. \A j \in 1 .. 6 : 5 <= j /\ j <= 6 => \A r \in G, q \in Ranks : Meet(config, j, r, q) => q \in G
      BY <1>1, <3>2
    <3>5. 5 \in 0 .. 6 /\ 6 \in {5, 6}
      OBVIOUS
    <3> QED BY ONLY <1>1, <1>3, <3>1, <3>3, <3>5 DEF Leaves
  <2> QED BY <2>1, <2>3, <2>4, Move
<1> QED BY <1>5, <1>6

\* What the slices of the parameter buffer hold before they are gathered.
LEMMA GatheredSlice ==
  ASSUME NEW g \in Witnesses, Explained(g), NEW m \in Positions, config.distributed,
         \A q \in DataParallel(m) : Number(config, pc[q]) = 6,
         NEW r \in DataParallel(m), NEW e \in ElementsOf(config, m)
  PROVE  buffer[<<ViewOf(m, CellAt(config, m, e)), m>>][CellAt(config, m, e)]
           = Value(e, AppliedIn(g, Len(results[r])) + 1)
<1> DEFINE d == SliceOf(config, dp, m, e)
           q == <<d, m>>
<1>1. /\ config \in Configs /\ dp \in config.dp_sizes
      /\ DataParallel(m) = (0 .. dp-1) \X {m} /\ DataParallel(m) \in SUBSET Ranks
      /\ r[2] = m
  BY DataGroup
<1>2. d \in 0 .. dp-1 /\ e \in OwnedBy(config, dp, q)
      /\ NumelPadded(Numel(config, m), dp) \div dp = ShardSize(Numel(config, m), dp)
  BY <1>1, Owner
<1>3. ViewOf(m, CellAt(config, m, e)) = d
  BY <1>2 DEF ViewOf, SliceOf
<1>4. q \in DataParallel(m) /\ q \in Ranks /\ r \in Ranks /\ q[2] = m
  BY <1>1, <1>2
<1> HIDE DEF q, d
<1>5. /\ RankOK(config, dp, g, q, pc[q], buffer[q], params[q], main_params[q], main_grads[q], results[q])
      /\ Number(config, pc[q]) = 6 /\ Number(config, pc[r]) = 6
  BY <1>4, OfRank
<1>6. buffer[q][CellAt(config, m, e)] = main_params[q][e]
  BY <1>2, <1>4, <1>5 DEF RankOK, BufferOK
<1>7. main_params[q][e] = Value(e, AppliedIn(g, Len(results[q])) + 1)
  BY <1>2, <1>5 DEF RankOK, MainOK
<1>8. Len(results[r]) = Len(results[q])
  <2>1. Meet(config, 6, r, q)
    BY <1>1, <1>4 DEF Meet
  <2>2. 6 \in 1 .. 6 /\ Number(config, pc[r]) <= 6 /\ Number(config, pc[q]) <= 6
    BY <1>5
  <2> QED BY <1>4, <2>1, <2>2, SameStep
<1> QED BY <1>3, <1>6, <1>7, <1>8 DEF q

\* The gathering of the parameters keeps the state explained.
LEMMA AllGatherKeeps ==
  ASSUME NEW g \in Witnesses, Explained(g), NEW m \in Positions, AllGather(m)
  PROVE  Explained(g)'
<1> DEFINE G == DataParallel(m)
           gathered == [j \in Cells(m) |-> buffer[<<ViewOf(m, j), m>>][j]]
           loaded == [e \in Elements(m) |-> gathered[CellOf(m, e)]]
<1>1. /\ config \in Configs /\ dp \in config.dp_sizes /\ Ranks = RanksOf(dp)
      /\ G \in SUBSET Ranks /\ \A r \in G : r[2] = m
      /\ <<0, m>> \in G /\ \A r \in G, q \in Ranks : r[2] = q[2] => q \in G
  BY DataGroup
<1>2. /\ At(G, "gather")
      /\ buffer' = [r \in Ranks |-> IF r \in G THEN gathered ELSE buffer[r]]
      /\ params' = [r \in Ranks |-> IF r \in G THEN loaded ELSE params[r]]
      /\ results' = [r \in Ranks |-> IF r \in G THEN Append(results[r], TRUE) ELSE results[r]]
      /\ pc' = [r \in Ranks |-> IF r \in G THEN "train" ELSE pc[r]]
      /\ UNCHANGED <<config, dp, main_params, main_grads, scaler, disk, restarts>>
  BY DEF AllGather, Goto
<1>3. \A r \in G : Number(config, pc[r]) = 6
  BY <1>1, <1>2, PhasesAre DEF At
<1>4. config.distributed
  BY <1>1, <1>3, OfRank, PhaseOfNumber
<1>5. DOMAIN gathered = 0 .. NumelPadded(Numel(config, m), dp) - 1
  BY <1>1, Terms
<1>6. ASSUME NEW r \in G
      PROVE  loaded = [e \in ElementsOf(config, m) |-> Value(e, AppliedIn(g, Len(results[r])) + 1)]
  <2>1. Elements(m) = ElementsOf(config, m)
        /\ \A e \in ElementsOf(config, m) : CellOf(m, e) = CellAt(config, m, e) /\ CellAt(config, m, e) \in Cells(m)
    BY <1>1, Terms, CellInBuffer
  <2>2. ASSUME NEW e \in ElementsOf(config, m)
        PROVE  gathered[CellAt(config, m, e)] = Value(e, AppliedIn(g, Len(results[r])) + 1)
    <3>1. gathered[CellAt(config, m, e)] = buffer[<<ViewOf(m, CellAt(config, m, e)), m>>][CellAt(config, m, e)]
      BY <2>1
    <3>2. @ = Value(e, AppliedIn(g, Len(results[r])) + 1)
      BY <1>3, <1>4, GatheredSlice
    <3> QED BY <3>1, <3>2
  <2> HIDE DEF gathered
  <2> QED BY <2>1, <2>2
<1> HIDE DEF G, gathered, loaded
<1>7. Rest(G)
  BY <1>1, <1>2 DEF Rest, Explained
<1>8. ASSUME NEW r \in G
      PROVE  /\ RankOK(config, dp, g, r, pc'[r], buffer'[r], params'[r], main_params'[r], main_grads'[r], results'[r])
             /\ Len(results'[r]) = Len(results[r]) + 1 /\ pc'[r] = "train"
  <2>1. /\ pc'[r] = "train" /\ results'[r] = Append(results[r], TRUE) /\ buffer'[r] = gathered
        /\ params'[r] = loaded /\ main_params'[r] = main_params[r]
    BY <1>1, <1>2
  <2>2. /\ RankOK(config, dp, g, r, pc[r], buffer[r], params[r], main_params[r], main_grads[r], results[r])
        /\ HistoryOK(config, dp, g, pc[r], results[r])
        /\ Len(results[r]) \in 0 .. MaxSteps /\ Len(results[r]) + 1 \in 1 .. MaxSteps
        /\ Number(config, pc[r]) = 6
    BY <1>1, <1>3, OfRank
  <2>3. Len(results[r]) < MaxSteps /\ g[Len(results[r]) + 1] = TRUE
    <3>1. Len(results[r]) < MaxSteps /\ g[Len(results[r]) + 1]
      BY <2>2 DEF HistoryOK
    <3> QED BY <2>2, <3>1 DEF Witnesses
  <2>4. AppliedIn(g, Len(results[r]) + 1) = AppliedIn(g, Len(results[r])) + 1
    <3>1. AppliedIn(g, Len(results[r]) + 1)
            = AppliedIn(g, Len(results[r])) + (IF g[Len(results[r]) + 1] THEN 1 ELSE 0)
      BY <2>2, <2>3, HistIs DEF Witnesses
    <3> QED BY <2>3, <3>1
  <2>5. Finished(config, dp, g, r, gathered, loaded, main_params[r], results[r])
    <3>1. main_params[r] = [e \in OwnedBy(config, dp, r) |-> Value(e, AppliedIn(g, Len(results[r])) + 1)]
      BY <2>2 DEF RankOK, MainOK
    <3>2. r[2] = m
      BY <1>1
    <3>3. \A k \in Len(results[r]) + 1 .. MaxSteps : g[k] \/ Effective(config, dp)
      BY <2>2 DEF HistoryOK
    <3>4. results[r] = Hist(g, Len(results[r]))
      BY <2>2 DEF HistoryOK
    <3>5. PICK par : par = loaded
      OBVIOUS
    <3>6. par = [e \in ElementsOf(config, r[2]) |-> Value(e, AppliedIn(g, Len(results[r]) + 1))]
      BY <1>6, <2>4, <3>2, <3>5
    <3> QED BY <1>5, <2>2, <2>3, <2>4, <3>1, <3>2, <3>3, <3>4, <3>5, <3>6 DEF Finished
  <2>6. config \in Configs /\ g \in Witnesses
    BY <1>1
  <2>7. PICK h2 : /\ h2 = Append(results[r], g[Len(results[r]) + 1]) /\ Len(h2) = Len(results[r]) + 1
                  /\ \A grads : RankOK(config, dp, g, r, "train", gathered, loaded, main_params[r], grads, h2)
    BY ONLY <2>5, <2>6, RankFinishes, ZenonT(60)
  <2>8. h2 = results'[r]
    BY <2>1, <2>3, <2>7
  <2> QED BY <2>1, <2>7, <2>8
<1>9. Leaves(G, 6, 6)
  <2>1. \A r \in G : Number(config, pc'[r]) = 0 /\ Len(results'[r]) = Len(results[r]) + 1
    BY <1>1, <1>8, PhasesAre
  <2>2. \A j \in 1 .. 6 : 6 <= j /\ j <= 6 => j = 6
    OBVIOUS
  <2>3. \A r \in G, q \in Ranks : Meet(config, 6, r, q) => q \in G
    BY <1>1 DEF Meet
  <2>4. \A j \in 1 .. 6 : 6 <= j /\ j <= 6 => \A r \in G, q \in Ranks : Meet(config, j, r, q) => q \in G
    BY <2>2, <2>3
  <2>5. 6 \in 0 .. 6 /\ 6 \in {6, 6}
    OBVIOUS
  <2> QED BY ONLY <1>1, <1>3, <2>1, <2>4, <2>5 DEF Leaves
<1> QED BY <1>7, <1>8, <1>9, Move

-----------------------------------------------------------------------------
(***************************************************************************)
(* The forward and backward passes, in which it is decided whether a step  *)
(* will overflow.                                                          *)
(***************************************************************************)

\* Witnesses that agree on the steps so far.
LEMMA Agree ==
  ASSUME NEW g, NEW h, NEW k \in Nat, \A i \in 1 .. k : g[i] = h[i]
  PROVE  Hist(g, k) = Hist(h, k) /\ AppliedIn(g, k) = AppliedIn(h, k)
<1>1. {i \in 1 .. k : g[i]} = {i \in 1 .. k : h[i]}
  OBVIOUS
<1> QED BY <1>1 DEF Hist, AppliedIn

\* What a rank holds depends on the steps it has been through, and on the
\* one it is in.
Alike(c, n, g, h, r, p, history) ==
  /\ \A i \in 1 .. Len(history) : g[i] = h[i]
  /\ Number(c, p) > 2 => g[Len(history) + 1] = h[Len(history) + 1]
  /\ \A i \in {1, 2} : Number(c, p) = i =>
       \A e : Infinite(c, g, Len(history) + 1, e, From(c, n, r, e, i))
                = Infinite(c, h, Len(history) + 1, e, From(c, n, r, e, i))
  /\ \A k \in Len(history) + 1 .. MaxSteps : h[k] \/ Effective(c, n)

\* What is right by one witness is right by such another one.
LEMMA RankTransfers ==
  ASSUME NEW c \in Configs, NEW n, NEW g, NEW h, NEW r, NEW p, NEW buf, NEW par, NEW main, NEW grads,
         NEW history, Alike(c, n, g, h, r, p, history),
         RankOK(c, n, g, r, p, buf, par, main, grads, history)
  PROVE  RankOK(c, n, h, r, p, buf, par, main, grads, history)
<1>1. Len(history) \in Nat /\ p \in Phases(c) /\ Number(c, p) \in 0 .. 6
  <2>1. Len(history) \in 0 .. MaxSteps /\ p \in Phases(c)
    BY DEF RankOK, HistoryOK
  <2> QED BY <2>1, PhaseOfNumber
<1>2. Hist(g, Len(history)) = Hist(h, Len(history)) /\ AppliedIn(g, Len(history)) = AppliedIn(h, Len(history))
  BY <1>1, Agree DEF Alike
<1>3. HistoryOK(c, n, h, p, history)
  <2>1. Number(c, p) > 4 => g[Len(history) + 1] = h[Len(history) + 1]
    BY <1>1 DEF Alike
  <2> QED BY <1>2, <2>1 DEF RankOK, HistoryOK, Alike
<1> DEFINE k == Len(history) + 1
<1>4. Hist(g, k - 1) = Hist(h, k - 1)
  BY <1>1, <1>2
<1>5. ASSUME NEW i \in 1 .. 3, Number(c, p) = i, NEW e
      PROVE  Piece(c, n, g, k, r, e, i) = Piece(c, n, h, k, r, e, i)
  <2>1. Infinite(c, g, k, e, From(c, n, r, e, i)) = Infinite(c, h, k, e, From(c, n, r, e, i))
    <3>1. CASE i \in {1, 2}
      BY <1>5, <3>1 DEF Alike
    <3>2. CASE i = 3
      <4>1. g[k] = h[k]
        BY <1>5, <3>2 DEF Alike
      <4> QED BY <4>1 DEF Infinite
    <3> QED BY <3>1, <3>2
  <2> HIDE DEF k
  <2> QED BY <1>4, <2>1 DEF Piece
<1> HIDE DEF k
<1>6. BufferOK(c, n, h, r, p, buf, main, history)
  <2>1. BufferOK(c, n, g, r, p, buf, main, history)
    BY DEF RankOK
  <2>2. ASSUME Number(c, p) \in 1 .. 3, NEW e
        PROVE  Piece(c, n, g, Len(history) + 1, r, e, Number(c, p)) = Piece(c, n, h, Len(history) + 1, r, e, Number(c, p))
    BY <1>5, <2>2 DEF k
  <2> QED BY <2>1, <2>2 DEF BufferOK
<1>7. GradsOK(c, n, h, r, p, grads, history)
  <2>1. GradsOK(c, n, g, r, p, grads, history)
    BY DEF RankOK
  <2>2. ASSUME Number(c, p) \in {4, 5}, NEW e
        PROVE  MainGrad(c, n, g, Len(history) + 1, e) = MainGrad(c, n, h, Len(history) + 1, e)
    <3>1. g[Len(history) + 1] = h[Len(history) + 1]
      BY <2>2 DEF Alike
    <3> QED BY <3>1 DEF MainGrad, Infinite
  <2> QED BY <2>1, <2>2 DEF GradsOK
<1>8. ParamsOK(c, h, r[2], par, Len(history)) /\ MainOK(c, n, h, r, p, main, history)
  BY <1>2 DEF RankOK, ParamsOK, MainOK
<1> QED BY <1>3, <1>6, <1>7, <1>8 DEF RankOK

\* Before the rank that may overflow has run its passes nothing depends on
\* whether it will.
LEMMA Decided ==
  ASSUME NEW g \in Witnesses, Explained(g), NEW r \in Ranks, r = Overflower(config),
         pc[r] = "train", Len(results[r]) < MaxSteps, NEW b \in BOOLEAN, b \/ Effective(config, dp)
  PROVE  /\ [g EXCEPT ![Len(results[r]) + 1] = b] \in Witnesses
         /\ Explained([g EXCEPT ![Len(results[r]) + 1] = b])
<1> DEFINE k == Len(results[r]) + 1
           h == [g EXCEPT ![k] = b]
<1>1. /\ config \in Configs /\ dp \in config.dp_sizes /\ Ranks = RanksOf(dp) /\ r \in RanksOf(dp)
      /\ Len(results[r]) \in 0 .. MaxSteps /\ Number(config, pc[r]) = 0 /\ MaxSteps \in Nat
  BY OfRank, PhasesAre, BoundsAssumption DEF Ranks
<1>2. k \in 1 .. MaxSteps /\ Len(results[r]) = k - 1
  BY <1>1
<1> HIDE DEF k
<1>3. h \in Witnesses /\ h[k] = b /\ \A i \in 1 .. MaxSteps : i # k => h[i] = g[i]
  BY <1>2 DEF Witnesses
<1> HIDE DEF h
<1>4. ASSUME NEW q \in Ranks
      PROVE  /\ Len(results[q]) <= k - 1 /\ Len(results[q]) \in Nat
             /\ Number(config, pc[q]) > 2 => Len(results[q]) + 1 <= k - 1
  <2>1. Len(results[q]) \in 0 .. MaxSteps /\ q \in RanksOf(dp)
    BY <1>1, OfRank
  <2>2. Passes(config, pc[q], results[q], 2) <= Passes(config, pc[r], results[r], 1)
    <3>1. InStep(config, dp, pc, results) /\ \A x \in RanksOf(dp) : Len(results[x]) \in Nat
      BY <1>1, OfRank DEF Explained
    <3>2. PICK phase, history : phase = pc /\ history = results
      OBVIOUS
    <3>3. Passes(config, phase[q], history[q], 2) <= Passes(config, phase[r], history[r], 1)
      BY <1>1, <2>1, <3>1, <3>2, Lag
    <3> QED BY <3>2, <3>3
  <2>3. Passes(config, pc[r], results[r], 1) = k - 1
    BY <1>1, <1>2 DEF Passes
  <2>4. CASE Number(config, pc[q]) > 2
    <3>1. Passes(config, pc[q], results[q], 2) = Len(results[q]) + 1
      BY <2>4 DEF Passes
    <3> QED BY <1>2, <2>1, <2>2, <2>3, <3>1
  <2>5. CASE ~(Number(config, pc[q]) > 2)
    <3>1. Passes(config, pc[q], results[q], 2) = Len(results[q]) + 0
      BY <2>5 DEF Passes
    <3> QED BY <1>2, <2>1, <2>2, <2>3, <2>5, <3>1
  <2> QED BY <2>4, <2>5
<1>5. ASSUME NEW q \in Ranks, NEW i \in {1, 2}, Number(config, pc[q]) = i, Len(results[q]) + 1 = k, NEW e
      PROVE  r \notin From(config, dp, q, e, i)
  <2>1. q \in RanksOf(dp) /\ q = <<q[1], q[2]>> /\ r = <<r[1], r[2]>>
    BY <1>1, OfRank
  <2>2. CASE i = 1
    <3>1. q # r
      BY <1>1, <1>5
    <3> QED BY <2>2, <3>1 DEF From
  <2>3. CASE i = 2
    <3>1. ~Meet(config, 1, r, q)
      <4>1. SUFFICES ASSUME Meet(config, 1, r, q) PROVE FALSE
        OBVIOUS
      <4>2. Passes(config, pc[r], results[r], 1) = Passes(config, pc[q], results[q], 1)
        BY <1>1, <2>1, <4>1 DEF Explained, InStep
      <4>3. Passes(config, pc[r], results[r], 1) = k - 1
        BY <1>1, <1>2 DEF Passes
      <4>4. Passes(config, pc[q], results[q], 1) = Len(results[q]) + 1
        BY <1>5, <2>3 DEF Passes
      <4> QED BY <1>2, <1>5, <4>2, <4>3, <4>4
    <3>2. IF SharedFirst(config) THEN r[1] # q[1] ELSE r[2] # q[2]
      BY <3>1 DEF Meet
    <3>3. CASE SharedFirst(config)
      BY <2>1, <2>3, <3>2, <3>3 DEF From
    <3>4. CASE ~SharedFirst(config)
      BY <2>1, <2>3, <3>2, <3>4 DEF From
    <3> QED BY <3>3, <3>4
  <2> QED BY <2>2, <2>3
<1>6. ASSUME NEW q \in Ranks PROVE Alike(config, dp, g, h, q, pc[q], results[q])
  <2>1. Len(results[q]) \in Nat /\ Len(results[q]) <= k - 1 /\ Len(results[q]) <= MaxSteps
        /\ HistoryOK(config, dp, g, pc[q], results[q])
        /\ (Number(config, pc[q]) > 0 => Len(results[q]) + 1 \in 1 .. MaxSteps)
        /\ Number(config, pc[q]) \in 0 .. 6
    BY <1>4, OfRank
  <2>2. ASSUME NEW i \in 1 .. Len(results[q]) PROVE g[i] = h[i]
    <3>1. i \in 1 .. MaxSteps /\ i # k
      BY <1>1, <1>2, <2>1
    <3> QED BY <1>3, <3>1
  <2>3. Number(config, pc[q]) > 2 => g[Len(results[q]) + 1] = h[Len(results[q]) + 1]
    <3>1. Number(config, pc[q]) > 2 => Len(results[q]) + 1 # k /\ Len(results[q]) + 1 \in 1 .. MaxSteps
      BY <1>2, <1>4, <2>1
    <3> QED BY <1>3, <3>1
  <2>4. ASSUME NEW i \in {1, 2}, Number(config, pc[q]) = i, NEW e
        PROVE  Infinite(config, g, Len(results[q]) + 1, e, From(config, dp, q, e, i))
                 = Infinite(config, h, Len(results[q]) + 1, e, From(config, dp, q, e, i))
    <3>1. CASE Len(results[q]) + 1 = k
      <4>1. Overflower(config) \notin From(config, dp, q, e, i)
        BY <1>5, <2>4, <3>1
      <4> QED BY <4>1 DEF Infinite
    <3>2. CASE Len(results[q]) + 1 # k
      <4>1. Len(results[q]) + 1 \in 1 .. MaxSteps
        BY <2>1, <2>4
      <4>2. g[Len(results[q]) + 1] = h[Len(results[q]) + 1]
        BY <1>3, <3>2, <4>1
      <4> QED BY <4>2 DEF Infinite
    <3> QED BY <3>1, <3>2
  <2>5. ASSUME NEW j \in Len(results[q]) + 1 .. MaxSteps PROVE h[j] \/ Effective(config, dp)
    <3>1. CASE j = k
      BY <1>3, <3>1
    <3>2. CASE j # k
      <4>1. j \in 1 .. MaxSteps
        BY <1>1, <2>1
      <4> QED BY <1>3, <2>1, <3>2, <4>1 DEF HistoryOK
    <3> QED BY <3>1, <3>2
  <2> QED BY <2>2, <2>3, <2>4, <2>5 DEF Alike
<1>7. ASSUME NEW q \in Ranks
      PROVE  RankOK(config, dp, h, q, pc[q], buffer[q], params[q], main_params[q], main_grads[q], results[q])
  <2>1. RankOK(config, dp, g, q, pc[q], buffer[q], params[q], main_params[q], main_grads[q], results[q])
    BY OfRank
  <2> QED BY <1>1, <1>6, <2>1, RankTransfers
<1>8. DiskOK(config, h, disk)
  <2>1. DiskOK(config, g, disk) /\ Len(disk.results) <= Len(results[r])
    BY DEF Explained
  <2>2. Len(disk.results) \in 0 .. MaxSteps
    BY <2>1 DEF DiskOK
  <2>3. \A i \in 1 .. Len(disk.results) : g[i] = h[i]
    BY <1>1, <1>2, <1>3, <2>1, <2>2
  <2>4. Hist(g, Len(disk.results)) = Hist(h, Len(disk.results))
        /\ AppliedIn(g, Len(disk.results)) = AppliedIn(h, Len(disk.results))
    BY <2>2, <2>3, Agree
  <2> QED BY <2>1, <2>4 DEF DiskOK, ParamsOK
<1>9. Explained(h)
  BY <1>7, <1>8 DEF Explained
<1> QED BY <1>3, <1>9 DEF h, k

\* The scale of the loss is that of the steps so far.
LEMMA LossScaleIs ==
  ASSUME NEW g \in Witnesses, Explained(g), ScalersInv, NEW r \in Ranks, pc[r] = "train"
  PROVE  LossScale(r) = Expected(config, Hist(g, Len(results[r]))).scale
<1> DEFINE q == IF config.shared = "embedding" THEN <<r[1], Last>> ELSE r
<1>1. /\ config \in Configs /\ dp \in config.dp_sizes /\ Ranks = RanksOf(dp) /\ r \in RanksOf(dp)
      /\ Len(results[r]) \in Nat /\ Number(config, pc[r]) = 0 /\ r[1] \in 0 .. dp-1
  BY OfRank, PhasesAre DEF Ranks
<1>2. q \in Ranks /\ q[1] = r[1]
  BY <1>1 DEF Last, Positions, RanksOf
<1> HIDE DEF q
<1>3. Len(results[q]) \in Nat
  BY <1>2, OfRank
<1>4. Passes(config, pc[r], results[r], 4) = Passes(config, pc[q], results[q], 4)
  <2>1. Meet(config, 4, r, q)
    BY <1>2 DEF Meet
  <2>2. 4 \in 1 .. 6
    OBVIOUS
  <2> QED BY <1>1, <1>2, <2>1, <2>2 DEF Explained, InStep
<1>5. Passes(config, pc[r], results[r], 4) = Len(results[r])
  <2>1. ~(Number(config, pc[r]) > 4)
    BY <1>1
  <2>2. Passes(config, pc[r], results[r], 4) = Len(results[r]) + 0
    BY ONLY <2>1 DEF Passes
  <2> QED BY <1>1, <2>2
<1>6. scaler[q] = Expected(config, Hist(g, Len(results[r])))
  <2>1. CASE Number(config, pc[q]) > 4
    <3>1. Passes(config, pc[q], results[q], 4) = Len(results[q]) + 1
      BY <2>1 DEF Passes
    <3> QED BY <1>2, <1>4, <1>5, <2>1, <3>1, ScalerOfRank
  <2>2. CASE ~(Number(config, pc[q]) > 4)
    <3>1. Passes(config, pc[q], results[q], 4) = Len(results[q]) + 0
      BY <2>2 DEF Passes
    <3>2. Number(config, pc[q]) <= 4
      <4>1. Number(config, pc[q]) \in 0 .. 6
        BY <1>2, OfRank
      <4> QED BY <2>2, <4>1
    <3>3. Len(results[q]) = Len(results[r])
      BY <1>3, <1>4, <1>5, <3>1
    <3> QED BY <1>2, <3>2, <3>3, ScalerOfRank
  <2> QED BY <2>1, <2>2
<1> QED BY <1>6 DEF LossScale, q

\* The gradient of one element in a buffer that was zero.
FirstGrad(c, g, k, e, r, scale, cells) ==
  DOMAIN cells = {e} /\ cells[e] = GradOf(e, {r}, 0, scale, Infinite(c, g, k, e, {r}))

\* The first gradient in a zeroed cell.
LEMMA OneGrad ==
  ASSUME NEW c, NEW g, NEW k, NEW e, NEW r, NEW scale, NEW cells, FirstGrad(c, g, k, e, r, scale, cells)
  PROVE  Add(Zero, Sum(cells)) = GradOf(e, {r}, 0, scale, Infinite(c, g, k, e, {r}))
<1> USE DEF FirstGrad
<1> DEFINE from == [x \in {e} |-> {r}]
<1>1. from[e] = {r}
  OBVIOUS
<1>2. UNION {from[x] : x \in {e}} = {r}
  OBVIOUS
<1>3. IsFiniteSet({e})
  BY FS_Singleton
<1> HIDE DEF from
<1>4. PICK all : all = {r}
  OBVIOUS
<1>5. Parts(c, g, k, e, 0, scale, cells, {e}, from, all)
  BY <1>1, <1>2, <1>3, <1>4 DEF Parts
<1>6. Sum(cells) = GradOf(e, all, 0, scale, Infinite(c, g, k, e, all))
  BY ONLY <1>5, ReducedGrads
<1> QED BY <1>4, <1>6 DEF Add

\* A rank has the gradients of its own passes.
Passed(c, n, g, r, buf2, h) ==
  /\ DOMAIN buf2 = 0 .. NumelPadded(Numel(c, r[2]), n) - 1
  /\ \A e \in ElementsOf(c, r[2]) :
       buf2[CellAt(c, r[2], e)]
         = GradOf(e, {r}, 0, Expected(c, Hist(g, Len(h))).scale, Infinite(c, g, Len(h) + 1, e, {r}))

\* Such a rank has gone through its passes.
LEMMA RankPasses ==
  ASSUME NEW c \in Configs, NEW n, NEW g, NEW r, NEW p, Number(c, p) = 0,
         NEW buf, NEW par, NEW main, NEW grads, NEW h, NEW buf2, Len(h) < MaxSteps,
         RankOK(c, n, g, r, p, buf, par, main, grads, h), Passed(c, n, g, r, buf2, h)
  PROVE  RankOK(c, n, g, r, First(c), buf2, par, main, grads, h)
<1>1. Number(c, First(c)) = 1 /\ First(c) \in Phases(c)
  BY PhasesAre DEF Phases
<1>2. Len(h) \in Nat
  BY DEF RankOK, HistoryOK
<1>3. HistoryOK(c, n, g, First(c), h)
  BY <1>1 DEF RankOK, HistoryOK
<1>4. \A e : Piece(c, n, g, Len(h) + 1, r, e, 1)
               = GradOf(e, {r}, 0, Expected(c, Hist(g, Len(h))).scale, Infinite(c, g, Len(h) + 1, e, {r}))
  <2> TAKE e
  <2>1. Len(h) + 1 - 1 = Len(h)
    BY <1>2
  <2>2. From(c, n, r, e, 1) = {r}
    BY DEF From
  <2>3. (IF 1 = 3 \/ (1 = 2 /\ ~SharedFirst(c)) THEN 1 ELSE 0) = 0
    OBVIOUS
  <2> QED BY SMTT(60), <2>1, <2>2, <2>3 DEF Piece
<1>5. BufferOK(c, n, g, r, First(c), buf2, main, h)
  <2>1. 1 \in 1 .. 3 /\ 1 # 3 /\ 1 # 6
    OBVIOUS
  <2> QED BY <1>1, <1>4, <2>1 DEF Passed, BufferOK
<1>6. GradsOK(c, n, g, r, First(c), grads, h) /\ MainOK(c, n, g, r, First(c), main, h)
  BY <1>1 DEF RankOK, GradsOK, MainOK
<1> QED BY <1>3, <1>5, <1>6 DEF RankOK

\* The passes of a rank whose overflow the witness tells.
LEMMA PassesKeep ==
  ASSUME NEW g \in Witnesses, Explained(g), ScalersInv, NEW r \in Ranks, NEW inf \in BOOLEAN,
         ForwardBackward(r, inf),
         \A e \in ElementsOf(config, r[2]) :
           (inf /\ config.overflow.name = e[1]) <=> Infinite(config, g, Len(results[r]) + 1, e, {r})
  PROVE  Explained(g)'
<1> DEFINE grad(e) == Grad(e, {r}, LossScale(r), inf /\ config.overflow.name = e[1])
           of(j) == {e \in Elements(r[2]) : CellOf(r[2], e) = j}
           buf2 == [j \in Cells(r[2]) |-> Add(Zero, Sum([e \in of(j) |-> grad(e)]))]
           k == Len(results[r]) + 1
           scale == Expected(config, Hist(g, Len(results[r]))).scale
<1>1. /\ config \in Configs /\ dp \in config.dp_sizes /\ Ranks = RanksOf(dp) /\ r[2] \in Positions
      /\ r \in RanksOf(dp)
      /\ RankOK(config, dp, g, r, pc[r], buffer[r], params[r], main_params[r], main_grads[r], results[r])
  BY OfRank DEF Ranks
<1>2. Elements(r[2]) = ElementsOf(config, r[2])
      /\ Cells(r[2]) = 0 .. NumelPadded(Numel(config, r[2]), dp) - 1
      /\ \A e \in ElementsOf(config, r[2]) : CellOf(r[2], e) = CellAt(config, r[2], e) /\ CellAt(config, r[2], e) \in Cells(r[2])
  BY <1>1, Terms, CellInBuffer
<1>3. /\ pc[r] = "train" /\ Len(results[r]) < MaxSteps
      /\ pc' = [q \in Ranks |-> IF q \in {r} THEN First(config) ELSE pc[q]]
      /\ UNCHANGED <<config, dp, params, main_params, main_grads, scaler, results, disk, restarts>>
  <2>1. Reductions(r[2])[1] = First(config)
    BY <1>1, Terms
  <2> QED BY <2>1 DEF ForwardBackward, Goto
<1>4. buffer' = [buffer EXCEPT ![r] = buf2]
  <2>1. buffer' = [buffer EXCEPT ![r] =
                     [j \in Cells(r[2]) |-> Add(ZeroGradBuffer(r)[j], Sum([e \in of(j) |-> grad(e)]))]]
    BY DEF ForwardBackward
  <2>2. \A j \in Cells(r[2]) : ZeroGradBuffer(r)[j] = Zero
    BY DEF ZeroGradBuffer
  <2> HIDE DEF of, grad
  <2>3. [j \in Cells(r[2]) |-> Add(ZeroGradBuffer(r)[j], Sum([e \in of(j) |-> grad(e)]))] = buf2
    BY <2>2
  <2> HIDE DEF buf2
  <2> QED BY <2>1, <2>3
<1>5. LossScale(r) = scale
  BY <1>3, LossScaleIs
<1>6. ASSUME NEW e \in ElementsOf(config, r[2])
      PROVE  buf2[CellAt(config, r[2], e)] = GradOf(e, {r}, 0, scale, Infinite(config, g, k, e, {r}))
  <2> DEFINE j == CellAt(config, r[2], e)
             cells == [x \in of(j) |-> grad(x)]
  <2>1. of(j) = {e}
    <3>1. ASSUME NEW x \in of(j) PROVE x = e
      <4>1. x \in ElementsOf(config, r[2]) /\ CellAt(config, r[2], e) = CellAt(config, r[2], x)
        BY <1>2
      <4> QED BY <1>1, <4>1, OneElement
    <3>2. e \in of(j)
      BY <1>2
    <3> QED BY <3>1, <3>2
  <2>2. buf2[j] = Add(Zero, Sum(cells))
    BY <1>2
  <2>3. grad(e) = GradOf(e, {r}, 0, scale, Infinite(config, g, k, e, {r}))
    <3>1. (inf /\ config.overflow.name = e[1]) \in BOOLEAN /\ Infinite(config, g, k, e, {r}) \in BOOLEAN
      BY DEF Infinite
    <3>2. (inf /\ config.overflow.name = e[1]) = Infinite(config, g, k, e, {r})
      BY <3>1
    <3>3. \A x, s, b : Grad(x, {r}, s, b) = GradOf(x, {r}, 0, s, b)
      BY DEF Grad, GradOf
    <3> HIDE DEF scale
    <3> QED BY <1>5, <3>2, <3>3
  <2>4. DOMAIN cells = {e} /\ cells[e] = grad(e)
    BY <2>1
  <2> HIDE DEF buf2, cells, grad, scale, k, j
  <2>5. Add(Zero, Sum(cells)) = GradOf(e, {r}, 0, scale, Infinite(config, g, k, e, {r}))
    <3>1. FirstGrad(config, g, k, e, r, scale, cells)
      BY <2>3, <2>4 DEF FirstGrad
    <3> QED BY ONLY <3>1, OneGrad
  <2> QED BY <2>2, <2>5 DEF j
<1>7. Passed(config, dp, g, r, buf2, results[r])
  <2>1. DOMAIN buf2 = Cells(r[2])
    OBVIOUS
  <2> HIDE DEF buf2
  <2> QED BY <1>2, <1>6, <2>1 DEF Passed
<1> HIDE DEF buf2
<1>8. RankOK(config, dp, g, r, First(config), buf2, params[r], main_params[r], main_grads[r], results[r])
  <2>1. Number(config, pc[r]) = 0
    BY <1>1, <1>3, PhasesAre
  <2> QED BY <1>1, <1>3, <1>7, <2>1, RankPasses
<1>9. r \in DOMAIN buffer /\ r \in Ranks
  BY DEF Explained
<1>10. Rest({r})
  BY <1>3, <1>4 DEF Rest, Explained
<1>11. Leaves({r}, 0, 0)
  <2>1. Number(config, pc[r]) = 0 /\ Number(config, pc'[r]) = 0 + 1 /\ results'[r] = results[r]
    BY <1>1, <1>3, <1>9, PhasesAre
  <2>2. \A j \in 1 .. 6 : ~(0 <= j /\ j <= 0)
    OBVIOUS
  <2> QED BY <1>9, <2>1, <2>2 DEF Leaves
<1>12. RankOK(config, dp, g, r, pc'[r], buffer'[r], params'[r], main_params'[r], main_grads'[r], results'[r])
  BY <1>3, <1>4, <1>8, <1>9
<1> QED BY <1>10, <1>11, <1>12, Move

\* The passes keep the state explained, by a witness that says of the step
\* whether it will overflow.
LEMMA ForwardBackwardKeeps ==
  ASSUME NEW g \in Witnesses, Explained(g), ScalersInv, NEW r \in Ranks, NEW inf \in BOOLEAN,
         ForwardBackward(r, inf)
  PROVE  \E h \in Witnesses : Explained(h)'
<1> DEFINE k == Len(results[r]) + 1
           name == config.overflow.name
<1>1. /\ pc[r] = "train" /\ Len(results[r]) < MaxSteps
      /\ inf => config.overflow.dp = r[1] /\ config.overflow.position = r[2]
  BY DEF ForwardBackward
<1>2. config \in Configs /\ dp \in config.dp_sizes /\ r = <<r[1], r[2]>> /\ r \in RanksOf(dp)
      /\ Len(results[r]) \in 0 .. MaxSteps /\ MaxSteps \in Nat /\ r[2] \in Positions
  BY OfRank, BoundsAssumption
<1>3. CASE r # Overflower(config)
  <2>1. inf = FALSE
    BY <1>1, <1>2, <1>3 DEF Overflower
  <2>2. \A e : ~Infinite(config, g, k, e, {r})
    BY <1>3 DEF Infinite
  <2> QED BY <2>1, <2>2, PassesKeep
<1>4. CASE r = Overflower(config)
  <2> DEFINE overflows == inf /\ name \in Names(config, r[2])
  <2>1. PICK b \in BOOLEAN : b <=> ~overflows
    OBVIOUS
  <2>2. b \/ Effective(config, dp)
    BY <1>1, <1>2, <1>4, <2>1 DEF Effective
  <2>3. PICK h : h = [g EXCEPT ![k] = b]
    OBVIOUS
  <2>4. h \in Witnesses /\ Explained(h)
    BY <1>1, <1>4, <2>2, <2>3, Decided
  <2>5. h[k] = b
    BY <1>1, <1>2, <2>3 DEF Witnesses
  <2>6. ASSUME NEW e \in ElementsOf(config, r[2])
        PROVE  (inf /\ name = e[1]) <=> Infinite(config, h, k, e, {r})
    <3>1. e[1] \in Names(config, r[2])
      BY DEF ElementsOf
    <3>2. Infinite(config, h, k, e, {r}) <=> overflows /\ e[1] = name
      BY <1>4, <2>1, <2>5 DEF Infinite
    <3> QED BY <3>1, <3>2
  <2>7. Explained(h)'
    BY <2>4, <2>6, PassesKeep
  <2> QED BY <2>4, <2>7
<1> QED BY <1>3, <1>4

-----------------------------------------------------------------------------
(***************************************************************************)
(* Checkpoints and restarts.                                               *)
(***************************************************************************)

\* What the checkpoint of the distributed optimizer has for an element.
LEMMA TensorHas ==
  ASSUME NEW g \in Witnesses, Explained(g), At(Ranks, "train"), config.distributed,
         NEW l, \A r \in Ranks : Len(results[r]) = l,
         NEW m \in Positions, NEW e \in ElementsOf(config, m)
  PROVE  WorldTensor(m)[CellAt(config, m, e)] = Value(e, AppliedIn(g, l))
<1> DEFINE d == SliceOf(config, dp, m, e)
           q == <<d, m>>
           k == OffsetOf(config, dp, m, e)
           of == {x \in Owned(q) : RangeMap[config][dp][q][x].gbuf_local = k}
<1>1. config \in Configs /\ dp \in config.dp_sizes /\ Ranks = RanksOf(dp)
  BY DEF Explained, Ranks
<1>2. /\ d \in 0 .. dp-1 /\ k \in 0 .. ShardSize(Numel(config, m), dp) - 1
      /\ e \in OwnedBy(config, dp, q)
      /\ GbufLocalAt(config, dp, q, e) = k
      /\ SliceStart(config, dp, m, d) + k = CellAt(config, m, e)
  BY <1>1, Owner, ZenonT(60)
<1>3. q \in Ranks /\ q[1] = d /\ q[2] = m /\ q \in RanksOf(dp)
  BY <1>1, <1>2 DEF RanksOf
<1>4. Owned(q) = OwnedBy(config, dp, q) /\ CellAt(config, m, e) \in Cells(m)
  BY <1>1, <1>3, Terms, CellInBuffer
<1>5. WorldTensor(m)[CellAt(config, m, e)] = LocalShard(q)[k]
  BY <1>4 DEF WorldTensor, SliceOf, OffsetOf, Shard
<1>6. of = {e}
  <2>1. ASSUME NEW x \in of PROVE x = e
    <3>1. x \in OwnedBy(config, dp, q) /\ GbufLocalAt(config, dp, q, x) = k
      BY <1>4 DEF GbufLocalAt
    <3>2. /\ x \in ElementsOf(config, m)
          /\ SliceStart(config, dp, m, d) + GbufLocalAt(config, dp, q, x) = CellAt(config, m, x)
      <4> HIDE DEF q, d
      <4> QED BY <1>1, <1>3, <3>1, OwnedIs
    <3>3. CellAt(config, m, x) = CellAt(config, m, e)
      BY <1>2, <3>1, <3>2
    <3> QED BY <1>1, <3>2, <3>3, OneElement
  <2>2. e \in of
    BY <1>2, <1>4 DEF GbufLocalAt
  <2> QED BY <2>1, <2>2
<1>7. LocalShard(q)[k] = IF of = {} THEN Garbage ELSE main_params[q][CHOOSE x \in of : TRUE]
  <2>1. k \in 0 .. Shard(q[2], dp) - 1
    BY <1>2, <1>3 DEF Shard
  <2> HIDE DEF q, k
  <2> QED BY <2>1 DEF LocalShard, of
<1>8. (CHOOSE x \in of : TRUE) = e /\ of # {}
  BY <1>6
<1> HIDE DEF q, of, k, d
<1>9. main_params[q][e] = Value(e, AppliedIn(g, l))
  <2>1. /\ RankOK(config, dp, g, q, pc[q], buffer[q], params[q], main_params[q], main_grads[q], results[q])
        /\ Len(results[q]) = l /\ l \in 0 .. MaxSteps
    BY <1>3, OfRank
  <2>2. Number(config, pc[q]) = 0
    BY <1>1, <1>3, PhasesAre DEF At
  <2>3. main_params[q][e] = Value(e, AppliedIn(g, l) + 0)
    BY <1>2, <2>1, <2>2 DEF RankOK, MainOK
  <2>4. AppliedIn(g, l) \in 0 .. l
    BY <2>1, HistIs DEF Witnesses
  <2> QED BY <2>3, <2>4
<1> QED BY <1>5, <1>7, <1>8, <1>9

\* A save keeps the state explained.
LEMMA SaveKeeps ==
  ASSUME NEW g \in Witnesses, Explained(g), Save
  PROVE  Explained(g)'
<1> DEFINE h == results[<<0, 0>>]
<1>1. /\ At(Ranks, "train") /\ \A r, q \in Ranks : results[r] = results[q]
      /\ disk' = [results |-> h,
                  params |-> [m \in Positions |-> params[<<0, m>>]],
                  scaler |-> [m \in Positions |-> scaler[<<0, m>>]],
                  main |-> [m \in Positions |->
                     IF config.distributed THEN WorldTensor(m) ELSE main_params[<<0, m>>]]]
      /\ UNCHANGED <<config, dp, pc, buffer, params, main_params, main_grads, scaler, results, restarts>>
  BY DEF Save
<1>2. /\ config \in Configs /\ dp \in config.dp_sizes /\ Ranks = RanksOf(dp) /\ dp \in Nat \ {0}
      /\ \A m \in Positions : <<0, m>> \in Ranks
  <2>1. config \in Configs /\ dp \in config.dp_sizes /\ Ranks = RanksOf(dp)
    BY DEF Explained, Ranks
  <2>2. dp \in Nat \ {0}
    BY <2>1, Job
  <2> QED BY <2>1, <2>2 DEF RanksOf
<1>3. /\ \A r \in Ranks : results[r] = h
      /\ Len(h) \in 0 .. MaxSteps /\ h = Hist(g, Len(h)) /\ AppliedIn(g, Len(h)) \in Nat
  <2>1. <<0, 0>> \in Ranks
    BY <1>2 DEF Positions
  <2>2. Len(h) \in 0 .. MaxSteps /\ h = Hist(g, Len(h))
    BY <2>1, OfRank
  <2>3. AppliedIn(g, Len(h)) \in Nat
    BY <2>2, HistIs DEF Witnesses
  <2> QED BY <1>1, <2>1, <2>2, <2>3
<1> HIDE DEF h
<1>4. ASSUME NEW m \in Positions
      PROVE  /\ ParamsOK(config, g, m, params[<<0, m>>], Len(h))
             /\ ~config.distributed => ParamsOK(config, g, m, main_params[<<0, m>>], Len(h))
  <2> DEFINE q == <<0, m>>
  <2>1. /\ q \in Ranks /\ q[2] = m
        /\ RankOK(config, dp, g, q, pc[q], buffer[q], params[q], main_params[q], main_grads[q], results[q])
    BY <1>2, OfRank
  <2> HIDE DEF q
  <2>2. Number(config, pc[q]) = 0
    BY <1>1, <1>2, <2>1, PhasesAre DEF At
  <2>3. ParamsOK(config, g, m, params[q], Len(h))
    BY <1>3, <2>1 DEF RankOK
  <2>4. main_params[q] = [e \in OwnedBy(config, dp, q) |-> Value(e, AppliedIn(g, Len(h)) + 0)]
    BY <1>3, <2>1, <2>2 DEF RankOK, MainOK
  <2>5. AppliedIn(g, Len(h)) + 0 = AppliedIn(g, Len(h))
    BY <1>3
  <2>6. ~config.distributed => OwnedBy(config, dp, q) = ElementsOf(config, m)
    BY <1>2, <2>1, AllOwned
  <2> QED BY <2>3, <2>4, <2>5, <2>6 DEF ParamsOK, q
<1>5. ASSUME config.distributed, NEW m \in Positions, NEW e \in ElementsOf(config, m)
      PROVE  WorldTensor(m)[CellAt(config, m, e)] = Value(e, AppliedIn(g, Len(h)))
  BY <1>1, <1>3, <1>5, TensorHas
<1>6. DiskOK(config, g, disk')
  <2>1. disk'.results = h
    BY <1>1
  <2>2. ASSUME NEW m \in Positions
        PROVE  /\ disk'.params[m] = params[<<0, m>>]
               /\ config.distributed => disk'.main[m] = WorldTensor(m)
               /\ ~config.distributed => disk'.main[m] = main_params[<<0, m>>]
    BY <1>1
  <2> QED BY <1>3, <1>4, <1>5, <2>1, <2>2 DEF DiskOK
<1>7. \A r \in Ranks : Len(disk'.results) <= Len(results[r])
  BY <1>1, <1>3
<1>8. Ranks' = Ranks
  BY <1>1 DEF Ranks
<1> QED BY <1>1, <1>6, <1>7, <1>8 DEF Explained

\* What a rank holds when it starts.
LEMMA RankStarts ==
  ASSUME NEW c \in Configs, NEW n, NEW g, NEW r, NEW buf, NEW par, NEW main, NEW grads, NEW h,
         DOMAIN buf = 0 .. NumelPadded(Numel(c, r[2]), n) - 1,
         Len(h) \in 0 .. MaxSteps, h = Hist(g, Len(h)), AppliedIn(g, Len(h)) \in Nat,
         \A k \in Len(h) + 1 .. MaxSteps : g[k],
         par = [e \in ElementsOf(c, r[2]) |-> Value(e, AppliedIn(g, Len(h)))],
         main = [e \in OwnedBy(c, n, r) |-> Value(e, AppliedIn(g, Len(h)))]
  PROVE  RankOK(c, n, g, r, "train", buf, par, main, grads, h)
<1>1. Number(c, "train") = 0 /\ "train" \in Phases(c)
  BY PhasesAre DEF Phases
<1>2. HistoryOK(c, n, g, "train", h) /\ BufferOK(c, n, g, r, "train", buf, main, h)
      /\ GradsOK(c, n, g, r, "train", grads, h) /\ ParamsOK(c, g, r[2], par, Len(h))
  BY <1>1 DEF HistoryOK, BufferOK, GradsOK, ParamsOK
<1>3. AppliedIn(g, Len(h)) + 0 = AppliedIn(g, Len(h))
  OBVIOUS
<1>4. MainOK(c, n, g, r, "train", main, h)
  BY <1>1, <1>3 DEF MainOK
<1> QED BY <1>2, <1>4 DEF RankOK

\* Ranks that start are in step.
LEMMA StartInStep ==
  ASSUME NEW c, NEW n, NEW phase, NEW history, NEW h,
         \A r \in RanksOf(n) : phase[r] = "train" /\ history[r] = h
  PROVE  InStep(c, n, phase, history)
BY DEF InStep, Passes

\* The state is explained at first.
LEMMA SyncInit == Init => SyncInv
<1> SUFFICES ASSUME Init PROVE SyncInv
  OBVIOUS
<1>1. PICK g : g = [i \in 1 .. MaxSteps |-> TRUE]
  OBVIOUS
<1>2. g \in Witnesses /\ 0 \in 0 .. MaxSteps /\ MaxRestarts \in Nat
  BY <1>1, BoundsAssumption DEF Witnesses
<1>3. AppliedIn(g, 0) = 0 /\ Hist(g, 0) = <<>> /\ Len(<<>>) = 0
  <2>1. AppliedIn(g, 0) \in 0 .. 0 /\ Hist(g, 0) \in Seq(BOOLEAN) /\ Len(Hist(g, 0)) = 0
    BY <1>2, HistIs DEF Witnesses
  <2> QED BY <2>1
<1>4. config \in Configs /\ dp \in config.dp_sizes /\ Ranks = RanksOf(dp) /\ restarts = 0
      /\ disk = NoCheckpoint
  BY DEF Init, Ranks
<1>5. ASSUME NEW r \in Ranks
      PROVE  RankOK(config, dp, g, r, pc[r], buffer[r], params[r], main_params[r], main_grads[r], results[r])
  <2>1. r \in RanksOf(dp) /\ r[2] \in Positions
    BY <1>4 DEF RanksOf
  <2>2. /\ pc[r] = "train" /\ results[r] = <<>> /\ DOMAIN buffer[r] = Cells(r[2])
        /\ params[r] = [e \in Elements(r[2]) |-> Value(e, 0)]
        /\ main_params[r] = [e \in Owned(r) |-> Value(e, 0)]
    BY DEF Init
  <2>3. /\ DOMAIN buffer[r] = 0 .. NumelPadded(Numel(config, r[2]), dp) - 1
        /\ params[r] = [e \in ElementsOf(config, r[2]) |-> Value(e, AppliedIn(g, 0))]
        /\ main_params[r] = [e \in OwnedBy(config, dp, r) |-> Value(e, AppliedIn(g, 0))]
    BY <1>3, <1>4, <2>1, <2>2, Terms
  <2>4. PICK h : h = results[r]
    OBVIOUS
  <2>5. /\ Len(h) \in 0 .. MaxSteps /\ h = Hist(g, Len(h)) /\ AppliedIn(g, Len(h)) \in Nat
        /\ \A k \in Len(h) + 1 .. MaxSteps : g[k]
        /\ AppliedIn(g, Len(h)) = AppliedIn(g, 0)
    BY <1>1, <1>2, <1>3, <2>2, <2>4
  <2>6. RankOK(config, dp, g, r, "train", buffer[r], params[r], main_params[r], main_grads[r], h)
    BY <1>4, <2>3, <2>5, RankStarts
  <2> QED BY <2>2, <2>4, <2>6
<1>6. InStep(config, dp, pc, results)
  <2>1. \A r \in RanksOf(dp) : pc[r] = "train" /\ results[r] = <<>>
    BY <1>4 DEF Init
  <2> QED BY <2>1, StartInStep
<1>7. DiskOK(config, g, disk) /\ \A r \in Ranks : Len(disk.results) <= Len(results[r])
  <2>1. disk.results = <<>>
    BY <1>4 DEF NoCheckpoint
  <2>2. \A r \in Ranks : results[r] = <<>>
    BY DEF Init
  <2> QED BY <1>2, <1>3, <1>4, <2>1, <2>2 DEF DiskOK
<1>8. Explained(g)
  BY SMTT(60), <1>2, <1>4, <1>5, <1>6, <1>7 DEF Explained, Init
<1> QED BY <1>2, <1>8 DEF SyncInv, Witnesses

\* A launch from the checkpoint is explained by a witness that agrees on
\* the steps up to it.
LEMMA RestartKeeps ==
  ASSUME NEW g \in Witnesses, Explained(g), NEW n \in config.dp_sizes, Restart(n)
  PROVE  \E h \in Witnesses : Explained(h)'
<1> DEFINE l == Len(disk.results)
<1>1. PICK h : h = [i \in 1 .. MaxSteps |-> IF i <= l THEN g[i] ELSE TRUE]
  OBVIOUS
<1>2. /\ config' = config /\ dp' = n /\ disk' = disk /\ restarts' = restarts + 1
      /\ restarts < MaxRestarts /\ disk # NoCheckpoint /\ Ranks' = RanksOf(n)
      /\ pc' = [r \in RanksOf(n) |-> "train"]
      /\ buffer' = [r \in RanksOf(n) |-> [j \in CellsOf(r[2], n) |-> Zero]]
      /\ params' = [r \in RanksOf(n) |-> disk.params[r[2]]]
      /\ main_params' = [r \in RanksOf(n) |-> [e \in DOMAIN RangeMap[config][n][r] |-> Loaded(r, n, e)]]
      /\ main_grads' = [r \in RanksOf(n) |-> <<>>]
      /\ scaler' = [r \in RanksOf(n) |-> disk.scaler[r[2]]]
      /\ results' = [r \in RanksOf(n) |-> disk.results]
  BY DEF Restart, Ranks
<1>3. /\ config \in Configs /\ restarts \in 0 .. MaxRestarts /\ DiskOK(config, g, disk)
      /\ MaxSteps \in Nat /\ MaxRestarts \in Nat
  BY BoundsAssumption DEF Explained
<1>4. l \in 0 .. MaxSteps /\ disk.results = Hist(g, l)
  BY <1>3 DEF DiskOK
<1>5. h \in Witnesses /\ (\A i \in 1 .. l : g[i] = h[i]) /\ (\A k \in l + 1 .. MaxSteps : h[k])
  <2>1. PICK k \in 0 .. MaxSteps : k = l
    BY <1>4
  <2> HIDE DEF l
  <2>2. h \in Witnesses
    BY <1>1, <1>3 DEF Witnesses
  <2>3. ASSUME NEW i \in 1 .. k PROVE g[i] = h[i]
    <3>1. i \in 1 .. MaxSteps /\ i <= k
      BY <1>3
    <3> QED BY <1>1, <2>1, <3>1
  <2>4. ASSUME NEW i \in k + 1 .. MaxSteps PROVE h[i] = TRUE
    <3>1. i \in 1 .. MaxSteps /\ ~(i <= k)
      BY <1>3
    <3> QED BY <1>1, <2>1, <3>1
  <2> QED BY <2>1, <2>2, <2>3, <2>4
<1>6. Hist(g, l) = Hist(h, l) /\ AppliedIn(g, l) = AppliedIn(h, l) /\ AppliedIn(g, l) \in Nat
  <2>1. AppliedIn(g, l) \in Nat
    BY <1>4, HistIs DEF Witnesses
  <2>2. l \in Nat
    BY <1>4
  <2> QED BY <1>5, <2>1, <2>2, Agree
<1>7. DiskOK(config, h, disk)
  BY <1>3, <1>6 DEF DiskOK, ParamsOK
<1>8. ASSUME NEW r \in RanksOf(n)
      PROVE  RankOK(config, n, h, r, pc'[r], buffer'[r], params'[r], main_params'[r], main_grads'[r], results'[r])
  <2>1. r[2] \in Positions /\ DOMAIN RangeMap[config][n][r] = OwnedBy(config, n, r)
    BY <1>3 DEF RanksOf, RangeMap
  <2>2. DOMAIN buffer'[r] = 0 .. NumelPadded(Numel(config, r[2]), n) - 1
    BY <1>2 DEF CellsOf
  <2>3. params'[r] = [e \in ElementsOf(config, r[2]) |-> Value(e, AppliedIn(h, l))]
    BY <1>2, <1>7, <2>1 DEF DiskOK, ParamsOK
  <2>4. ASSUME NEW e \in OwnedBy(config, n, r) PROVE Loaded(r, n, e) = Value(e, AppliedIn(h, l))
    <3>1. e \in ElementsOf(config, r[2])
      BY DEF OwnedBy
    <3>2. CASE config.distributed
      <4>1. r[1] * Shard(r[2], n) + RangeMap[config][n][r][e].gbuf_local = CellAt(config, r[2], e)
        <5>1. SliceStart(config, n, r[2], r[1]) + GbufLocalAt(config, n, r, e) = CellAt(config, r[2], e)
          BY <1>3, <3>2, OwnedIs
        <5> QED BY <5>1 DEF SliceStart, GbufLocalAt, Shard
      <4>2. Loaded(r, n, e) = disk.main[r[2]][CellAt(config, r[2], e)]
        BY <3>2, <4>1 DEF Loaded
      <4>3. disk.main[r[2]][CellAt(config, r[2], e)] = Value(e, AppliedIn(h, l))
        BY <1>2, <1>7, <2>1, <3>1, <3>2 DEF DiskOK
      <4> QED BY <4>2, <4>3
    <3>3. CASE ~config.distributed
      <4>1. disk.main[r[2]] = [x \in ElementsOf(config, r[2]) |-> Value(x, AppliedIn(h, l))]
        BY <1>2, <1>7, <2>1, <3>3 DEF DiskOK, ParamsOK
      <4>2. Loaded(r, n, e) = disk.main[r[2]][e]
        BY <3>3 DEF Loaded
      <4> QED BY <3>1, <4>1, <4>2
    <3> QED BY <3>2, <3>3
  <2>5. main_params'[r] = [e \in OwnedBy(config, n, r) |-> Value(e, AppliedIn(h, l))]
    BY <1>2, <2>1, <2>4
  <2>6. PICK hist, par, main : hist = results'[r] /\ par = params'[r] /\ main = main_params'[r]
    OBVIOUS
  <2>7. /\ Len(hist) = l /\ Len(hist) \in 0 .. MaxSteps /\ hist = Hist(h, Len(hist))
        /\ AppliedIn(h, Len(hist)) \in Nat /\ \A k \in Len(hist) + 1 .. MaxSteps : h[k]
    BY <1>2, <1>4, <1>5, <1>6, <2>6
  <2>8. /\ par = [e \in ElementsOf(config, r[2]) |-> Value(e, AppliedIn(h, Len(hist)))]
        /\ main = [e \in OwnedBy(config, n, r) |-> Value(e, AppliedIn(h, Len(hist)))]
    BY <2>3, <2>5, <2>6, <2>7
  <2>9. PICK buf, grads : buf = buffer'[r] /\ grads = main_grads'[r]
    OBVIOUS
  <2>10. RankOK(config, n, h, r, "train", buf, par, main, grads, hist)
    BY <1>3, <2>2, <2>7, <2>8, <2>9, RankStarts
  <2> QED BY <1>2, <2>6, <2>9, <2>10
<1>9. InStep(config, n, pc', results')
  <2>1. PICK phase, history, d : phase = pc' /\ history = results' /\ d = disk.results
    OBVIOUS
  <2>2. \A r \in RanksOf(n) : phase[r] = "train" /\ history[r] = d
    BY <1>2, <2>1
  <2>3. InStep(config, n, phase, history)
    BY <2>2, StartInStep
  <2> QED BY <2>1, <2>3
<1>10. \A r \in RanksOf(n) : Len(disk.results) <= Len(results'[r])
  BY <1>2, <1>4
<1>11. restarts' \in 0 .. MaxRestarts
  BY <1>2, <1>3
<1>12. Explained(h)'
  BY <1>2, <1>3, <1>7, <1>8, <1>9, <1>10, <1>11 DEF Explained
<1> QED BY <1>5, <1>12

-----------------------------------------------------------------------------
(***************************************************************************)
(* The invariant holds.                                                    *)
(***************************************************************************)

\* The steps that decide nothing anew.
Acts ==
  \/ \E r \in Ranks : Unscale(r)
  \/ \E d \in 0 .. dp-1 : AllreduceShared(d)
  \/ \E m \in Positions : AllreduceGradients(m) \/ ReduceScatter(m) \/ AllGather(m)
  \/ \E r \in Ranks : FoundInf(ModelParallelGroup(r)) \/ ClipAndStep(ModelParallelGroup(r))

\* The steps of a job.
LEMMA StepsAre ==
  ASSUME Step
  PROVE  Acts \/ \E r \in Ranks, inf \in BOOLEAN : ForwardBackward(r, inf)
<1>1. CASE \E r \in Ranks : LET G == ModelParallelGroup(r) IN FoundInf(G) \/ ClipAndStep(G)
  <2>1. PICK r \in Ranks : FoundInf(ModelParallelGroup(r)) \/ ClipAndStep(ModelParallelGroup(r))
    BY <1>1
  <2> QED BY <2>1 DEF Acts
<1>2. CASE ~\E r \in Ranks : LET G == ModelParallelGroup(r) IN FoundInf(G) \/ ClipAndStep(G)
  BY <1>2 DEF Step, Acts
<1> QED BY <1>1, <1>2

\* They keep the state explained, by the same witness.
LEMMA ActsKeep ==
  ASSUME NEW g \in Witnesses, Explained(g), ScalersInv, Acts
  PROVE  Explained(g)'
<1>1. ASSUME NEW r \in Ranks, Unscale(r) PROVE Explained(g)'
  BY <1>1, UnscaleKeeps
<1>2. ASSUME NEW d \in 0 .. dp-1, AllreduceShared(d) PROVE Explained(g)'
  BY <1>2, AllreduceSharedKeeps
<1>3. ASSUME NEW m \in Positions, AllreduceGradients(m) PROVE Explained(g)'
  BY <1>3, AllreduceGradientsKeeps
<1>4. ASSUME NEW m \in Positions, ReduceScatter(m) PROVE Explained(g)'
  BY <1>4, ReduceScatterKeeps
<1>5. ASSUME NEW m \in Positions, AllGather(m) PROVE Explained(g)'
  BY <1>5, AllGatherKeeps
<1>6. ASSUME NEW r \in Ranks, FoundInf(ModelParallelGroup(r)) PROVE Explained(g)'
  BY <1>6, FoundInfKeeps
<1>7. ASSUME NEW r \in Ranks, ClipAndStep(ModelParallelGroup(r)) PROVE Explained(g)'
  BY <1>7, ClipAndStepKeeps
<1> QED BY <1>1, <1>2, <1>3, <1>4, <1>5, <1>6, <1>7 DEF Acts

\* Every step keeps the invariant.
LEMMA SyncStep == ScalersInv /\ SyncInv /\ [Next]_vars => SyncInv'
<1> SUFFICES ASSUME ScalersInv, SyncInv, [Next]_vars PROVE SyncInv'
  OBVIOUS
<1>1. PICK g \in Witnesses : Explained(g)
  BY DEF SyncInv, Witnesses
<1>2. CASE Acts
  <2>1. Explained(g)'
    BY <1>1, <1>2, ActsKeep
  <2> QED BY <2>1 DEF SyncInv, Witnesses
<1>3. ASSUME NEW r \in Ranks, NEW inf \in BOOLEAN, ForwardBackward(r, inf) PROVE SyncInv'
  <2>1. \E h \in Witnesses : Explained(h)'
    BY <1>1, <1>3, ForwardBackwardKeeps
  <2> QED BY <2>1 DEF SyncInv, Witnesses
<1>4. CASE Save
  <2>1. Explained(g)'
    BY <1>1, <1>4, SaveKeeps
  <2> QED BY <2>1 DEF SyncInv, Witnesses
<1>5. ASSUME NEW n \in config.dp_sizes, Restart(n) PROVE SyncInv'
  <2>1. \E h \in Witnesses : Explained(h)'
    BY <1>1, <1>5, RestartKeeps
  <2> QED BY <2>1 DEF SyncInv, Witnesses
<1>6. CASE UNCHANGED vars
  <2>1. Explained(g)'
    BY <1>1, <1>6 DEF vars, Explained, Ranks
  <2> QED BY <2>1 DEF SyncInv, Witnesses
<1> QED BY <1>2, <1>3, <1>4, <1>5, <1>6, StepsAre DEF Next, Trained

\* What is kept for every rank is a function of the ranks.
ByRank == /\ pc = [r \in Ranks |-> pc[r]] /\ scaler = [r \in Ranks |-> scaler[r]]
          /\ results = [r \in Ranks |-> results[r]]

\* It is at first.
LEMMA ByRankInit == Init => ByRank
BY DEF Init, ByRank

\* It stays so.
LEMMA ByRankStep == ByRank /\ [Next]_vars => ByRank'
<1> SUFFICES ASSUME ByRank, [Next]_vars PROVE ByRank'
  OBVIOUS
<1>1. ASSUME NEW r \in Ranks, NEW inf \in BOOLEAN, ForwardBackward(r, inf) PROVE ByRank'
  BY <1>1 DEF ForwardBackward, Goto, ByRank, Ranks
<1>2. ASSUME NEW r \in Ranks, Unscale(r) PROVE ByRank'
  BY <1>2 DEF Unscale, Goto, ByRank, Ranks
<1>3. ASSUME NEW d \in 0 .. dp-1, AllreduceShared(d) PROVE ByRank'
  BY <1>3 DEF AllreduceShared, GotoAfter, ByRank, Ranks
<1>4. ASSUME NEW m \in Positions, AllreduceGradients(m) \/ ReduceScatter(m) PROVE ByRank'
  BY <1>4 DEF AllreduceGradients, ReduceScatter, GotoAfter, ByRank, Ranks
<1>5. ASSUME NEW m \in Positions, AllGather(m) PROVE ByRank'
  BY <1>5 DEF AllGather, Goto, ByRank, Ranks
<1>6. ASSUME NEW r \in Ranks, FoundInf(ModelParallelGroup(r)) PROVE ByRank'
  BY <1>6 DEF FoundInf, Goto, ByRank, Ranks
<1>7. ASSUME NEW r \in Ranks, ClipAndStep(ModelParallelGroup(r)) PROVE ByRank'
  <2>1. PICK G : G = ModelParallelGroup(r)
    OBVIOUS
  <2>2. /\ \E p : pc' = [q \in Ranks |-> IF q \in G THEN p ELSE pc[q]]
        /\ \/ UNCHANGED results
           \/ results' = [q \in Ranks |-> IF q \in G THEN Append(results[q], TRUE) ELSE results[q]]
        /\ UNCHANGED <<dp, scaler>>
    <3>1. CASE config.distributed
      BY ZenonT(60), <1>7, <2>1, <3>1 DEF ClipAndStep, Goto
    <3>2. CASE ~config.distributed
      BY <1>7, <2>1, <3>2 DEF ClipAndStep, Goto
    <3> QED BY <3>1, <3>2
  <2> QED BY <2>2 DEF ByRank, Ranks
<1>8. CASE Save
  BY <1>8 DEF Save, ByRank, Ranks
<1>9. ASSUME NEW n \in config.dp_sizes, Restart(n) PROVE ByRank'
  BY <1>9 DEF Restart, ByRank, Ranks
<1>10. CASE UNCHANGED vars
  BY <1>10 DEF vars, ByRank, Ranks
<1> QED BY <1>1, <1>2, <1>3, <1>4, <1>5, <1>6, <1>7, <1>8, <1>9, <1>10, StepsAre
        DEF Next, Trained, Acts

\* An explained state is of the right types.
LEMMA TypesExplained == ScalersInv /\ SyncInv /\ ByRank => TypeOK
<1> SUFFICES ASSUME ScalersInv, SyncInv, ByRank PROVE TypeOK
  OBVIOUS
<1>1. PICK g \in Witnesses : Explained(g)
  BY DEF SyncInv, Witnesses
<1>2. /\ config \in Configs /\ dp \in config.dp_sizes /\ Ranks = RanksOf(dp)
      /\ restarts \in 0 .. MaxRestarts
      /\ DOMAIN buffer = Ranks /\ DOMAIN params = Ranks /\ DOMAIN main_params = Ranks
  BY <1>1 DEF Explained, Ranks
<1>3. ASSUME NEW r \in Ranks
      PROVE  /\ pc[r] \in {"train", "layernorm", "embedding", "allreduce", "scatter",
                           "unscale", "found_inf", "clip", "gather"}
             /\ DOMAIN buffer[r] = Cells(r[2]) /\ DOMAIN params[r] = Elements(r[2])
             /\ DOMAIN main_params[r] = OwnedBy(config, dp, r)
             /\ \A e \in DOMAIN main_params[r] :
                  main_params[r][e] \in {Value(e, n) : n \in 0 .. MaxSteps}
  <2>1. /\ r \in RanksOf(dp) /\ r[2] \in Positions /\ pc[r] \in Phases(config)
        /\ RankOK(config, dp, g, r, pc[r], buffer[r], params[r], main_params[r], main_grads[r], results[r])
        /\ HistoryOK(config, dp, g, pc[r], results[r])
        /\ Len(results[r]) \in 0 .. MaxSteps
    BY <1>1, OfRank
  <2>2. pc[r] \in {"train", "layernorm", "embedding", "allreduce", "scatter",
                   "unscale", "found_inf", "clip", "gather"}
    BY <1>2, <2>1, PhasesAre DEF Phases
  <2>3. DOMAIN buffer[r] = Cells(r[2])
    BY <1>2, <2>1, Terms DEF RankOK, BufferOK
  <2>4. DOMAIN params[r] = Elements(r[2])
    BY <1>2, <2>1, Terms DEF RankOK, ParamsOK
  <2> DEFINE n == AppliedIn(g, Len(results[r])) + (IF Number(config, pc[r]) = 6 THEN 1 ELSE 0)
  <2>5. main_params[r] = [e \in OwnedBy(config, dp, r) |-> Value(e, n)]
    BY <2>1 DEF RankOK, MainOK
  <2>6. n \in 0 .. MaxSteps
    <3>1. AppliedIn(g, Len(results[r])) \in 0 .. Len(results[r])
      BY <1>1, <2>1, HistIs DEF Witnesses
    <3>2. Number(config, pc[r]) = 6 => Len(results[r]) < MaxSteps
      <4>1. 6 > 0
        OBVIOUS
      <4> QED BY <2>1, <4>1 DEF HistoryOK
    <3> QED BY <2>1, <3>1, <3>2, BoundsAssumption
  <2> HIDE DEF n
  <2> QED BY <2>2, <2>3, <2>4, <2>5, <2>6
<1>4. ASSUME NEW m \in Positions, NEW e \in Elements(m)
      PROVE  LET owners == {r \in DataParallel(m) : e \in DOMAIN main_params[r]}
             IN IF config.distributed THEN Cardinality(owners) = 1 ELSE owners = DataParallel(m)
  <2> DEFINE owners == {r \in DataParallel(m) : e \in DOMAIN main_params[r]}
  <2>1. e \in ElementsOf(config, m)
    BY <1>2, Terms
  <2>2. /\ DataParallel(m) = (0 .. dp-1) \X {m} /\ DataParallel(m) \in SUBSET Ranks
        /\ \A r \in DataParallel(m) : r[2] = m /\ r[1] \in 0 .. dp-1 /\ r = <<r[1], m>>
    BY <1>1, DataGroup
  <2>3. owners = {r \in DataParallel(m) : e \in OwnedBy(config, dp, r)}
    BY <1>3, <2>2
  <2> HIDE DEF owners
  <2>4. CASE config.distributed
    <3>1. /\ SliceOf(config, dp, m, e) \in 0 .. dp-1
          /\ \A d \in 0 .. dp-1 : e \in OwnedBy(config, dp, <<d, m>>) <=> d = SliceOf(config, dp, m, e)
      BY <1>2, <2>1, <2>4, Owner
    <3>2. owners = {<<SliceOf(config, dp, m, e), m>>}
      BY <2>2, <2>3, <3>1
    <3>3. Cardinality(owners) = 1
      BY <3>2, FS_Singleton
    <3> QED BY <2>4, <3>3 DEF owners
  <2>5. CASE ~config.distributed
    <3>1. owners = DataParallel(m)
      BY <1>2, <2>1, <2>2, <2>3, <2>5, AllOwned
    <3> QED BY <2>5, <3>1 DEF owners
  <2> QED BY <2>4, <2>5
<1>5. \A r \in Ranks : scaler[r] \in ScalerType
  BY <1>1, ScalerOfRank
<1>6. \A r \in Ranks : results[r] \in Seq(BOOLEAN)
  BY DEF ScalersInv
<1>7. /\ pc \in [Ranks -> {"train", "layernorm", "embedding", "allreduce", "scatter",
                           "unscale", "found_inf", "clip", "gather"}]
      /\ scaler \in [Ranks -> ScalerType] /\ results \in [Ranks -> Seq(BOOLEAN)]
  BY <1>3, <1>5, <1>6 DEF ByRank
<1> QED BY <1>2, <1>3, <1>4, <1>7 DEF TypeOK, ScalerType

\* The types of all variables, and that the optimizers of a data-parallel
\* group together own every element of the model (TypeOK), for every model,
\* any number of replicas, steps and restarts.
THEOREM TypeCorrect == Spec => []TypeOK
<1> QED BY ScalersInit, ScalersStep, SyncInit, SyncStep, ByRankInit, ByRankStep, TypesExplained, PTL
        DEF Spec

-----------------------------------------------------------------------------
(***************************************************************************)
(* The optimizers implement SynchronousOptimizer.                          *)
(***************************************************************************)

\* The decisions are the results of a rank that is ahead, ...
LongestOf(R, history) ==
  CHOOSE h \in {history[r] : r \in R} : \A r \in R : Len(history[r]) <= Len(h)

Recorded(R, history, g) ==
  \A r \in R : Len(history[r]) \in 0 .. MaxSteps /\ history[r] = Hist(g, Len(history[r]))

\* Recorded histories are the beginnings of the longest one.
LEMMA LongestIs ==
  ASSUME NEW R, R # {}, NEW history, NEW g, Recorded(R, history, g)
  PROVE  \E l \in 0 .. MaxSteps :
           /\ LongestOf(R, history) = Hist(g, l) /\ Len(LongestOf(R, history)) = l
           /\ \E r \in R : Len(history[r]) = l
           /\ \A r \in R : Len(history[r]) <= l
<1>1. \A r \in R : Len(history[r]) \in 0 .. MaxSteps /\ history[r] = Hist(g, Len(history[r]))
  BY DEF Recorded
<1>2. \E r \in R : \A q \in R : Len(history[q]) <= Len(history[r])
  <2> DEFINE T == {b \in Nat : \E r \in R : b <= Len(history[r])}
  <2>1. SUFFICES ASSUME \A r \in R : \E q \in R : ~(Len(history[q]) <= Len(history[r])) PROVE FALSE
    OBVIOUS
  <2>2. 0 \in T
    BY <1>1
  <2>3. ASSUME NEW b \in T PROVE b + 1 \in T
    <3>1. PICK r \in R : b <= Len(history[r])
      OBVIOUS
    <3>2. PICK q \in R : ~(Len(history[q]) <= Len(history[r]))
      BY <2>1
    <3>3. Len(history[q]) \in Nat /\ Len(history[r]) \in Nat /\ b \in Nat
      BY <1>1
    <3>4. b + 1 <= Len(history[q])
      BY <3>1, <3>2, <3>3
    <3> QED BY <3>3, <3>4
  <2>4. T = Nat
    <3>1. T \in SUBSET Nat
      OBVIOUS
    <3> HIDE DEF T
    <3> QED BY <2>2, <2>3, <3>1, SetInduction
  <2>5. MaxSteps + 1 \in T
    <3>1. MaxSteps + 1 \in Nat
      BY BoundsAssumption
    <3> HIDE DEF T
    <3> QED BY <2>4, <3>1
  <2> QED BY <1>1, <2>5, BoundsAssumption
<1> DEFINE H == {history[r] : r \in R}
           P(h) == \A r \in R : Len(history[r]) <= Len(h)
           L == CHOOSE h \in H : P(h)
<1>3. L \in H /\ P(L)
  <2>1. \E h \in H : P(h)
    BY <1>2
  <2> HIDE DEF P, H
  <2> QED BY <2>1
<1>4. PICK r \in R : L = history[r]
  BY <1>3
<1>5. L = LongestOf(R, history)
  BY DEF LongestOf
<1>6. P(L)
  BY <1>3
<1> HIDE DEF L
<1> QED BY <1>1, <1>4, <1>5, <1>6

\* ... and the steps applied to a rank's parameters those of its results.
StepsOf(c, m, par) ==
  IF \E n \in 0 .. MaxSteps : par = [e \in ElementsOf(c, m) |-> Value(e, n)]
  THEN par[CHOOSE e \in ElementsOf(c, m) : TRUE].steps ELSE Wrong

\* The parameters of an explained rank have had the steps applied by then.
LEMMA StepsOfIs ==
  ASSUME NEW c \in Configs, NEW m \in Positions, NEW g \in Witnesses, NEW par,
         NEW k \in 0 .. MaxSteps, ParamsOK(c, g, m, par, k)
  PROVE  StepsOf(c, m, par) = AppliedIn(g, k)
<1> DEFINE n == AppliedIn(g, k)
<1>1. n \in 0 .. k /\ k <= MaxSteps /\ MaxSteps \in Nat
  BY HistIs, BoundsAssumption DEF Witnesses
<1>2. n \in 0 .. MaxSteps
  BY <1>1
<1>3. par = [e \in ElementsOf(c, m) |-> Value(e, n)]
  BY DEF ParamsOK
<1>4. \E e : e \in ElementsOf(c, m)
  <2>1. /\ c.names[m] \in Seq(DOMAIN c.size) /\ c.names[m] # <<>>
        /\ \A i \in DOMAIN c.names[m] : c.size[c.names[m][i]] \in Nat \ {0}
    BY ConfigsAssumption
  <2>2. 1 \in DOMAIN c.names[m]
    BY <2>1
  <2>3. c.names[m][1] \in Names(c, m) /\ c.size[c.names[m][1]] \in Nat \ {0}
    BY <2>1, <2>2 DEF Names
  <2>4. 0 \in 0 .. c.size[c.names[m][1]] - 1
    BY <2>3
  <2>5. <<c.names[m][1], 0>> \in ElementsOf(c, m)
    BY <2>3, <2>4 DEF ElementsOf
  <2> QED BY <2>5
<1> DEFINE x == CHOOSE e \in ElementsOf(c, m) : TRUE
<1>5. x \in ElementsOf(c, m)
  BY <1>4
<1> HIDE DEF x, n
<1>6. par[x].steps = n
  BY <1>3, <1>5 DEF Value
<1> QED BY <1>2, <1>3, <1>6 DEF StepsOf, x, n

\* These are the terms of the refinement mapping.
LEMMA AbstractState ==
  ASSUME config \in Configs, dp \in config.dp_sizes
  PROVE  /\ Longest = LongestOf(Ranks, results)
         /\ \A r \in Ranks : StepsApplied(r) = StepsOf(config, r[2], params[r])
<1>1. Longest = LongestOf(Ranks, results)
  BY DEF Longest, LongestOf
<1>2. ASSUME NEW r \in Ranks PROVE StepsApplied(r) = StepsOf(config, r[2], params[r])
  <2>1. Elements(r[2]) = ElementsOf(config, r[2])
    BY Terms DEF Ranks, RanksOf
  <2> QED BY <2>1 DEF StepsApplied, StepsOf
<1> QED BY <1>1, <1>2

\* What the refinement makes of an explained state.
Mapped(R, history, decisions, steps, g, l) ==
  /\ g \in Witnesses /\ l \in 0 .. MaxSteps
  /\ decisions = Hist(g, l) /\ Len(decisions) = l
  /\ \A r \in R : Len(history[r]) \in 0 .. l
  /\ \E r \in R : Len(history[r]) = l
  /\ \A r \in R : steps[r] = AppliedIn(g, Len(history[r]))

\* Histories and parameters that are right are mapped so.
LEMMA MappedIs ==
  ASSUME NEW c \in Configs, NEW n \in c.dp_sizes, NEW g \in Witnesses,
         NEW history, NEW par, NEW decisions, NEW steps,
         Recorded(RanksOf(n), history, g),
         \A r \in RanksOf(n) : ParamsOK(c, g, r[2], par[r], Len(history[r])),
         decisions = LongestOf(RanksOf(n), history),
         \A r \in RanksOf(n) : steps[r] = StepsOf(c, r[2], par[r])
  PROVE  \E l \in 0 .. MaxSteps : Mapped(RanksOf(n), history, decisions, steps, g, l)
<1>1. RanksOf(n) # {}
  <2>1. <<0, 0>> \in RanksOf(n)
    BY Job DEF RanksOf, Positions
  <2> QED BY <2>1
<1>2. PICK l \in 0 .. MaxSteps :
        /\ LongestOf(RanksOf(n), history) = Hist(g, l) /\ Len(LongestOf(RanksOf(n), history)) = l
        /\ \E r \in RanksOf(n) : Len(history[r]) = l
        /\ \A r \in RanksOf(n) : Len(history[r]) <= l
  BY <1>1, LongestIs
<1>3. ASSUME NEW r \in RanksOf(n)
      PROVE  Len(history[r]) \in 0 .. l /\ steps[r] = AppliedIn(g, Len(history[r]))
  <2>1. Len(history[r]) \in 0 .. MaxSteps /\ Len(history[r]) <= l
    BY <1>2 DEF Recorded
  <2>2. r[2] \in Positions
    BY DEF RanksOf
  <2> QED BY <2>1, <2>2, StepsOfIs
<1> QED BY <1>2, <1>3 DEF Mapped

\* An explained state is mapped so.
LEMMA Maps ==
  ASSUME NEW g \in Witnesses, Explained(g)
  PROVE  \E l \in 0 .. MaxSteps : Mapped(Ranks, results, Longest, [r \in Ranks |-> StepsApplied(r)], g, l)
<1>1. config \in Configs /\ dp \in config.dp_sizes /\ Ranks = RanksOf(dp)
  BY DEF Explained, Ranks
<1>2. \A r \in Ranks : /\ ParamsOK(config, g, r[2], params[r], Len(results[r]))
                       /\ Len(results[r]) \in 0 .. MaxSteps /\ results[r] = Hist(g, Len(results[r]))
  BY OfRank DEF RankOK
<1>3. PICK steps : steps = [r \in Ranks |-> StepsApplied(r)]
  OBVIOUS
<1>4. \A r \in RanksOf(dp) : steps[r] = StepsOf(config, r[2], params[r])
  BY <1>1, <1>3, AbstractState
<1>5. Recorded(RanksOf(dp), results, g)
  BY <1>1, <1>2 DEF Recorded
<1>6. Longest = LongestOf(RanksOf(dp), results)
  BY <1>1, AbstractState
<1>7. \E l \in 0 .. MaxSteps : Mapped(RanksOf(dp), results, Longest, steps, g, l)
  BY <1>1, <1>2, <1>4, <1>5, <1>6, MappedIs
<1> QED BY <1>1, <1>3, <1>7

\* The same of the next state.
LEMMA MapsNext ==
  ASSUME config' = config, config \in Configs, NEW g \in Witnesses, Explained(g)'
  PROVE  \E l \in 0 .. MaxSteps :
           Mapped(Ranks', results', Longest', [r \in Ranks' |-> StepsApplied(r)'], g, l)
<1>1. PICK n, history, par : n = dp' /\ history = results' /\ par = params'
  OBVIOUS
<1>2. n \in config.dp_sizes /\ Ranks' = RanksOf(n)
  BY <1>1 DEF Explained, Ranks
<1>3. \A r \in RanksOf(n) : /\ ParamsOK(config, g, r[2], par[r], Len(history[r]))
                            /\ Len(history[r]) \in 0 .. MaxSteps /\ history[r] = Hist(g, Len(history[r]))
  BY <1>1, <1>2 DEF Explained, RankOK, HistoryOK
<1>4. PICK steps, longest : steps = [r \in Ranks' |-> StepsApplied(r)'] /\ longest = Longest'
  OBVIOUS
<1>5. ASSUME NEW r \in RanksOf(n) PROVE steps[r] = StepsOf(config, r[2], par[r])
  <2>1. Elements(r[2])' = ElementsOf(config, r[2])
    <3>1. r[2] \in Positions
      BY DEF RanksOf
    <3> QED BY <3>1 DEF Elements, Layout
  <2>2. steps[r] = StepsApplied(r)'
    BY <1>2, <1>4
  <2>3. PICK elements : elements = Elements(r[2])'
    OBVIOUS
  <2>4. StepsApplied(r)' = IF \E k \in 0 .. MaxSteps : par[r] = [e \in elements |-> Value(e, k)]
                           THEN par[r][CHOOSE e \in elements : TRUE].steps ELSE Wrong
    BY <1>1, <2>3 DEF StepsApplied
  <2> QED BY <2>1, <2>2, <2>3, <2>4 DEF StepsOf
<1>6. Recorded(RanksOf(n), history, g)
  BY <1>3 DEF Recorded
<1>7. longest = LongestOf(RanksOf(n), history)
  BY <1>1, <1>2, <1>4 DEF Longest, LongestOf
<1>8. \E l \in 0 .. MaxSteps : Mapped(RanksOf(n), history, longest, steps, g, l)
  BY <1>2, <1>3, <1>5, <1>6, <1>7, MappedIs
<1> QED BY <1>1, <1>2, <1>4, <1>8

\* The steps applied among the first k of the decisions.
LEMMA AppliedOf ==
  ASSUME NEW g, NEW l \in Nat, NEW k \in 0 .. l
  PROVE  Cardinality({i \in 1 .. k : Hist(g, l)[i]}) = AppliedIn(g, k)
<1>1. {i \in 1 .. k : Hist(g, l)[i]} = {i \in 1 .. k : g[i]}
  BY DEF Hist
<1> QED BY <1>1 DEF AppliedIn

\* Steps some ranks finish are an advance.
Advances(R, dec1, done1, steps1, dec2, done2, steps2) ==
  /\ done2 \in {f \in [R -> 0 .. Len(dec1) + 1] : \A r \in R : f[r] \in {done1[r], done1[r] + 1}}
  /\ IF \E r \in R : done2[r] > Len(dec1)
     THEN \E d \in BOOLEAN : dec2 = Append(dec1, d)
     ELSE dec2 = dec1
  /\ steps2 = [r \in R |-> IF done2[r] = done1[r] THEN steps1[r]
                           ELSE Cardinality({i \in 1 .. done2[r] : dec2[i]})]

\* When every rank finishes at most one step, the mapped states advance.
LEMMA AdvancesIs ==
  ASSUME NEW R, NEW g \in Witnesses, NEW history1, NEW dec1, NEW steps1, NEW l1 \in 0 .. MaxSteps,
         NEW history2, NEW dec2, NEW steps2, NEW l2 \in 0 .. MaxSteps,
         NEW done1, NEW done2,
         Mapped(R, history1, dec1, steps1, g, l1), Mapped(R, history2, dec2, steps2, g, l2),
         steps2 = [r \in R |-> steps2[r]],
         done1 = [r \in R |-> Len(history1[r])], done2 = [r \in R |-> Len(history2[r])],
         \A r \in R : \/ history2[r] = history1[r] \/ Len(history2[r]) = Len(history1[r]) + 1
  PROVE  Advances(R, dec1, done1, steps1, dec2, done2, steps2)
<1>1. /\ MaxSteps \in Nat /\ l1 \in Nat /\ l2 \in Nat /\ l1 <= MaxSteps /\ l2 <= MaxSteps
      /\ Len(dec1) = l1 /\ dec1 = Hist(g, l1) /\ dec2 = Hist(g, l2)
  BY BoundsAssumption DEF Mapped
<1>2. \A r \in R : /\ done1[r] \in 0 .. l1 /\ done2[r] \in 0 .. l2
                   /\ done2[r] = done1[r] \/ done2[r] = done1[r] + 1
                   /\ steps1[r] = AppliedIn(g, done1[r]) /\ steps2[r] = AppliedIn(g, done2[r])
  BY DEF Mapped
<1>3. (\E r \in R : done1[r] = l1) /\ (\E r \in R : done2[r] = l2)
  BY DEF Mapped
<1>4. \A r \in R : done1[r] \in Nat /\ done1[r] <= l1 /\ done2[r] \in Nat /\ done2[r] <= l2
  BY <1>1, <1>2
<1>5. l2 = l1 \/ l2 = l1 + 1
  BY <1>1, <1>2, <1>3, <1>4, SMTT(30)
<1>6. done2 \in {f \in [R -> 0 .. Len(dec1) + 1] : \A r \in R : f[r] \in {done1[r], done1[r] + 1}}
  <2>1. \A r \in R : done2[r] \in 0 .. l1 + 1
    BY <1>1, <1>4, <1>5
  <2>2. done2 \in [R -> 0 .. l1 + 1]
    BY <2>1
  <2> QED BY <1>1, <1>2, <2>2
<1>7. IF \E r \in R : done2[r] > Len(dec1)
      THEN \E d \in BOOLEAN : dec2 = Append(dec1, d) ELSE dec2 = dec1
  <2>1. CASE l2 = l1
    <3>1. \A r \in R : ~(done2[r] > l1)
      BY <1>1, <1>4, <2>1
    <3> QED BY <1>1, <2>1, <3>1
  <2>2. CASE l2 = l1 + 1
    <3>1. \E r \in R : done2[r] > l1
      BY <1>1, <1>3, <2>2
    <3>2. l1 < MaxSteps /\ l1 + 1 \in 1 .. MaxSteps
      BY <1>1, <2>2
    <3>3. Append(Hist(g, l1), g[l1 + 1]) = Hist(g, l1 + 1)
      BY <3>2, HistIs DEF Witnesses
    <3>4. g[l1 + 1] \in BOOLEAN
      BY <3>2 DEF Witnesses
    <3>5. PICK d \in BOOLEAN : d = g[l1 + 1]
      BY <3>4
    <3>6. dec2 = Append(dec1, d)
      BY <1>1, <2>2, <3>3, <3>5
    <3> QED BY <1>1, <3>1, <3>6
  <2> QED BY <1>5, <2>1, <2>2
<1>8. \A r \in R : steps2[r] = IF done2[r] = done1[r] THEN steps1[r]
                               ELSE Cardinality({i \in 1 .. done2[r] : dec2[i]})
  BY SMTT(60), <1>1, <1>2, AppliedOf
<1>9. steps2 = [r \in R |-> IF done2[r] = done1[r] THEN steps1[r]
                            ELSE Cardinality({i \in 1 .. done2[r] : dec2[i]})]
  BY <1>8
<1> QED BY <1>6, <1>7, <1>9 DEF Advances

\* A rank finishes at most one step in a step of the model.
LEMMA ActsFinish ==
  ASSUME Acts, \A r \in Ranks : results[r] \in Seq(BOOLEAN)
  PROVE  /\ UNCHANGED <<config, dp, disk>>
         /\ \A r \in Ranks : results'[r] = results[r] \/ Len(results'[r]) = Len(results[r]) + 1
<1> DEFINE Finish(G, b) ==
             results' = [r \in Ranks |-> IF r \in G THEN Append(results[r], b) ELSE results[r]]
           Goal == /\ UNCHANGED <<config, dp, disk>>
                   /\ UNCHANGED results \/ \E G : \E b \in BOOLEAN : Finish(G, b)
<1>1. ASSUME NEW r \in Ranks, Unscale(r) PROVE Goal
  BY <1>1 DEF Unscale
<1>2. ASSUME NEW d \in 0 .. dp-1, AllreduceShared(d) PROVE Goal
  BY <1>2 DEF AllreduceShared
<1>3. ASSUME NEW m \in Positions, AllreduceGradients(m) \/ ReduceScatter(m) PROVE Goal
  BY <1>3 DEF AllreduceGradients, ReduceScatter
<1>4. ASSUME NEW m \in Positions, AllGather(m) PROVE Goal
  <2>1. Finish(DataParallel(m), TRUE) /\ UNCHANGED <<config, dp, disk>>
    BY <1>4 DEF AllGather
  <2> QED BY <2>1
<1>5. ASSUME NEW r \in Ranks, FoundInf(ModelParallelGroup(r)) PROVE Goal
  <2>1. PICK G : G = ModelParallelGroup(r)
    OBVIOUS
  <2>2. PICK inf \in BOOLEAN : inf = (\E q \in G : IsInf(q))
    OBVIOUS
  <2>3. /\ UNCHANGED <<config, dp, disk>>
        /\ results' = [q \in Ranks |-> IF q \in G /\ inf THEN Append(results[q], FALSE) ELSE results[q]]
    BY <1>5, <2>1, <2>2 DEF FoundInf
  <2>4. CASE inf
    <3>1. Finish(G, FALSE)
      BY <2>3, <2>4
    <3> QED BY <2>3, <3>1
  <2>5. CASE ~inf
    <3>1. PICK none : none = {}
      OBVIOUS
    <3>2. Finish(none, FALSE)
      BY <2>3, <2>5, <3>1
    <3> QED BY <2>3, <3>2
  <2> QED BY <2>4, <2>5
<1>6. ASSUME NEW r \in Ranks, ClipAndStep(ModelParallelGroup(r)) PROVE Goal
  <2>1. PICK G : G = ModelParallelGroup(r)
    OBVIOUS
  <2>2. UNCHANGED results \/ Finish(G, TRUE)
    <3>1. CASE config.distributed
      BY <1>6, <2>1, <3>1 DEF ClipAndStep
    <3>2. CASE ~config.distributed
      BY <1>6, <2>1, <3>2 DEF ClipAndStep
    <3> QED BY <3>1, <3>2
  <2>3. UNCHANGED <<config, dp, disk>>
    BY <1>6 DEF ClipAndStep
  <2> QED BY <2>2, <2>3
<1>7. Goal
  BY <1>1, <1>2, <1>3, <1>4, <1>5, <1>6 DEF Acts
<1>8. ASSUME NEW G, NEW b \in BOOLEAN, Finish(G, b), NEW r \in Ranks
      PROVE  results'[r] = results[r] \/ Len(results'[r]) = Len(results[r]) + 1
  BY <1>8
<1> QED BY <1>7, <1>8

\* How the specification counts.
LEMMA SameCardinality == \A S : Synchronous!Cardinality(S) = Cardinality(S)
BY DEF Synchronous!Cardinality, Cardinality

\* What finishes steps implements Advance.
LEMMA ActsAdvance ==
  ASSUME ScalersInv, NEW g \in Witnesses, Explained(g), Acts
  PROVE  Synchronous!Advance
<1>1. /\ UNCHANGED <<config, dp, disk>>
      /\ \A r \in Ranks : results'[r] = results[r] \/ Len(results'[r]) = Len(results[r]) + 1
  <2>1. \A r \in Ranks : results[r] \in Seq(BOOLEAN)
    BY DEF ScalersInv
  <2> QED BY <2>1, ActsFinish
<1>2. Explained(g)' /\ config \in Configs /\ Ranks' = Ranks
  BY <1>1, ActsKeep DEF Explained, Ranks
<1>3. PICK steps1, done1, dec1 :
        /\ steps1 = [r \in Ranks |-> StepsApplied(r)] /\ dec1 = Longest
        /\ done1 = [r \in Ranks |-> Len(results[r])]
  OBVIOUS
<1>4. PICK steps2, done2, dec2, history2 :
        /\ steps2 = [r \in Ranks' |-> StepsApplied(r)'] /\ dec2 = Longest'
        /\ done2 = [r \in Ranks' |-> Len(results'[r])] /\ history2 = results'
  OBVIOUS
<1>5. PICK l1 \in 0 .. MaxSteps : Mapped(Ranks, results, dec1, steps1, g, l1)
  BY <1>3, Maps
<1>6. PICK l2 \in 0 .. MaxSteps : Mapped(Ranks, history2, dec2, steps2, g, l2)
  <2>1. \E l \in 0 .. MaxSteps : Mapped(Ranks', results', Longest', steps2, g, l)
    BY <1>1, <1>2, <1>4, MapsNext
  <2> QED BY <1>2, <1>4, <2>1
<1>7. Advances(Ranks, dec1, done1, steps1, dec2, done2, steps2)
  <2>1. /\ steps2 = [r \in Ranks |-> steps2[r]] /\ done2 = [r \in Ranks |-> Len(history2[r])]
        /\ \A r \in Ranks : history2[r] = results[r] \/ Len(history2[r]) = Len(results[r]) + 1
    BY <1>1, <1>2, <1>4
  <2> QED BY <1>3, <1>5, <1>6, <2>1, AdvancesIs
<1>8. Synchronous!World = Ranks
  BY DEF Synchronous!World
<1>9. Len(disk.results)' = Len(disk.results)
  BY <1>1
<1>10. /\ [r \in Ranks |-> Len(results[r])]' = done2 /\ [r \in Ranks |-> StepsApplied(r)]' = steps2
  BY <1>4
<1>11. \A k : Synchronous!Applied(dec2, k) = Cardinality({i \in 1 .. k : dec2[i]})
  BY SameCardinality DEF Synchronous!Applied
<1>12. /\ done2 \in {f \in [Ranks -> 0 .. Len(dec1) + 1] : \A r \in Ranks : f[r] \in {done1[r], done1[r] + 1}}
       /\ IF \E r \in Ranks : done2[r] > Len(dec1)
          THEN \E d \in BOOLEAN : dec2 = Append(dec1, d) ELSE dec2 = dec1
       /\ steps2 = [r \in Ranks |-> IF done2[r] = done1[r] THEN steps1[r]
                                    ELSE Synchronous!Applied(dec2, done2[r])]
  BY <1>7, <1>11 DEF Advances
<1> QED BY <1>3, <1>4, <1>8, <1>9, <1>10, <1>12 DEF Synchronous!Advance

\* What changes neither histories nor parameters is a stutter.
LEMMA QuietStep ==
  ASSUME UNCHANGED <<config, dp, params, results, disk>>
  PROVE  UNCHANGED Synchronous!vars
<1>1. Ranks' = Ranks /\ Longest' = Longest
  BY DEF Ranks, Longest
<1>2. ASSUME NEW r \in Ranks PROVE StepsApplied(r)' = StepsApplied(r)
  BY DEF StepsApplied, Elements
<1>3. [r \in Ranks |-> StepsApplied(r)]' = [r \in Ranks |-> StepsApplied(r)]
  BY <1>1, <1>2
<1>4. [r \in Ranks |-> Len(results[r])]' = [r \in Ranks |-> Len(results[r])]
  BY <1>1
<1> QED BY <1>1, <1>3, <1>4 DEF Synchronous!vars

\* A save is one of all ranks at the same step.
LEMMA SaveIsSave ==
  ASSUME NEW g \in Witnesses, Explained(g), Save
  PROVE  Synchronous!Save
<1>1. /\ \A r, q \in Ranks : results[r] = results[q]
      /\ disk'.results = results[<<0, 0>>]
      /\ UNCHANGED <<config, dp, params, results>>
  BY DEF Save
<1>2. Ranks' = Ranks /\ Longest' = Longest
  BY <1>1 DEF Ranks, Longest
<1>3. [r \in Ranks |-> StepsApplied(r)]' = [r \in Ranks |-> StepsApplied(r)]
  <2>1. ASSUME NEW r \in Ranks PROVE StepsApplied(r)' = StepsApplied(r)
    BY <1>1 DEF StepsApplied, Elements
  <2> QED BY <1>2, <2>1
<1>4. [r \in Ranks |-> Len(results[r])]' = [r \in Ranks |-> Len(results[r])]
  BY <1>1, <1>2
<1>5. \A r \in Ranks : Len(results[r]) = Len(Longest)
  <2>1. PICK l \in 0 .. MaxSteps : Mapped(Ranks, results, Longest, [r \in Ranks |-> StepsApplied(r)], g, l)
    BY Maps
  <2>2. \E r \in Ranks : Len(results[r]) = l /\ Len(Longest) = l
    BY <2>1 DEF Mapped
  <2> QED BY <1>1, <2>2
<1>6. <<0, 0>> \in Ranks
  <2>1. config \in Configs /\ dp \in config.dp_sizes
    BY DEF Explained
  <2>2. dp \in Nat \ {0}
    BY <2>1, Job
  <2> QED BY <2>2 DEF Ranks, RanksOf, Positions
<1>7. Len(disk.results)' = Len(Longest)
  BY <1>1, <1>5, <1>6
<1> QED BY <1>2, <1>3, <1>4, <1>5, <1>7 DEF Synchronous!Save, Synchronous!World

\* A launch goes back to the checkpoint.
LEMMA RestartIsRestart ==
  ASSUME NEW g \in Witnesses, Explained(g), NEW n \in config.dp_sizes, Restart(n)
  PROVE  Synchronous!Restart
<1>1. /\ UNCHANGED <<config, disk>> /\ Ranks' = RanksOf(n)
      /\ results' = [r \in RanksOf(n) |-> disk.results]
  BY DEF Restart, Ranks
<1>2. config \in Configs /\ MaxSteps \in Nat
  BY BoundsAssumption DEF Explained
<1>3. PICK h \in Witnesses : Explained(h)'
  BY RestartKeeps
<1>4. PICK d, k : d = disk.results /\ k = Len(d)
  OBVIOUS
<1>5. k \in 0 .. MaxSteps /\ d = Hist(g, k) /\ k \in Nat
  BY <1>2, <1>4 DEF Explained, DiskOK
<1>6. PICK steps2, dec2, history2 :
        /\ steps2 = [r \in Ranks' |-> StepsApplied(r)'] /\ dec2 = Longest' /\ history2 = results'
  OBVIOUS
<1>7. PICK l2 \in 0 .. MaxSteps : Mapped(RanksOf(n), history2, dec2, steps2, h, l2)
  BY <1>1, <1>2, <1>3, <1>6, MapsNext
<1>8. /\ l2 = k /\ dec2 = Hist(h, k) /\ \A r \in RanksOf(n) : steps2[r] = AppliedIn(h, k)
  BY <1>1, <1>4, <1>6, <1>7 DEF Mapped
<1>9. Hist(h, k) = Hist(g, k) /\ AppliedIn(h, k) = AppliedIn(g, k)
  <2>1. PICK r \in RanksOf(n) : TRUE
    BY <1>7 DEF Mapped
  <2>2. HistoryOK(config, n, h, pc'[r], results'[r])
    <3>1. RankOK(config', dp', h, r, pc'[r], buffer'[r], params'[r], main_params'[r], main_grads'[r],
                 results'[r])
      BY <1>1, <1>3 DEF Explained
    <3>2. config' = config /\ dp' = n
      BY <1>1 DEF Restart
    <3> QED BY <3>1, <3>2 DEF RankOK
  <2>3. d = Hist(h, k)
    BY <1>1, <1>4, <2>2 DEF HistoryOK
  <2>4. \A i \in 1 .. k : h[i] = g[i]
    <3>1. \A i \in 1 .. k : Hist(h, k)[i] = h[i] /\ Hist(g, k)[i] = g[i]
      BY DEF Hist
    <3> QED BY <1>5, <2>3, <3>1
  <2> QED BY <1>5, <2>4, Agree
<1>10. PICK l1 \in 0 .. MaxSteps : Mapped(Ranks, results, Longest, [r \in Ranks |-> StepsApplied(r)], g, l1)
  BY Maps
<1>11. Longest = Hist(g, l1) /\ Len(Longest) = l1 /\ l1 \in Nat /\ k <= l1 /\ Longest \in Seq(BOOLEAN)
  <2>1. Longest = Hist(g, l1) /\ Len(Longest) = l1
    BY <1>10 DEF Mapped
  <2>2. k <= l1
    <3>1. PICK r \in Ranks : Len(results[r]) = l1
      BY <1>10 DEF Mapped
    <3> QED BY <1>4, <3>1 DEF Explained
  <2>3. Hist(g, l1) \in Seq(BOOLEAN)
    BY HistIs DEF Witnesses
  <2> QED BY <1>2, <2>1, <2>2, <2>3
<1>12. dec2 = SubSeq(Longest, 1, k)
  <2>1. SubSeq(Longest, 1, k) \in Seq(BOOLEAN) /\ Len(SubSeq(Longest, 1, k)) = k
        /\ \A i \in 1 .. k : SubSeq(Longest, 1, k)[i] = Longest[i]
    BY <1>5, <1>11
  <2>2. Hist(g, k) \in Seq(BOOLEAN) /\ Len(Hist(g, k)) = k
    BY <1>5, HistIs DEF Witnesses
  <2>3. \A i \in 1 .. k : Hist(g, k)[i] = Longest[i]
    BY <1>5, <1>11 DEF Hist
  <2>4. Hist(g, k) = SubSeq(Longest, 1, k)
    BY <2>1, <2>2, <2>3, SeqEqual
  <2> QED BY <1>8, <1>9, <2>4
<1>13. \A r \in RanksOf(n) : steps2[r] = Cardinality({i \in 1 .. k : Longest[i]})
  <2>1. k \in 0 .. l1
    BY <1>5, <1>11
  <2> QED BY <1>8, <1>9, <1>11, <2>1, AppliedOf
<1>14. RanksOf(n) \in {RanksOf(s) : s \in UNION {c.dp_sizes : c \in Configs}}
  BY <1>2
<1>15. /\ Longest' = SubSeq(Longest, 1, Len(disk.results))
       /\ [r \in Ranks |-> Len(results[r])]' = [r \in RanksOf(n) |-> Len(disk.results)]
       /\ [r \in Ranks |-> StepsApplied(r)]'
            = [r \in RanksOf(n) |-> Cardinality({i \in 1 .. Len(disk.results) : Longest[i]})]
       /\ Len(disk.results)' = Len(disk.results)
  BY <1>1, <1>4, <1>6, <1>12, <1>13
<1> QED BY <1>14, <1>15, SameCardinality DEF Synchronous!Restart, Synchronous!Applied

\* The first state is mapped to a first state.
LEMMA InitIsInit ==
  ASSUME Init, NEW g \in Witnesses, Explained(g)
  PROVE  Synchronous!Init
<1>1. config \in Configs /\ dp \in config.dp_sizes /\ Ranks = RanksOf(dp) /\ disk = NoCheckpoint
      /\ \A r \in Ranks : results[r] = <<>>
  BY DEF Init, Ranks
<1>2. PICK steps : steps = [r \in Ranks |-> StepsApplied(r)]
  OBVIOUS
<1>3. PICK l \in 0 .. MaxSteps : Mapped(Ranks, results, Longest, steps, g, l)
  BY <1>2, Maps
<1>4. l = 0 /\ Longest = Hist(g, 0) /\ \A r \in Ranks : steps[r] = AppliedIn(g, 0)
  BY <1>1, <1>3 DEF Mapped
<1>5. AppliedIn(g, 0) = 0 /\ Hist(g, 0) = <<>>
  <2>1. 0 \in 0 .. MaxSteps
    BY BoundsAssumption
  <2>2. AppliedIn(g, 0) \in 0 .. 0 /\ Hist(g, 0) \in Seq(BOOLEAN) /\ Len(Hist(g, 0)) = 0
    BY <2>1, HistIs DEF Witnesses
  <2> QED BY <2>2
<1>6. RanksOf(dp) \in {RanksOf(s) : s \in UNION {c.dp_sizes : c \in Configs}}
  BY <1>1
<1>7. /\ Longest = <<>> /\ Len(disk.results) = 0
      /\ [r \in Ranks |-> Len(results[r])] = [r \in RanksOf(dp) |-> 0]
      /\ [r \in Ranks |-> StepsApplied(r)] = [r \in RanksOf(dp) |-> 0]
  BY <1>1, <1>2, <1>4, <1>5 DEF NoCheckpoint
<1> QED BY <1>6, <1>7 DEF Synchronous!Init

\* Every step is mapped to a step or a stutter.
LEMMA StepIsStep ==
  ScalersInv /\ SyncInv /\ [Next]_vars => [Synchronous!Next]_(Synchronous!vars)
<1> SUFFICES ASSUME ScalersInv, SyncInv, [Next]_vars PROVE [Synchronous!Next]_(Synchronous!vars)
  OBVIOUS
<1>1. PICK g \in Witnesses : Explained(g)
  BY DEF SyncInv, Witnesses
<1>2. CASE Acts
  BY <1>1, <1>2, ActsAdvance DEF Synchronous!Next
<1>3. ASSUME NEW r \in Ranks, NEW inf \in BOOLEAN, ForwardBackward(r, inf)
      PROVE  UNCHANGED Synchronous!vars
  BY <1>3, QuietStep DEF ForwardBackward
<1>4. CASE Save
  BY <1>1, <1>4, SaveIsSave DEF Synchronous!Next
<1>5. ASSUME NEW n \in config.dp_sizes, Restart(n) PROVE Synchronous!Next
  BY <1>1, <1>5, RestartIsRestart DEF Synchronous!Next
<1>6. CASE UNCHANGED vars
  BY <1>6, QuietStep DEF vars
<1> QED BY <1>2, <1>3, <1>4, <1>5, <1>6, StepsAre DEF Next, Trained

\* Both optimizers are one optimizer for the whole world
\* (ImplementsSynchronous).
THEOREM Refinement == Spec => ImplementsSynchronous
<1>1. Init => Synchronous!Init
  <2> SUFFICES ASSUME Init PROVE Synchronous!Init
    OBVIOUS
  <2>1. PICK g \in Witnesses : Explained(g)
    BY SyncInit DEF SyncInv, Witnesses
  <2> QED BY <2>1, InitIsInit
<1> QED BY <1>1, ScalersInit, ScalersStep, SyncInit, SyncStep, StepIsStep, PTL
        DEF Spec, ImplementsSynchronous, Synchronous!Spec
===============================================================================
