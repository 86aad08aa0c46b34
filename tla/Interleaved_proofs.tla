------------------------ MODULE Interleaved_proofs ------------------------
(***************************************************************************)
(* Proofs about Interleaved, for every number of stages and of chunks and  *)
(* every call: the schedule never asks for a tensor that is not the one    *)
(* that arrives. An iteration's number determines its chunk and microbatch *)
(* and whether it sends or receives, so the tensors that cross a link make *)
(* up one sequence; what is on the link is an interval of it, what a list  *)
(* of a stage holds an interval of the microbatches.                       *)
(***************************************************************************)
EXTENDS Interleaved, FiniteSetTheorems, SequenceTheorems, TLAPS

-----------------------------------------------------------------------------
\* Facts about numbers.

\* A product grows with its factor by at least the other one.
LEMMA NextMultiple ==
  ASSUME NEW a \in Int, NEW b \in Int, NEW s \in Nat, a < b
  PROVE  a * s + s <= b * s
<1>1. PICK d \in Nat : b = a + 1 + d
  <2>1. b - a - 1 \in Nat /\ b = a + 1 + (b - a - 1) OBVIOUS
  <2> QED BY <2>1
<1>2. b * s = a * s + s + d * s BY <1>1
<1>3. d * s \in Nat OBVIOUS
<1> QED BY <1>2, <1>3

\* Division with remainder.
LEMMA Quotient ==
  ASSUME NEW j \in Int, NEW s \in Nat \ {0}
  PROVE  /\ j \div s \in Int
         /\ j % s \in 0 .. s - 1
         /\ j = (j \div s) * s + (j % s)
  OBVIOUS

\* A number has one pair of digits in base b.
LEMMA DigitsUnique ==
  ASSUME NEW b \in Nat \ {0}, NEW x \in Int, NEW y \in 0 .. b - 1,
         NEW u \in Int, NEW v \in 0 .. b - 1, x * b + y = u * b + v
  PROVE  x = u /\ y = v
<1>0. x * b \in Int /\ u * b \in Int OBVIOUS
<1>1. CASE x < u
  <2>1. x * b + b <= u * b BY <1>1, NextMultiple
  <2> QED BY <1>0, <2>1
<1>2. CASE u < x
  <2>1. u * b + b <= x * b BY <1>2, NextMultiple
  <2> QED BY <1>0, <2>1
<1>3. CASE x = u BY <1>0, <1>3
<1> QED BY <1>1, <1>2, <1>3

\* Digits below a and b make a number below a * b, ...
LEMMA DigitsBound ==
  ASSUME NEW a \in Nat \ {0}, NEW b \in Nat \ {0}, NEW x \in 0 .. a - 1, NEW y \in 0 .. b - 1
  PROVE  x * b + y \in 0 .. a * b - 1
<1>1. x * b \in Nat /\ a * b \in Nat OBVIOUS
<1>2. x * b + b <= a * b BY NextMultiple
<1> QED BY <1>1, <1>2

\* ... and every such number has them.
LEMMA Digits ==
  ASSUME NEW a \in Nat \ {0}, NEW b \in Nat \ {0}, NEW r \in 0 .. a * b - 1
  PROVE  /\ r \div b \in 0 .. a - 1
         /\ r % b \in 0 .. b - 1
         /\ r = (r \div b) * b + (r % b)
<1> DEFINE x == r \div b
           y == r % b
<1>1. x \in Int /\ y \in 0 .. b - 1 /\ r = x * b + y /\ a * b \in Int /\ r \in Int
  BY Quotient
<1> HIDE DEF x, y
<1>0. x * b \in Int BY <1>1
<1>2. 0 <= x
  <2>1. CASE x < 0
    <3>1. x * b + b <= 0 * b BY <1>1, <2>1, NextMultiple
    <3> QED BY <1>1, <1>0, <3>1
  <2> QED BY <1>1, <2>1
<1>3. x < a
  <2>1. CASE a < x
    <3>1. a * b + b <= x * b BY <1>1, <2>1, NextMultiple
    <3> QED BY <1>1, <1>0, <3>1
  <2>2. CASE a = x BY <2>2, <1>1, <1>0
  <2> QED BY <1>1, <2>1, <2>2
<1>4. x \in 0 .. a - 1 BY <1>1, <1>2, <1>3
<1>5. x = r \div b /\ y = r % b BY DEF x, y
<1> QED BY <1>1, <1>4, <1>5

\* Division finds the digits.
LEMMA ExactQuotient ==
  ASSUME NEW n \in Int, NEW b \in Nat \ {0}, NEW y \in 0 .. b - 1
  PROVE  (n * b + y) \div b = n /\ (n * b + y) % b = y
<1> DEFINE j == n * b + y
<1>1. j \in Int OBVIOUS
<1>2. j \div b \in Int /\ j % b \in 0 .. b - 1 /\ j = (j \div b) * b + (j % b)
  BY <1>1, Quotient
<1>3. j = n * b + y OBVIOUS
<1> HIDE DEF j
<1>4. n = j \div b /\ y = j % b BY <1>2, <1>3, DigitsUnique
<1> QED BY <1>4 DEF j

\* The quotient of a natural number is one.
LEMMA QuotientOfNat ==
  ASSUME NEW x \in Nat, NEW s \in Nat \ {0}
  PROVE  x \div s \in Nat
<1> DEFINE q == x \div s
           r == x % s
<1>1. q \in Int /\ r \in 0 .. s - 1 /\ x = q * s + r BY Quotient
<1> HIDE DEF q, r
<1>2. CASE q < 0
  <2>1. q * s + s <= 0 * s BY <1>1, <1>2, NextMultiple
  <2>2. q * s \in Int BY <1>1
  <2> QED BY <1>1, <2>1, <2>2
<1>3. q \in Nat BY <1>1, <1>2
<1> QED BY <1>3 DEF q

\* A set of numbers that is not empty has a least element.
LEMMA LeastElement ==
  ASSUME NEW C \in SUBSET Nat, C # {}
  PROVE  \E m \in C : \A k \in C : m <= k
<1> DEFINE Less == StrictSubsetOrdering(Nat)
           F == FiniteSubsetsOf(Nat)
           T == {1 .. n : n \in C}
<1>1. IsWellFoundedOn(Less, F) BY FS_StrictSubsetOrderingWellFounded
<1>2. T \subseteq F
  <2>1. ASSUME NEW n \in C PROVE 1 .. n \in F
    <3>1. IsFiniteSet(1 .. n) BY FS_Interval
    <3> QED BY <3>1 DEF FiniteSubsetsOf
  <2> QED BY <2>1
<1>3. T # {} OBVIOUS
<1>4. PICK x \in T : \A y \in T : ~ (<<y, x>> \in Less)
  <2> HIDE DEF Less, F, T
  <2> QED BY <1>1, <1>2, <1>3, WFMin
<1>5. PICK m \in C : x = 1 .. m OBVIOUS
<1>6. ASSUME NEW k \in C, k < m
      PROVE  FALSE
  <2>1. 1 .. k \in T OBVIOUS
  <2>2. ~ (<<1 .. k, 1 .. m>> \in Less) BY <1>4, <1>5, <2>1
  <2>3. 1 .. k \subseteq 1 .. m /\ m \in 1 .. m /\ m \notin 1 .. k BY <1>6
  <2>4. 1 .. k \in SUBSET Nat /\ 1 .. m \in SUBSET Nat OBVIOUS
  <2>5. <<1 .. k, 1 .. m>> \in Less BY <2>3, <2>4 DEF StrictSubsetOrdering
  <2> QED BY <2>2, <2>5
<1> QED BY <1>6

\* A set that has 0 and with every number the next one has them all.
LEMMA SetInduction ==
  ASSUME NEW T \in SUBSET Nat, 0 \in T, \A n \in T : n + 1 \in T
  PROVE  T = Nat
<1> DEFINE C == Nat \ T
<1>1. SUFFICES ASSUME C # {} PROVE FALSE
  OBVIOUS
<1>2. PICK x \in C : \A k \in C : x <= k BY <1>1, LeastElement
<1>3. x - 1 \in Nat /\ x - 1 \in T BY <1>2
<1> QED BY <1>2, <1>3

-----------------------------------------------------------------------------
\* Iterations and their places.

\* The iterations in which every chunk sees P microbatches. An iteration k
\* is the Off(k)-th of a run of P on the chunk of position Pos(k), in
\* round Group(k); Mb(k) is its microbatch.
Round == P * V
Group(k) == k \div Round
Pos(k) == (k % Round) \div P
Off(k) == k % P
Mb(k) == Group(k) * P + Off(k) + 1

\* Of the first k iterations, those on the chunk of position j.
Done(k, j) ==
  Group(k) * P + (IF j < Pos(k) THEN P ELSE IF j = Pos(k) THEN Off(k) ELSE 0)

\* The constants, and the products of them the proofs use.
LEMMA Sizes ==
  /\ P \in Nat /\ V \in Nat /\ P > 2 /\ V > 1 /\ P \in Nat \ {0} /\ V \in Nat \ {0}
  /\ V - 1 \in Nat \ {0} /\ P * V \in Nat /\ P * V > 0 /\ P * (V - 1) \in Nat /\ P * (V - 1) > 0
  /\ P * (V - 1) = P * V - P /\ P * V > P
<1>1. P \in Nat /\ V \in Nat /\ P > 2 /\ V > 1 BY PAssumption, VAssumption
<1>2. PICK w \in Nat : V = w + 1 /\ w > 0
  <2>1. V - 1 \in Nat /\ V = (V - 1) + 1 /\ V - 1 > 0 BY <1>1
  <2> QED BY <2>1
<1>3. P * w \in Nat /\ P * w >= P
  <2>1. 0 * P + P <= w * P BY <1>1, <1>2, NextMultiple
  <2> QED BY <1>1, <1>2, <2>1
<1>4. P * V = P * w + P BY <1>1, <1>2
<1>5. V - 1 = w BY <1>2
<1> QED BY <1>1, <1>2, <1>3, <1>4, <1>5

\* Every iteration has a round, a position and an offset, which make it,
\* ...
LEMMA Places ==
  ASSUME NEW k \in Int
  PROVE  /\ Group(k) \in Int /\ Pos(k) \in Chunks /\ Off(k) \in 0 .. P - 1
         /\ k = (Group(k) * V + Pos(k)) * P + Off(k)
         /\ k \in Nat => Group(k) \in Nat
<1> DEFINE g == k \div Round
           r == k % Round
           j == r \div P
           i == r % P
<1>1. Round \in Nat \ {0} /\ Round = V * P BY Sizes DEF Round
<1>2. g \in Int /\ r \in 0 .. Round - 1 /\ k = g * Round + r BY <1>1, Quotient
<1>3. j \in 0 .. V - 1 /\ i \in 0 .. P - 1 /\ r = j * P + i
  <2> HIDE DEF r
  <2> QED BY <1>1, <1>2, Sizes, Digits
<1> HIDE DEF g, r, j, i
<1>4. k = (g * V + j) * P + i BY <1>1, <1>2, <1>3, Sizes
<1>5. k % P = i
  <2>1. PICK q \in Int : q = g * V + j BY <1>2, <1>3, Sizes
  <2> QED BY <1>3, <1>4, <2>1, Sizes, ExactQuotient
<1>6. Group(k) = g /\ Pos(k) = j /\ Off(k) = i BY <1>5 DEF Group, Pos, Off, g, r, j
<1>7. k \in Nat => g \in Nat BY <1>1, QuotientOfNat DEF g
<1> QED BY <1>2, <1>3, <1>4, <1>6, <1>7 DEF Chunks

\* ... and no other number has them.
LEMMA PlaceUnique ==
  ASSUME NEW g \in Int, NEW j \in Chunks, NEW i \in 0 .. P - 1, NEW k \in Int,
         k = (g * V + j) * P + i
  PROVE  Group(k) = g /\ Pos(k) = j /\ Off(k) = i
<1>1. PICK h \in Int, l \in 0 .. V - 1, o \in 0 .. P - 1 :
        h = Group(k) /\ l = Pos(k) /\ o = Off(k) /\ k = (h * V + l) * P + o
  BY Places DEF Chunks
<1>2. PICK x \in Int, y \in Int : x = h * V + l /\ y = g * V + j
  BY <1>1, Sizes DEF Chunks
<1>3. x = y /\ o = i BY <1>1, <1>2, Sizes, DigitsUnique
<1>4. h = g /\ l = j BY <1>1, <1>2, <1>3, Sizes, DigitsUnique DEF Chunks
<1> QED BY <1>1, <1>3, <1>4

\* Where the next iteration is: at the next offset, position or round.
LEMMA NextPlace ==
  ASSUME NEW k \in Int
  PROVE  /\ Off(k) < P - 1 => Group(k + 1) = Group(k) /\ Pos(k + 1) = Pos(k) /\ Off(k + 1) = Off(k) + 1
         /\ Off(k) = P - 1 /\ Pos(k) < V - 1 =>
              Group(k + 1) = Group(k) /\ Pos(k + 1) = Pos(k) + 1 /\ Off(k + 1) = 0
         /\ Off(k) = P - 1 /\ Pos(k) = V - 1 =>
              Group(k + 1) = Group(k) + 1 /\ Pos(k + 1) = 0 /\ Off(k + 1) = 0
<1>1. PICK g \in Int, j \in Chunks, i \in 0 .. P - 1 :
        g = Group(k) /\ j = Pos(k) /\ i = Off(k) /\ k = (g * V + j) * P + i
  BY Places
<1>2. CASE i < P - 1
  <2>1. i + 1 \in 0 .. P - 1 /\ k + 1 = (g * V + j) * P + (i + 1)
    BY <1>1, <1>2, Sizes DEF Chunks
  <2>2. Group(k + 1) = g /\ Pos(k + 1) = j /\ Off(k + 1) = i + 1
    BY <2>1, PlaceUnique
  <2> QED BY <1>1, <1>2, <2>2
<1>3. CASE i = P - 1 /\ j < V - 1
  <2>1. j + 1 \in Chunks /\ 0 \in 0 .. P - 1 /\ k + 1 \in Int
    BY <1>1, <1>3, Sizes DEF Chunks
  <2>2. k + 1 = (g * V + (j + 1)) * P + 0
    <3>1. PICK y \in Int : y = g * V BY <1>1, Sizes
    <3>2. PICK x \in Int : x = y + j /\ x + 1 = y + (j + 1)
      BY <3>1, Sizes DEF Chunks
    <3>3. k = x * P + i BY <1>1, <3>1, <3>2
    <3>4. k + 1 = (x + 1) * P + 0 BY <1>1, <1>3, <3>2, <3>3, Sizes
    <3> QED BY <3>1, <3>2, <3>4
  <2>3. Group(k + 1) = g /\ Pos(k + 1) = j + 1 /\ Off(k + 1) = 0
    BY <2>1, <2>2, PlaceUnique
  <2> QED BY <1>1, <1>3, <2>3, Sizes
<1>4. CASE i = P - 1 /\ j = V - 1
  <2>1. g + 1 \in Int /\ 0 \in Chunks /\ 0 \in 0 .. P - 1 /\ k + 1 \in Int
    BY <1>1, <1>4, Sizes DEF Chunks
  <2>2. k + 1 = ((g + 1) * V + 0) * P + 0
    <3>1. PICK y \in Int : y = g * V /\ (g + 1) * V + 0 = y + V BY <1>1, Sizes
    <3>2. PICK x \in Int : x = y + j /\ x + 1 = y + V
      BY <1>4, <3>1, Sizes DEF Chunks
    <3>3. k = x * P + i BY <1>1, <3>1, <3>2
    <3>4. k + 1 = (x + 1) * P + 0 BY <1>1, <1>4, <3>2, <3>3, Sizes
    <3> QED BY <3>1, <3>2, <3>4
  <2>3. Group(k + 1) = g + 1 /\ Pos(k + 1) = 0 /\ Off(k + 1) = 0
    BY <2>1, <2>2, PlaceUnique
  <2> QED BY <1>1, <1>4, <2>3, Sizes
<1> QED BY <1>1, <1>2, <1>3, <1>4, Sizes DEF Chunks

\* The iteration P before is at the same offset of the position before.
LEMMA PlaceBefore ==
  ASSUME NEW k \in Int
  PROVE  /\ Off(k - P) = Off(k)
         /\ Pos(k) > 0 => Group(k - P) = Group(k) /\ Pos(k - P) = Pos(k) - 1
         /\ Pos(k) = 0 => Group(k - P) = Group(k) - 1 /\ Pos(k - P) = V - 1
<1>1. PICK g \in Int, j \in Chunks, i \in 0 .. P - 1 :
        g = Group(k) /\ j = Pos(k) /\ i = Off(k) /\ k = (g * V + j) * P + i
  BY Places
<1>2. PICK x \in Int : x = g * V + j /\ k - P = (x - 1) * P + i /\ k - P \in Int
  BY <1>1, Sizes DEF Chunks
<1>3. CASE j > 0
  <2>1. j - 1 \in Chunks /\ x - 1 = g * V + (j - 1)
    BY <1>1, <1>2, <1>3, Sizes DEF Chunks
  <2>2. Group(k - P) = g /\ Pos(k - P) = j - 1 /\ Off(k - P) = i
    BY <1>2, <2>1, PlaceUnique
  <2> QED BY <1>1, <1>3, <2>2
<1>4. CASE j = 0
  <2>1. V - 1 \in Chunks /\ x - 1 = (g - 1) * V + (V - 1) /\ g - 1 \in Int
    <3>1. PICK y \in Int : y = g * V /\ (g - 1) * V = y - V BY <1>1, Sizes
    <3>2. x = y BY <1>1, <1>2, <1>4, <3>1
    <3> QED BY <1>1, <3>1, <3>2, Sizes DEF Chunks
  <2>2. Group(k - P) = g - 1 /\ Pos(k - P) = V - 1 /\ Off(k - P) = i
    BY <1>2, <2>1, PlaceUnique
  <2> QED BY <1>1, <1>4, <2>2
<1> QED BY <1>1, <1>3, <1>4 DEF Chunks

\* One more iteration is one more at its position, ...
LEMMA DoneNext ==
  ASSUME NEW k \in Int, NEW j \in Chunks
  PROVE  /\ Done(k, j) \in Int /\ Mb(k) \in Int
         /\ Done(k + 1, j) = Done(k, j) + (IF j = Pos(k) THEN 1 ELSE 0)
         /\ j = Pos(k) => Mb(k) = Done(k, j) + 1
         /\ k \in Nat => Done(k, j) \in Nat /\ Mb(k) \in Nat \ {0}
<1>1. /\ Group(k) \in Int /\ Pos(k) \in Chunks /\ Off(k) \in 0 .. P - 1
      /\ k \in Nat => Group(k) \in Nat
  BY Places
<1>2. PICK x \in Int : x = Group(k) * P /\ (Group(k) + 1) * P = x + P /\ (Group(k) \in Nat => x \in Nat)
  BY <1>1, Sizes
<1>3. Done(k, j) = x + (IF j < Pos(k) THEN P ELSE IF j = Pos(k) THEN Off(k) ELSE 0)
  BY <1>2 DEF Done
<1>4. Mb(k) = x + Off(k) + 1 BY <1>2 DEF Mb
<1>5. CASE Off(k) < P - 1
  <2>1. Group(k + 1) = Group(k) /\ Pos(k + 1) = Pos(k) /\ Off(k + 1) = Off(k) + 1
    BY <1>5, NextPlace
  <2>2. Done(k + 1, j) = x + (IF j < Pos(k) THEN P ELSE IF j = Pos(k) THEN Off(k) + 1 ELSE 0)
    BY <1>2, <2>1 DEF Done
  <2> QED BY <1>1, <1>2, <1>3, <1>4, <2>2, Sizes DEF Chunks
<1>6. CASE Off(k) = P - 1 /\ Pos(k) < V - 1
  <2>1. Group(k + 1) = Group(k) /\ Pos(k + 1) = Pos(k) + 1 /\ Off(k + 1) = 0
    BY <1>6, NextPlace
  <2>2. Done(k + 1, j) = x + (IF j < Pos(k) + 1 THEN P ELSE IF j = Pos(k) + 1 THEN 0 ELSE 0)
    BY <1>2, <2>1 DEF Done
  <2> QED BY <1>1, <1>2, <1>3, <1>4, <1>6, <2>2, Sizes DEF Chunks
<1>7. CASE Off(k) = P - 1 /\ Pos(k) = V - 1
  <2>1. Group(k + 1) = Group(k) + 1 /\ Pos(k + 1) = 0 /\ Off(k + 1) = 0
    BY <1>7, NextPlace
  <2>2. Done(k + 1, j) = x + P + (IF j < 0 THEN P ELSE IF j = 0 THEN 0 ELSE 0)
    BY <1>2, <2>1 DEF Done
  <2> QED BY <1>1, <1>2, <1>3, <1>4, <1>7, <2>2, Sizes DEF Chunks
<1> QED BY <1>1, <1>5, <1>6, <1>7, Sizes DEF Chunks

\* ... none to begin with, ...
LEMMA DoneZero ==
  ASSUME NEW j \in Chunks
  PROVE  Done(0, j) = 0 /\ Group(0) = 0 /\ Pos(0) = 0 /\ Off(0) = 0
<1>1. 0 \in Chunks /\ 0 \in 0 .. P - 1 /\ 0 = (0 * V + 0) * P + 0
  BY Sizes DEF Chunks
<1>2. Group(0) = 0 /\ Pos(0) = 0 /\ Off(0) = 0 BY <1>1, PlaceUnique
<1> QED BY <1>2, Sizes DEF Done, Chunks

\* ... and every microbatch once in the end.
LEMMA DoneAll ==
  ASSUME NEW m \in Nat, m % P = 0, NEW j \in Chunks
  PROVE  /\ Done(m * V, j) = m
         /\ Group(m * V) = m \div P /\ Pos(m * V) = 0 /\ Off(m * V) = 0
         /\ m \div P \in Nat /\ m = (m \div P) * P
<1>1. PICK g \in Nat : g = m \div P /\ m = g * P
  <2>1. m = (m \div P) * P + (m % P) /\ m \div P \in Nat
    BY Sizes, Quotient, QuotientOfNat
  <2> QED BY <2>1, Sizes
<1>2. 0 \in Chunks /\ 0 \in 0 .. P - 1 /\ m * V \in Int BY Sizes DEF Chunks
<1>3. m * V = (g * V + 0) * P + 0 BY <1>1, Sizes
<1>4. Group(m * V) = g /\ Pos(m * V) = 0 /\ Off(m * V) = 0
  BY <1>2, <1>3, PlaceUnique
<1>5. Done(m * V, j) = g * P BY <1>4, <1>1, Sizes DEF Done, Chunks
<1> QED BY <1>1, <1>4, <1>5

\* More iterations have done more.
LEMMA DoneGrows ==
  ASSUME NEW k \in Nat, NEW l \in Nat, k <= l, NEW j \in Chunks
  PROVE  Done(k, j) <= Done(l, j)
<1> DEFINE T == {d \in Nat : Done(k, j) <= Done(k + d, j)}
<1>1. 0 \in T BY DoneNext
<1>2. ASSUME NEW d \in T PROVE d + 1 \in T
  <2>1. PICK x \in Nat : x = k + d /\ k + (d + 1) = x + 1 OBVIOUS
  <2>2. Done(x + 1, j) >= Done(x, j) /\ Done(x, j) \in Int /\ Done(x + 1, j) \in Int /\ Done(k, j) \in Int
    BY DoneNext
  <2> QED BY <2>1, <2>2
<1>3. T = Nat
  <2>1. T \in SUBSET Nat OBVIOUS
  <2> HIDE DEF T
  <2> QED BY <1>1, <1>2, <2>1, SetInduction
<1>4. PICK d \in Nat : k + d = l
  <2>1. l - k \in Nat /\ k + (l - k) = l OBVIOUS
  <2> QED BY <2>1
<1>5. d \in T BY <1>3
<1> QED BY <1>4, <1>5

\* A chunk has none left after an iteration that is the last for it.
LEMMA LastIs ==
  ASSUME NEW m \in Nat \ {0}, m % P = 0, NEW k \in Nat
  PROVE  /\ Done(k + 1, Pos(k)) = m <=> k \div Round = (m * V) \div Round - 1 /\ k % P = P - 1
         /\ k < m * V => \A j \in Chunks : Done(k, j) <= m
<1>1. /\ Pos(k) \in Chunks /\ Group(k) \in Int /\ Off(k) \in 0 .. P - 1
      /\ Done(k + 1, Pos(k)) = Mb(k)
  <2>1. k \in Int OBVIOUS
  <2>2. Pos(k) \in Chunks /\ Group(k) \in Int /\ Off(k) \in 0 .. P - 1
    BY <2>1, Places
  <2>3. PICK j \in Chunks : j = Pos(k) BY <2>2
  <2>4. Done(k + 1, j) = Mb(k) BY <2>1, <2>3, DoneNext
  <2> QED BY <2>2, <2>3, <2>4
<1>2. PICK g \in Nat : g = m \div P /\ Group(m * V) = g /\ m = g * P
  BY <1>1, DoneAll
<1>3. m = (g - 1) * P + (P - 1) + 1 BY <1>2, Sizes
<1>4. Mb(k) = m <=> Group(k) = g - 1 /\ Off(k) = P - 1
  <2>1. PICK i \in Int, q \in 0 .. P - 1, h \in Int : i = Group(k) /\ q = Off(k) /\ h = g - 1
    BY <1>1
  <2>2. Mb(k) = i * P + q + 1 BY <2>1 DEF Mb
  <2>3. ASSUME Mb(k) = m PROVE i = h /\ q = P - 1
    <3>1. i * P + q = h * P + (P - 1) BY <1>3, <2>1, <2>2, <2>3, Sizes
    <3>2. P - 1 \in 0 .. P - 1 BY Sizes
    <3> QED BY <3>1, <3>2, Sizes, DigitsUnique
  <2>4. ASSUME i = h, q = P - 1 PROVE Mb(k) = m
    BY <1>3, <2>1, <2>2, <2>4, Sizes
  <2> QED BY <2>1, <2>3, <2>4
<1>5. ASSUME k < m * V, NEW j \in Chunks PROVE Done(k, j) <= m
  <2>1. m * V \in Nat /\ k <= m * V BY <1>5, Sizes
  <2> QED BY <2>1, DoneGrows, DoneAll
<1> QED BY <1>1, <1>2, <1>4, <1>5 DEF Group, Off

\* What the warmup puts between the passes: a microbatch that is to go
\* backward through a chunk has gone forward through it.
LEMMA ForwardBefore ==
  ASSUME NEW f \in Nat, NEW b \in Nat, f >= b + 1 + (V - 1) * P
  PROVE  Done(b, Pos(b)) < Done(f, V - 1 - Pos(b))
<1>1. PICK g \in Nat, j \in Chunks, i \in 0 .. P - 1 :
        g = Group(b) /\ j = Pos(b) /\ i = Off(b) /\ b = (g * V + j) * P + i
  <2>1. b \in Int OBVIOUS
  <2> QED BY <2>1, Places
<1>2. PICK c \in Chunks : c = V - 1 - j BY Sizes DEF Chunks
<1> DEFINE k == (g * V + c) * P + i
<1>3. PICK y \in Nat, cp \in Nat, jp \in Nat, w \in Nat :
        /\ y = (g * V) * P /\ cp = c * P /\ jp = j * P /\ w = (V - 1) * P
        /\ (g * V + c) * P = y + cp /\ (g * V + j) * P = y + jp /\ cp <= w
  <2>1. g * V \in Nat /\ c \in Nat /\ j \in Nat /\ V - 1 \in Nat BY Sizes DEF Chunks
  <2>2. (g * V) * P \in Nat /\ c * P \in Nat /\ j * P \in Nat /\ (V - 1) * P \in Nat
    BY <2>1, Sizes
  <2>3. PICK x \in Nat : x = g * V BY <2>1
  <2>4. (x + c) * P = x * P + c * P /\ (x + j) * P = x * P + j * P BY <2>1, Sizes
  <2>5. c * P <= (V - 1) * P
    <3>1. CASE c < V - 1
      <4>1. c * P + P <= (V - 1) * P BY <2>1, <3>1, Sizes, NextMultiple
      <4> QED BY <2>2, <4>1, Sizes
    <3>2. CASE c = V - 1 BY <2>2, <3>2
    <3> QED BY <3>1, <3>2, Sizes DEF Chunks
  <2> QED BY <2>2, <2>3, <2>4, <2>5
<1>4. k = y + cp + i /\ b = y + jp + i BY <1>1, <1>3
<1>5. k \in Nat /\ k + 1 <= f BY <1>3, <1>4, Sizes
<1>6. Group(k) = g /\ Pos(k) = c /\ Off(k) = i BY <1>1, <1>5, PlaceUnique
<1>7. Mb(k) = Mb(b) BY <1>1, <1>6 DEF Mb
<1> HIDE DEF k
<1>8. Done(k + 1, c) = Mb(k) /\ Done(b, j) = Mb(b) - 1 /\ Mb(b) \in Int
  <2>1. k \in Int /\ b \in Int BY <1>5
  <2>2. Done(k + 1, c) = Done(k, c) + 1 /\ Mb(k) = Done(k, c) + 1
    BY <1>6, <2>1, DoneNext
  <2>3. Mb(b) = Done(b, j) + 1 /\ Done(b, j) \in Int BY <1>1, <2>1, DoneNext
  <2> QED BY <2>2, <2>3
<1>9. Done(k + 1, c) <= Done(f, c) /\ Done(f, c) \in Int
  <2>1. k + 1 \in Nat /\ f \in Int BY <1>5
  <2> QED BY <1>5, <2>1, DoneGrows, DoneNext
<1>10. Done(b, j) < Done(f, c)
  <2>1. PICK p \in Int, q \in Int : p = Mb(b) /\ q = Done(f, c) BY <1>8, <1>9
  <2>2. p <= q /\ Done(b, j) = p - 1 BY <1>7, <1>8, <1>9, <2>1
  <2> QED BY <2>1, <2>2
<1> QED BY <1>1, <1>2, <1>10

-----------------------------------------------------------------------------
\* What iterations send and receive.

\* The link from s in direction d closes the ring: what goes on it is for
\* the next chunk of the stage at the other end.
Closes(s, d) == s = (IF d = "next" THEN P - 1 ELSE 0)

\* How many of the first k iterations send on a link, w telling whether it
\* closes the ring, and how many receive.
Outs(w, k) ==
  IF w THEN (Group(k) * (V - 1) + Pos(k)) * P + (IF Pos(k) = V - 1 THEN 0 ELSE Off(k)) ELSE k
Ins(w, k) == IF w THEN Outs(w, k - P) ELSE k

\* The iteration that sends after n others have.
Sender(w, n) == IF w THEN (n \div (P * (V - 1))) * Round + (n % (P * (V - 1))) ELSE n

\* The sender's iteration of what the k-th iteration receives.
Source(w, k) == IF w THEN k - P ELSE k

\* The k-th iteration sends on a link, or receives from it.
Sending(w, k) == ~(w /\ Pos(k) = V - 1)
Receiving(w, k) == ~(w /\ Pos(k) = 0)

\* An iteration that sends adds one to what is sent, any other nothing.
LEMMA OutsNext ==
  ASSUME NEW w \in BOOLEAN, NEW k \in Int
  PROVE  /\ Outs(w, k) \in Int
         /\ Outs(w, k + 1) = Outs(w, k) + (IF Sending(w, k) THEN 1 ELSE 0)
<1>1. CASE ~w BY <1>1 DEF Outs, Sending
<1>2. CASE w
  <2>0. Sending(w, k) <=> Pos(k) # V - 1 BY <1>2 DEF Sending
  <2>1. Group(k) \in Int /\ Pos(k) \in Chunks /\ Off(k) \in 0 .. P - 1 BY Places
  <2>2. PICK h \in Int, x \in Int :
          h = Group(k) * (V - 1) + Pos(k) /\ x = h * P /\ (h + 1) * P = x + P
    <3>1. PICK y \in Int : y = Group(k) * (V - 1) BY <2>1, Sizes
    <3>2. PICK h \in Int : h = y + Pos(k) BY <2>1, <3>1, Sizes DEF Chunks
    <3>3. h * P \in Int /\ (h + 1) * P = h * P + P BY <3>2, Sizes
    <3> QED BY <3>1, <3>2, <3>3
  <2>3. Outs(w, k) = x + (IF Pos(k) = V - 1 THEN 0 ELSE Off(k))
    BY <1>2, <2>2 DEF Outs
  <2>4. CASE Off(k) < P - 1
    <3>1. Group(k + 1) = Group(k) /\ Pos(k + 1) = Pos(k) /\ Off(k + 1) = Off(k) + 1
      BY <2>4, NextPlace
    <3>2. Outs(w, k + 1) = x + (IF Pos(k) = V - 1 THEN 0 ELSE Off(k) + 1)
      BY <1>2, <2>2, <3>1 DEF Outs
    <3> QED BY <2>0, <2>1, <2>2, <2>3, <3>2, Sizes
  <2>5. CASE Off(k) = P - 1 /\ Pos(k) < V - 1
    <3>1. Group(k + 1) = Group(k) /\ Pos(k + 1) = Pos(k) + 1 /\ Off(k + 1) = 0
      BY <2>5, NextPlace
    <3>2. Group(k + 1) * (V - 1) + Pos(k + 1) = h + 1
      <4>1. PICK y \in Int : y = Group(k) * (V - 1) BY <2>1, Sizes
      <4>2. Group(k + 1) * (V - 1) = y BY <3>1, <4>1
      <4>3. h = y + Pos(k) BY <2>2, <4>1
      <4>4. Pos(k) \in Int BY <2>1, Sizes DEF Chunks
      <4> QED BY <3>1, <4>1, <4>2, <4>3, <4>4
    <3>3. Outs(w, k + 1) = x + P BY <1>2, <2>2, <3>1, <3>2, Sizes DEF Outs
    <3>4. Pos(k) # V - 1 /\ Outs(w, k) = x + (P - 1)
      BY <2>1, <2>3, <2>5, Sizes DEF Chunks
    <3> QED BY <2>0, <2>2, <3>3, <3>4, PAssumption
  <2>6. CASE Off(k) = P - 1 /\ Pos(k) = V - 1
    <3>1. Group(k + 1) = Group(k) + 1 /\ Pos(k + 1) = 0 /\ Off(k + 1) = 0
      BY <2>6, NextPlace
    <3>2. Group(k + 1) * (V - 1) + Pos(k + 1) = h
      <4>1. PICK y \in Int : y = Group(k) * (V - 1) /\ (Group(k) + 1) * (V - 1) = y + (V - 1)
        BY <2>1, Sizes
      <4>2. Group(k + 1) * (V - 1) = y + (V - 1) BY <3>1, <4>1
      <4>3. h = y + (V - 1) BY <2>2, <2>6, <4>1
      <4> QED BY <3>1, <4>1, <4>2, <4>3, Sizes
    <3>3. Outs(w, k + 1) = x BY <1>2, <2>2, <3>1, <3>2, Sizes DEF Outs
    <3> QED BY <2>0, <2>1, <2>2, <2>3, <2>6, <3>3, Sizes
  <2>7. Outs(w, k) \in Int BY <2>1, <2>2, <2>3
  <2>8. Off(k) < P - 1 \/ (Off(k) = P - 1 /\ Pos(k) < V - 1) \/ (Off(k) = P - 1 /\ Pos(k) = V - 1)
    BY <2>1, PAssumption, VAssumption DEF Chunks
  <2> QED BY <2>4, <2>5, <2>6, <2>7, <2>8
<1> QED BY <1>1, <1>2

\* An iteration that receives adds one to what is received; it receives
\* what its source sends.
LEMMA InsNext ==
  ASSUME NEW w \in BOOLEAN, NEW k \in Int
  PROVE  /\ Ins(w, k) \in Int
         /\ Ins(w, k + 1) = Ins(w, k) + (IF Receiving(w, k) THEN 1 ELSE 0)
         /\ Ins(w, k) = Outs(w, Source(w, k)) /\ Source(w, k) \in Int
         /\ Receiving(w, k) <=> Sending(w, Source(w, k))
<1>1. CASE ~w BY <1>1 DEF Ins, Receiving, Sending, Source, Outs
<1>2. CASE w
  <2>1. PICK l \in Int : l = k - P /\ l + 1 = (k + 1) - P BY Sizes
  <2>2. Outs(w, l) \in Int /\ Outs(w, l + 1) = Outs(w, l) + (IF Sending(w, l) THEN 1 ELSE 0)
    BY OutsNext
  <2>3. Pos(l) = V - 1 <=> Pos(k) = 0
    <3>1. Pos(k) \in Chunks /\ (Pos(k) > 0 => Pos(l) = Pos(k) - 1) /\ (Pos(k) = 0 => Pos(l) = V - 1)
      BY <2>1, Places, PlaceBefore
    <3> QED BY <3>1, Sizes DEF Chunks
  <2> QED BY <1>2, <2>1, <2>2, <2>3 DEF Ins, Receiving, Sending, Source
<1> QED BY <1>1, <1>2

\* Before the first iteration nothing is sent or received.
LEMMA NothingYet ==
  ASSUME NEW w \in BOOLEAN
  PROVE  Outs(w, 0) = 0 /\ Ins(w, 0) = 0
<1>1. Group(0) = 0 /\ Pos(0) = 0 /\ Off(0) = 0
  <2>1. 0 \in Chunks BY Sizes DEF Chunks
  <2> QED BY <2>1, DoneZero
<1>2. Outs(w, 0) = 0
  <2>1. CASE w
    <3>1. Outs(w, 0) = (0 * (V - 1) + 0) * P + 0 BY <1>1, <2>1 DEF Outs
    <3> QED BY <3>1, Sizes
  <2> QED BY <2>1 DEF Outs
<1>3. Ins(w, 0) = 0
  <2>1. CASE w
    <3>1. Group(0 - P) = 0 - 1 /\ Pos(0 - P) = V - 1 BY <1>1, PlaceBefore
    <3>2. Outs(w, 0 - P) = ((0 - 1) * (V - 1) + (V - 1)) * P + 0
      BY <2>1, <3>1 DEF Outs
    <3>3. (0 - 1) * (V - 1) + (V - 1) = 0 BY Sizes
    <3>4. Outs(w, 0 - P) = 0 BY <3>2, <3>3, Sizes
    <3> QED BY <2>1, <3>4 DEF Ins
  <2> QED BY <2>1 DEF Ins
<1> QED BY <1>2, <1>3

\* The tensor that an iteration sends comes after those of the earlier
\* ones.
LEMMA SenderIs ==
  ASSUME NEW w \in BOOLEAN, NEW k \in Int, Sending(w, k)
  PROVE  Sender(w, Outs(w, k)) = k
<1>1. CASE ~w BY <1>1 DEF Outs, Sender
<1>2. CASE w
  <2>1. PICK g \in Int, j \in Chunks, i \in 0 .. P - 1 :
          g = Group(k) /\ j = Pos(k) /\ i = Off(k) /\ k = (g * V + j) * P + i
    BY Places
  <2>2. j # V - 1 /\ j \in 0 .. (V - 1) - 1 BY <1>2, <2>1, Sizes DEF Sending, Chunks
  <2>3. PICK r \in 0 .. (V - 1) * P - 1 : r = j * P + i
    <3>1. j * P + i \in 0 .. (V - 1) * P - 1 BY <2>1, <2>2, Sizes, DigitsBound
    <3> QED BY <3>1
  <2>4. PICK u \in Int, jp \in Int :
          u = g * (P * (V - 1)) /\ jp = j * P /\ (g * (V - 1) + j) * P = u + jp
    <3>0. PICK z \in Int : z = V - 1 BY Sizes
    <3>1. PICK x \in Int : x = g * z BY <3>0
    <3>2. (x + j) * P = x * P + j * P /\ x * P \in Int /\ j * P \in Int
      BY <3>1, Sizes DEF Chunks
    <3>3. x * P = g * (P * z) BY <3>0, <3>1, Sizes
    <3>4. PICK u \in Int, jp \in Int : u = x * P /\ jp = j * P /\ (x + j) * P = u + jp
      BY <3>2
    <3>5. u = g * (P * (V - 1)) /\ (g * (V - 1) + j) * P = u + jp
      BY <3>0, <3>1, <3>3, <3>4
    <3> QED BY <3>4, <3>5
  <2>5. Outs(w, k) = g * (P * (V - 1)) + r
    <3>1. Outs(w, k) = (g * (V - 1) + j) * P + i BY <1>2, <2>1, <2>2 DEF Outs
    <3> QED BY <2>3, <2>4, <3>1
  <2>6. P * (V - 1) \in Nat \ {0} /\ r \in 0 .. P * (V - 1) - 1 BY <2>3, Sizes
  <2>7. Outs(w, k) \div (P * (V - 1)) = g /\ Outs(w, k) % (P * (V - 1)) = r
    <3>1. PICK R \in Nat \ {0} : R = P * (V - 1) BY <2>6
    <3>2. r \in 0 .. R - 1 /\ Outs(w, k) = g * R + r BY <2>5, <2>6, <3>1
    <3>3. (g * R + r) \div R = g /\ (g * R + r) % R = r
      BY ZenonT(60), <3>1, <3>2, ExactQuotient
    <3> QED BY <3>1, <3>2, <3>3
  <2>8. g * Round + r = k
    <3>1. PICK v \in Int, jp2 \in Int : v = g * V /\ jp2 = j * P
      BY <2>1, Sizes DEF Chunks
    <3>2. (v + j) * P = v * P + jp2 /\ v * P \in Int BY <3>1, Sizes DEF Chunks
    <3>3. v * P = g * (P * V)
      <4>1. g \in Int /\ P \in Int /\ V \in Int BY <2>1, PAssumption, VAssumption
      <4>2. (g * V) * P = g * (P * V) BY <4>1
      <4> QED BY <3>1, <4>2
    <3>4. k = (v + j) * P + i BY <2>1, <3>1
    <3>5. PICK vp \in Int : vp = v * P BY <3>2
    <3>6. k = vp + jp2 + i /\ g * Round = vp /\ r = jp2 + i
      BY <2>3, <3>1, <3>2, <3>3, <3>4, <3>5 DEF Round
    <3>7. PICK jp3 \in Int : jp3 = jp2 BY <3>1
    <3>8. g * Round + r = vp + (jp3 + i) BY <3>6, <3>7
    <3>9. vp + jp3 + i = vp + (jp3 + i) BY <2>1
    <3> QED BY <3>6, <3>7, <3>8, <3>9
  <2> QED BY <1>2, <2>7, <2>8 DEF Sender
<1> QED BY <1>1, <1>2

\* What an iteration receives is its source's, of the same microbatch.
LEMMA SourceIs ==
  ASSUME NEW w \in BOOLEAN, NEW k \in Int, Receiving(w, k)
  PROVE  /\ Sender(w, Ins(w, k)) = Source(w, k)
         /\ Mb(Source(w, k)) = Mb(k)
         /\ Pos(Source(w, k)) = IF w THEN Pos(k) - 1 ELSE Pos(k)
<1>1. /\ Ins(w, k) = Outs(w, Source(w, k)) /\ Source(w, k) \in Int /\ Sending(w, Source(w, k))
  BY InsNext
<1>2. Sender(w, Ins(w, k)) = Source(w, k) BY <1>1, SenderIs
<1>3. CASE w
  <2>1. Pos(k) \in Chunks /\ Pos(k) # 0 BY <1>3, Places DEF Receiving
  <2>2. Pos(k) > 0 BY <2>1, Sizes DEF Chunks
  <2>3. Group(k - P) = Group(k) /\ Pos(k - P) = Pos(k) - 1 /\ Off(k - P) = Off(k)
    BY <2>2, PlaceBefore
  <2> QED BY <1>2, <1>3, <2>3 DEF Source, Mb
<1>4. CASE ~w BY <1>2, <1>4 DEF Source
<1> QED BY <1>3, <1>4

\* The chunk of the k-th pass that receives from d.
ChunkAt(d, k) == IF d = "prev" THEN Pos(k) ELSE V - 1 - Pos(k)
\* What the k-th pass of stage s gives for its neighbour in direction d.
Product(s, d, k) == Tensor(Virtual(s, ChunkAt(Opposite(d), k)), Mb(k))

\* The n-th tensor s sends in direction d, from 0.
Sent(s, d, n) == Product(s, d, Sender(Closes(s, d), n))
\* The virtual stage whose tensors chunk c of stage s uses, -1 for none.
From(s, d, c) ==
  IF d = "prev" THEN Virtual(s, c) - 1 ELSE IF LastVirtual(s, c) THEN -1 ELSE Virtual(s, c) + 1

\* A virtual stage's tensor of a microbatch, None for no virtual stage.
Of(u, m) == IF u = -1 THEN None ELSE Tensor(u, m)

\* list begins with the tensors of microbatches a+1 to b, or has only
\* these.
Begins(list, u, a, b) == Len(list) >= b - a /\ \A i \in 1 .. b - a : list[i] = Of(u, a + i)
Holds(list, u, a, b) == Len(list) = b - a /\ Begins(list, u, a, b)

\* The directions and their opposites.
LEMMA DirFacts ==
  /\ "next" \in Dirs /\ "prev" \in Dirs /\ "next" # "prev" /\ Dirs = {"next", "prev"}
  /\ Opposite("next") = "prev" /\ Opposite("prev") = "next"
  /\ \A d \in Dirs : Opposite(d) \in Dirs /\ Opposite(Opposite(d)) = d /\ Opposite(d) # d
BY DEF Dirs, Opposite

\* The neighbours of a stage; a link is closed by it as by its neighbour.
LEMMA PeerFacts ==
  ASSUME NEW s \in Stages, NEW d \in Dirs
  PROVE  /\ s \in Nat /\ s < P
         /\ Peer(s, d) \in Stages /\ Peer(s, d) # s /\ Peer(Peer(s, d), Opposite(d)) = s
         /\ Closes(Peer(s, d), Opposite(d)) = Closes(s, d)
         /\ Closes(s, d) \in BOOLEAN
         /\ Peer(s, "next") = (IF Closes(s, "next") THEN 0 ELSE s + 1)
         /\ Peer(s, "prev") = (IF Closes(s, "prev") THEN P - 1 ELSE s - 1)
         /\ Closes(s, "next") <=> s = P - 1
         /\ Closes(s, "prev") <=> s = 0
<1>1. s \in 0 .. P - 1 /\ P \in Nat /\ P > 2 /\ s \in Nat /\ s < P
  BY PAssumption DEF Stages
<1>2. Closes(s, "next") = (s = P - 1) /\ Closes(s, "prev") = (s = 0) BY DEF Closes
<1>3. ASSUME NEW t \in 0 .. P - 1
      PROVE  /\ Peer(t, "next") = (IF t = P - 1 THEN 0 ELSE t + 1)
             /\ Peer(t, "prev") = (IF t = 0 THEN P - 1 ELSE t - 1)
  <2>1. (t + 1) % P = IF t = P - 1 THEN 0 ELSE t + 1 BY <1>1
  <2>2. (t + P - 1) % P = IF t = 0 THEN P - 1 ELSE t - 1
    <3>1. CASE t = 0 BY <1>1, <3>1
    <3>2. CASE t > 0
      <4>1. t - 1 \in 0 .. P - 1 /\ t + P - 1 = 1 * P + (t - 1) /\ 1 \in Int
        BY <1>1, <3>2
      <4>2. (1 * P + (t - 1)) % P = t - 1 BY <4>1, Sizes, ExactQuotient
      <4> QED BY <1>1, <3>2, <4>1, <4>2
    <3> QED BY <1>1, <3>1, <3>2
  <2> QED BY <2>1, <2>2 DEF Peer
<1>4. CASE d = "next"
  <2>1. PICK t \in 0 .. P - 1 : t = Peer(s, d) /\ t = (IF s = P - 1 THEN 0 ELSE s + 1)
    BY <1>1, <1>3, <1>4
  <2>2. Peer(t, "prev") = (IF t = 0 THEN P - 1 ELSE t - 1) BY <1>3
  <2>3. Closes(t, "prev") = (t = 0) /\ Opposite(d) = "prev"
    BY <1>4 DEF Closes, Opposite
  <2>4. Peer(t, "prev") = s /\ (t = 0) = (s = P - 1) /\ t # s BY <1>1, <2>1, <2>2
  <2>5. Peer(s, d) \in Stages /\ Peer(s, d) # s /\ Peer(Peer(s, d), Opposite(d)) = s
    BY <2>1, <2>3, <2>4 DEF Stages
  <2>6. Closes(s, d) = (s = P - 1) /\ Closes(Peer(s, d), Opposite(d)) = (t = 0)
    BY <1>2, <1>4, <2>1, <2>3
  <2>7. Closes(Peer(s, d), Opposite(d)) = Closes(s, d) /\ Closes(s, d) \in BOOLEAN
    BY <2>4, <2>6
  <2>8. /\ Peer(s, "next") = (IF Closes(s, "next") THEN 0 ELSE s + 1)
        /\ Peer(s, "prev") = (IF Closes(s, "prev") THEN P - 1 ELSE s - 1)
    BY <1>1, <1>2, <1>3
  <2>9. (Closes(s, "next") <=> s = P - 1) /\ (Closes(s, "prev") <=> s = 0) BY <1>2
  <2> QED BY <1>1, <2>5, <2>7, <2>8, <2>9
<1>5. CASE d = "prev"
  <2>1. PICK t \in 0 .. P - 1 : t = Peer(s, d) /\ t = (IF s = 0 THEN P - 1 ELSE s - 1)
    BY <1>1, <1>3, <1>5
  <2>2. Peer(t, "next") = (IF t = P - 1 THEN 0 ELSE t + 1) BY <1>3
  <2>3. Closes(t, "next") = (t = P - 1) /\ Opposite(d) = "next"
    BY <1>5 DEF Closes, Opposite
  <2>4. Peer(t, "next") = s /\ (t = P - 1) = (s = 0) /\ t # s BY <1>1, <2>1, <2>2
  <2>5. Peer(s, d) \in Stages /\ Peer(s, d) # s /\ Peer(Peer(s, d), Opposite(d)) = s
    BY <2>1, <2>3, <2>4 DEF Stages
  <2>6. Closes(s, d) = (s = 0) /\ Closes(Peer(s, d), Opposite(d)) = (t = P - 1)
    BY <1>2, <1>5, <2>1, <2>3
  <2>7. Closes(Peer(s, d), Opposite(d)) = Closes(s, d) /\ Closes(s, d) \in BOOLEAN
    BY <2>4, <2>6
  <2>8. /\ Peer(s, "next") = (IF Closes(s, "next") THEN 0 ELSE s + 1)
        /\ Peer(s, "prev") = (IF Closes(s, "prev") THEN P - 1 ELSE s - 1)
    BY <1>1, <1>2, <1>3
  <2>9. (Closes(s, "next") <=> s = P - 1) /\ (Closes(s, "prev") <=> s = 0) BY <1>2
  <2> QED BY <1>1, <2>5, <2>7, <2>8, <2>9
<1> QED BY <1>4, <1>5 DEF Dirs

\* The virtual stages.
LEMMA VirtualFacts ==
  ASSUME NEW s \in Stages, NEW c \in Chunks
  PROVE  /\ Virtual(s, c) \in 0 .. P * V - 1
         /\ (Virtual(s, c) = 0) <=> FirstVirtual(s, c)
         /\ (Virtual(s, c) = P * V - 1) <=> LastVirtual(s, c)
         /\ FirstVirtual(s, c) <=> Closes(s, "prev") /\ c = 0
         /\ LastVirtual(s, c) <=> Closes(s, "next") /\ c = V - 1
<1>1. s \in 0 .. P - 1 /\ c \in 0 .. V - 1 BY DEF Stages, Chunks
<1>2. c * P + s \in 0 .. V * P - 1 /\ V * P = P * V BY <1>1, Sizes, DigitsBound
<1>3. c * P + s = 0 <=> s = 0 /\ c = 0
  <2>1. 0 \in 0 .. P - 1 /\ 0 \in Int /\ 0 = 0 * P + 0 /\ c \in Int BY <1>1, Sizes
  <2>2. c * P + s = 0 * P + 0 => c = 0 /\ s = 0 BY <1>1, <2>1, Sizes, DigitsUnique
  <2> QED BY <2>1, <2>2, Sizes
<1>4. c * P + s = P * V - 1 <=> s = P - 1 /\ c = V - 1
  <2>1. P - 1 \in 0 .. P - 1 /\ V - 1 \in Int /\ P * V - 1 = (V - 1) * P + (P - 1) /\ c \in Int
    BY <1>1, Sizes
  <2>2. c * P + s = (V - 1) * P + (P - 1) => c = V - 1 /\ s = P - 1
    BY <1>1, <2>1, Sizes, DigitsUnique
  <2> QED BY <2>1, <2>2
<1> QED BY <1>2, <1>3, <1>4 DEF Virtual, FirstVirtual, LastVirtual, Closes

\* The virtual stage a pass receives from is the one its tensor is sent
\* by, as its source.
LEMMA FromPeer ==
  ASSUME NEW t \in Stages, NEW d \in Dirs, NEW k \in Int, NEW w, w = Closes(t, d), Receiving(w, k)
  PROVE  /\ From(t, d, ChunkAt(d, k)) = Virtual(Peer(t, d), ChunkAt(d, Source(w, k)))
         /\ From(t, d, ChunkAt(d, k)) # -1
         /\ ChunkAt(d, Source(w, k)) \in Chunks
<1>1. /\ t \in Nat /\ t < P /\ Peer(t, d) \in Stages /\ Closes(t, d) \in BOOLEAN
  BY PeerFacts
<1>2. w = Closes(t, d) /\ w \in BOOLEAN BY <1>1
<1>3. Pos(k) \in Chunks /\ Pos(k) \in Int /\ ChunkAt(d, k) \in Chunks
  BY Places, Sizes DEF Chunks, ChunkAt
<1>4. PICK l \in Int : l = Source(w, k) /\ Pos(l) = (IF w THEN Pos(k) - 1 ELSE Pos(k))
  BY <1>2, InsNext, SourceIs
<1>5. Receiving(w, k) OBVIOUS
<1>6. Virtual(Peer(t, d), ChunkAt(d, l)) = From(t, d, ChunkAt(d, k)) /\ From(t, d, ChunkAt(d, k)) # -1
  <2>1. CASE d = "prev"
    <3>1. Peer(t, d) = (IF w THEN P - 1 ELSE t - 1) /\ (w <=> t = 0)
      BY <1>2, <2>1, PeerFacts
    <3>2. CASE w
      <4>1. PICK j \in Int : j = Pos(k) /\ Pos(l) = j - 1 BY <1>3, <1>4, <3>2
      <4>2. Virtual(Peer(t, d), ChunkAt(d, l)) = (j - 1) * P + (P - 1) /\ Virtual(t, ChunkAt(d, k)) = j * P + 0
        BY <2>1, <3>1, <3>2, <4>1 DEF Virtual, ChunkAt
      <4>3. j # 0 BY <1>5, <3>2, <4>1 DEF Receiving
      <4>4. j > 0 BY <1>3, <4>1, <4>3 DEF Chunks
      <4>7. PICK y \in Int : y = j * P /\ (j - 1) * P = y - P BY <4>1, Sizes
      <4>5. Virtual(Peer(t, d), ChunkAt(d, l)) = Virtual(t, ChunkAt(d, k)) - 1
        BY <4>2, <4>7, PAssumption
      <4>6. Virtual(Peer(t, d), ChunkAt(d, l)) \in Nat
        <5>1. ChunkAt(d, l) \in Chunks BY <2>1, Places DEF ChunkAt
        <5>2. Virtual(Peer(t, d), ChunkAt(d, l)) \in 0 .. P * V - 1
          BY <1>1, <5>1, VirtualFacts
        <5> QED BY <5>2, Sizes
      <4>8. From(t, d, ChunkAt(d, k)) = Virtual(t, ChunkAt(d, k)) - 1
        BY <2>1 DEF From
      <4>9. PICK x \in Nat : x = Virtual(Peer(t, d), ChunkAt(d, l)) BY <4>6
      <4> QED BY <4>5, <4>8, <4>9
    <3>3. CASE ~w
      <4>1. Virtual(Peer(t, d), ChunkAt(d, l)) = Pos(k) * P + (t - 1) /\ Virtual(t, ChunkAt(d, k)) = Pos(k) * P + t
        BY <1>4, <2>1, <3>1, <3>3 DEF Virtual, ChunkAt
      <4>2. PICK y \in Nat : y = Pos(k) * P BY <1>3, Sizes DEF Chunks
      <4>3. t > 0 BY <1>1, <3>1, <3>3
      <4> QED BY <1>1, <2>1, <4>1, <4>2, <4>3 DEF From
    <3> QED BY <3>2, <3>3
  <2>2. CASE d = "next"
    <3>1. Peer(t, d) = (IF w THEN 0 ELSE t + 1) /\ (w <=> t = P - 1)
      BY <1>2, <2>2, PeerFacts
    <3>0. d # "prev" BY <2>2
    <3>2. CASE w
      <4>1. PICK j \in Int : j = V - 1 - Pos(k) /\ V - 1 - Pos(l) = j + 1
        BY <1>3, <1>4, <3>2, Sizes
      <4>2. Virtual(Peer(t, d), ChunkAt(d, l)) = (j + 1) * P + 0 /\ Virtual(t, ChunkAt(d, k)) = j * P + (P - 1)
        BY <3>0, <3>1, <3>2, <4>1 DEF Virtual, ChunkAt
      <4>3. ChunkAt(d, k) = j /\ j # V - 1
        BY <1>3, <1>5, <3>0, <3>2, <4>1, Sizes DEF Receiving, ChunkAt
      <4>4. PICK y \in Int : y = j * P /\ (j + 1) * P = y + P BY <4>1, Sizes
      <4>5. Virtual(Peer(t, d), ChunkAt(d, l)) = Virtual(t, ChunkAt(d, k)) + 1
        BY <4>2, <4>4, Sizes
      <4>6. ~LastVirtual(t, ChunkAt(d, k)) /\ Virtual(t, ChunkAt(d, k)) \in Nat
        BY <1>3, <4>3, VirtualFacts, Sizes
      <4> QED BY <3>0, <4>5, <4>6 DEF From
    <3>3. CASE ~w
      <4>1. PICK j \in Chunks : j = V - 1 - Pos(k) /\ ChunkAt(d, k) = j /\ ChunkAt(d, l) = j
        BY <1>3, <1>4, <3>0, <3>3, Sizes DEF ChunkAt, Chunks
      <4>2. Virtual(Peer(t, d), ChunkAt(d, l)) = j * P + (t + 1) /\ Virtual(t, ChunkAt(d, k)) = j * P + t
        BY <3>1, <3>3, <4>1 DEF Virtual
      <4>3. PICK y \in Nat : y = j * P BY <4>1, Sizes DEF Chunks
      <4>4. ~LastVirtual(t, ChunkAt(d, k)) BY <3>1, <3>3 DEF LastVirtual
      <4> QED BY <1>1, <3>0, <4>2, <4>3, <4>4 DEF From
    <3> QED BY <3>2, <3>3
  <2> QED BY <2>1, <2>2 DEF Dirs
<1>7. ChunkAt(d, l) \in Chunks BY SMTT(60), <1>4, Places, Sizes DEF Chunks, ChunkAt
<1> QED BY <1>4, <1>6, <1>7

\* A pass receives what it needs, and what needs nothing receives nothing.
LEMMA Delivered ==
  ASSUME NEW t \in Stages, NEW d \in Dirs, NEW k \in Int
  PROVE  /\ Receiving(Closes(t, d), k) =>
              Sent(Peer(t, d), Opposite(d), Ins(Closes(t, d), k)) = Of(From(t, d, ChunkAt(d, k)), Mb(k))
         /\ ~Receiving(Closes(t, d), k) => From(t, d, ChunkAt(d, k)) = -1
         /\ ChunkAt(d, k) \in Chunks
<1>1. /\ t \in Nat /\ t < P /\ Peer(t, d) \in Stages
      /\ Closes(Peer(t, d), Opposite(d)) = Closes(t, d) /\ Closes(t, d) \in BOOLEAN
  BY PeerFacts
<1>2. PICK w \in BOOLEAN : w = Closes(t, d) BY <1>1
<1>3. Pos(k) \in Chunks /\ Pos(k) \in Int /\ ChunkAt(d, k) \in Chunks
  BY SMTT(60), Places, Sizes DEF Chunks, ChunkAt
<1>4. ASSUME Receiving(w, k)
      PROVE  Sent(Peer(t, d), Opposite(d), Ins(w, k)) = Of(From(t, d, ChunkAt(d, k)), Mb(k))
  <2>1. PICK l \in Int : l = Source(w, k) /\ Sender(w, Ins(w, k)) = l /\ Mb(l) = Mb(k)
                         /\ Pos(l) = (IF w THEN Pos(k) - 1 ELSE Pos(k))
    BY <1>4, InsNext, SourceIs
  <2>2. Sent(Peer(t, d), Opposite(d), Ins(w, k)) = Tensor(Virtual(Peer(t, d), ChunkAt(d, l)), Mb(k))
    BY <1>1, <1>2, <2>1, DirFacts DEF Sent, Product
  <2>3. Virtual(Peer(t, d), ChunkAt(d, l)) = From(t, d, ChunkAt(d, k)) /\ From(t, d, ChunkAt(d, k)) # -1
    BY <1>2, <1>4, <2>1, FromPeer
  <2> QED BY <2>2, <2>3 DEF Of
<1>5. ASSUME ~Receiving(w, k) PROVE From(t, d, ChunkAt(d, k)) = -1
  <2>1. w /\ Pos(k) = 0 BY <1>5 DEF Receiving
  <2>2. CASE d = "prev"
    <3>1. t = 0 /\ ChunkAt(d, k) = 0 BY <1>2, <2>1, <2>2, PeerFacts DEF ChunkAt
    <3>2. From(t, d, ChunkAt(d, k)) = Virtual(t, ChunkAt(d, k)) - 1 BY <2>2 DEF From
    <3>3. Virtual(t, ChunkAt(d, k)) = 0 * P + 0 BY <3>1 DEF Virtual
    <3> QED BY <3>2, <3>3, PAssumption
  <2>3. CASE d = "next"
    <3>0. d # "prev" /\ t = P - 1 BY <1>2, <2>1, <2>3, PeerFacts
    <3>1. t = P - 1 /\ ChunkAt(d, k) = V - 1 BY <2>1, <3>0, VAssumption DEF ChunkAt
    <3> QED BY <2>3, <3>1 DEF From, LastVirtual
  <2> QED BY <2>2, <2>3 DEF Dirs
<1> QED BY <1>2, <1>3, <1>4, <1>5

\* What is sent is what the pass has made.
LEMMA SentIs ==
  ASSUME NEW s \in Stages, NEW d \in Dirs, NEW k \in Int, Sending(Closes(s, d), k)
  PROVE  Sent(s, d, Outs(Closes(s, d), k)) = Product(s, d, k)
<1>1. Closes(s, d) \in BOOLEAN BY PeerFacts
<1>2. Sender(Closes(s, d), Outs(Closes(s, d), k)) = k BY <1>1, SenderIs
<1> QED BY <1>2 DEF Sent

-----------------------------------------------------------------------------
\* Lists of tensors and links.

\* The tensors a to b-1 that s sends in direction d, in their order.
Transit(list, s, d, a, b) ==
  Len(list) = b - a /\ \A i \in 1 .. Len(list) : list[i] = Sent(s, d, a + i - 1)

\* The tensors of the model.
LEMMA TensorTypes ==
  /\ None \in Tensors /\ Garbage \in Tensors
  /\ \A u \in 0 .. P * V - 1 : \A m \in Nat : /\ Tensor(u, m) \in Tensors /\ Of(u, m) \in Tensors
                                             /\ Of(u, m) = Tensor(u, m) /\ Tensor(u, m) # None
                                             /\ Tensor(u, m).virtual = u /\ Tensor(u, m).mb = m
  /\ \A m : Of(-1, m) = None
<1>1. P * V \in Nat /\ P * V > 0 BY Sizes
<1>2. None \in Tensors /\ Garbage \in Tensors
  BY <1>1 DEF None, Garbage, Tensor, Tensors
<1>3. ASSUME NEW u \in 0 .. P * V - 1, NEW m \in Nat
      PROVE  /\ Tensor(u, m) \in Tensors /\ Tensor(u, m) # None
             /\ Tensor(u, m).virtual = u /\ Tensor(u, m).mb = m
  <2>1. u \in -2 .. P * V - 1 /\ u # -1 BY <1>1
  <2> QED BY <2>1 DEF Tensor, Tensors, None
<1>4. ASSUME NEW u \in 0 .. P * V - 1, NEW m \in Nat PROVE Of(u, m) = Tensor(u, m)
  <2>1. u # -1 BY <1>1
  <2> QED BY <2>1 DEF Of
<1>5. \A m : Of(-1, m) = None BY DEF Of
<1> QED BY <1>2, <1>3, <1>4, <1>5

\* What a chunk uses from a direction is a tensor or None.
LEMMA FromTypes ==
  ASSUME NEW s \in Stages, NEW d \in Dirs, NEW c \in Chunks
  PROVE  /\ From(s, d, c) \in -1 .. P * V - 1
         /\ \A m \in Nat : Of(From(s, d, c), m) \in Tensors
<1>1. PICK u \in 0 .. P * V - 1 : u = Virtual(s, c) /\ (u = P * V - 1 <=> LastVirtual(s, c)) /\ P * V \in Nat
  BY VirtualFacts, Sizes
<1>2. From(s, d, c) \in -1 .. P * V - 1
  <2>1. CASE d = "prev" BY <1>1, <2>1 DEF From
  <2>2. CASE d # "prev" /\ LastVirtual(s, c) BY <1>1, <2>2, Sizes DEF From
  <2>3. CASE d # "prev" /\ ~LastVirtual(s, c) BY <1>1, <2>3 DEF From
  <2> QED BY <2>1, <2>2, <2>3
<1>3. ASSUME NEW x \in -1 .. P * V - 1, NEW m \in Nat PROVE Of(x, m) \in Tensors
  <2>1. x = -1 \/ x \in 0 .. P * V - 1 BY <1>1
  <2> QED BY <2>1, TensorTypes
<1> QED BY <1>2, <1>3

\* A list with the next tensor appended holds one more, ...
LEMMA HoldsAppend ==
  ASSUME NEW list \in Seq(Tensors), NEW u, NEW a \in Int, NEW b \in Int, NEW m, m = b + 1,
         Holds(list, u, a, b), Of(u, m) \in Tensors
  PROVE  LET x == Append(list, Of(u, m))
         IN x \in Seq(Tensors) /\ Holds(x, u, a, m)
<1> DEFINE x == Append(list, Of(u, m))
<1>1. x \in Seq(Tensors) /\ Len(x) = Len(list) + 1 /\ Len(list) \in Nat OBVIOUS
<1>2. Len(list) = b - a /\ \A i \in 1 .. b - a : list[i] = Of(u, a + i)
  BY DEF Holds, Begins
<1>3. ASSUME NEW i \in 1 .. m - a PROVE x[i] = Of(u, a + i)
  <2>1. CASE i = m - a
    <3>1. i = Len(list) + 1 /\ a + i = m BY <1>2, <2>1
    <3>2. x[Len(list) + 1] = Of(u, m) OBVIOUS
    <3> QED BY <3>1, <3>2
  <2>2. CASE i # m - a
    <3>1. i \in 1 .. b - a /\ i \in 1 .. Len(list) BY <1>2, <2>2
    <3>2. x[i] = list[i] BY <3>1
    <3> QED BY <1>2, <3>1, <3>2
  <2> QED BY <2>1, <2>2
<1>4. Len(x) = m - a BY <1>1, <1>2
<1> HIDE DEF x
<1>5. Holds(x, u, a, m) BY <1>3, <1>4 DEF Holds, Begins
<1> QED BY <1>1, <1>5 DEF x

\* ... without its head it holds one less, the head being the first, ...
LEMMA HoldsTail ==
  ASSUME NEW list \in Seq(Tensors), NEW u, NEW a \in Int, NEW b \in Int, a < b,
         Begins(list, u, a, b)
  PROVE  /\ list # <<>> /\ Head(list) = Of(u, a + 1)
         /\ Tail(list) \in Seq(Tensors) /\ Begins(Tail(list), u, a + 1, b)
         /\ Holds(list, u, a, b) => Holds(Tail(list), u, a + 1, b)
<1>1. Len(list) \in Nat /\ Len(list) >= b - a /\ \A i \in 1 .. b - a : list[i] = Of(u, a + i)
  BY DEF Begins
<1>2. list # <<>> /\ Head(list) = list[1] /\ 1 \in 1 .. b - a BY <1>1
<1>3. Tail(list) \in Seq(Tensors) /\ Len(Tail(list)) = Len(list) - 1
      /\ \A i \in 1 .. Len(list) - 1 : Tail(list)[i] = list[i + 1]
  BY <1>1, <1>2
<1>4. ASSUME NEW i \in 1 .. b - (a + 1) PROVE Tail(list)[i] = Of(u, (a + 1) + i)
  <2>1. i \in 1 .. Len(list) - 1 /\ i + 1 \in 1 .. b - a /\ a + (i + 1) = (a + 1) + i
    BY <1>1
  <2> QED BY <1>1, <1>3, <2>1
<1>5. Begins(Tail(list), u, a + 1, b) BY <1>1, <1>3, <1>4 DEF Begins
<1>6. Holds(list, u, a, b) => Holds(Tail(list), u, a + 1, b)
  BY <1>1, <1>3, <1>5 DEF Holds
<1> QED BY <1>1, <1>2, <1>3, <1>5, <1>6

\* ... its last element is the last one, ...
LEMMA HoldsLast ==
  ASSUME NEW list \in Seq(Tensors), NEW u, NEW a \in Int, NEW b \in Int, a < b,
         Holds(list, u, a, b)
  PROVE  /\ LastOf(list) = Of(u, b) /\ list # <<>>
         /\ b = a + 1 => AllButLast(list) = <<>>
<1>1. Len(list) = b - a /\ Len(list) \in Nat /\ \A i \in 1 .. b - a : list[i] = Of(u, a + i)
  BY DEF Holds, Begins
<1>2. b - a \in 1 .. b - a /\ a + (b - a) = b OBVIOUS
<1>3. LastOf(list) = Of(u, b) /\ list # <<>> BY <1>1, <1>2 DEF LastOf
<1>4. b = a + 1 => AllButLast(list) = <<>>
  <2>1. SUFFICES ASSUME b = a + 1 PROVE AllButLast(list) = <<>>
    OBVIOUS
  <2>2. Len(list) = 1 BY <1>1, <2>1
  <2>3. AllButLast(list) = SubSeq(list, 1, 0) BY <2>2 DEF AllButLast
  <2>4. SubSeq(list, 1, 0) = <<>> BY <2>2
  <2> QED BY <2>3, <2>4
<1> QED BY <1>3, <1>4

\* ... and the empty list holds none.
LEMMA HoldsNothing ==
  ASSUME NEW u, NEW a \in Int
  PROVE  <<>> \in Seq(Tensors) /\ Holds(<<>>, u, a, a) /\ Begins(<<>>, u, a, a)
BY DEF Holds, Begins

\* A list begins with what it holds, whatever is appended to it.
LEMMA HoldsBegins ==
  ASSUME NEW list \in Seq(Tensors), NEW u, NEW a \in Int, NEW b \in Int, NEW x \in Tensors,
         Holds(list, u, a, b)
  PROVE  Begins(list, u, a, b) /\ Begins(Append(list, x), u, a, b)
<1>1. Len(list) = b - a /\ \A i \in 1 .. b - a : list[i] = Of(u, a + i)
  BY DEF Holds, Begins
<1>2. Len(Append(list, x)) = Len(list) + 1 /\ \A i \in 1 .. Len(list) : Append(list, x)[i] = list[i]
  OBVIOUS
<1> QED BY <1>1, <1>2 DEF Begins, Holds

\* A link with the next tensor sent on it, ...
LEMMA TransitAppend ==
  ASSUME NEW list \in Seq(Tensors), NEW s, NEW d, NEW a \in Int, NEW b \in Int,
         Transit(list, s, d, a, b), NEW x \in Tensors, x = Sent(s, d, b)
  PROVE  Append(list, x) \in Seq(Tensors) /\ Transit(Append(list, x), s, d, a, b + 1)
<1>1. Len(list) \in Nat /\ Len(list) = b - a /\ \A i \in 1 .. Len(list) : list[i] = Sent(s, d, a + i - 1)
  BY DEF Transit
<1>2. /\ Append(list, x) \in Seq(Tensors) /\ Len(Append(list, x)) = Len(list) + 1
      /\ \A i \in 1 .. Len(list) : Append(list, x)[i] = list[i]
      /\ Append(list, x)[Len(list) + 1] = x
  OBVIOUS
<1>3. ASSUME NEW i \in 1 .. Len(list) + 1 PROVE Append(list, x)[i] = Sent(s, d, a + i - 1)
  <2>1. CASE i \in 1 .. Len(list) BY <1>1, <1>2, <2>1
  <2>2. CASE i = Len(list) + 1
    <3>1. a + i - 1 = b BY <1>1, <2>2
    <3> QED BY <1>2, <2>2, <3>1
  <2> QED BY <1>1, <2>1, <2>2
<1>4. Len(Append(list, x)) = (b + 1) - a BY <1>1, <1>2
<1> QED BY <1>2, <1>3, <1>4 DEF Transit

\* ... and with the first one received from it.
LEMMA TransitTail ==
  ASSUME NEW list \in Seq(Tensors), NEW s, NEW d, NEW a \in Int, NEW b \in Int,
         Transit(list, s, d, a, b), list # <<>>
  PROVE  /\ Head(list) = Sent(s, d, a) /\ Head(list) \in Tensors
         /\ Tail(list) \in Seq(Tensors) /\ Transit(Tail(list), s, d, a + 1, b)
<1>1. Len(list) \in Nat /\ Len(list) = b - a /\ \A i \in 1 .. Len(list) : list[i] = Sent(s, d, a + i - 1)
  BY DEF Transit
<1>2. Len(list) > 0 /\ Head(list) = list[1] /\ 1 \in 1 .. Len(list) /\ a + 1 - 1 = a /\ Head(list) \in Tensors
  BY <1>1
<1>3. Tail(list) \in Seq(Tensors) /\ Len(Tail(list)) = Len(list) - 1
      /\ \A i \in 1 .. Len(list) - 1 : Tail(list)[i] = list[i + 1]
  BY <1>1, <1>2
<1>4. ASSUME NEW i \in 1 .. Len(list) - 1 PROVE Tail(list)[i] = Sent(s, d, (a + 1) + i - 1)
  <2>1. i + 1 \in 1 .. Len(list) /\ a + (i + 1) - 1 = (a + 1) + i - 1 BY <1>1
  <2>2. list[i + 1] = Sent(s, d, a + (i + 1) - 1) BY <1>1, <2>1
  <2> QED BY <1>3, <2>1, <2>2
<1>5. Len(Tail(list)) = b - (a + 1) BY <1>1, <1>3
<1>6. Head(list) = Sent(s, d, a) BY <1>1, <1>2
<1>7. Transit(Tail(list), s, d, a + 1, b) BY <1>3, <1>4, <1>5 DEF Transit
<1> QED BY <1>2, <1>3, <1>6, <1>7

-----------------------------------------------------------------------------
\* The calls, and the inductive invariant.

\* The iterations of call a, and those of stage s before its steady phase.
TotalOf(a) == a.num_microbatches * V
AllWarmupOf(a) == ~a.forward_only /\ a.num_microbatches = P
WarmupOf(a, s) ==
  IF a.forward_only \/ AllWarmupOf(a) THEN TotalOf(a)
  ELSE Min2((P - s - 1) * 2 + (V - 1) * P, TotalOf(a))

\* The model's terms in those of the proof.
LEMMA Terms ==
  /\ M = args.num_microbatches /\ Total = TotalOf(args) /\ AllWarmup = AllWarmupOf(args)
  /\ \A s \in Stages : NumWarmup(s) = WarmupOf(args, s)
  /\ \A k : Chunk(k, TRUE) = Pos(k) /\ Chunk(k, FALSE) = V - Pos(k) - 1
BY DEF M, Total, TotalOf, AllWarmup, AllWarmupOf, NumWarmup, WarmupOf, Chunk, Pos, Round

\* How many iterations and warmup iterations a call has: enough for the
\* first tensor to come around, not all of them when it trains and not
\* AllWarmup.
LEMMA CallFacts ==
  ASSUME NEW a \in Calls, NEW s \in Stages
  PROVE  /\ a.num_microbatches \in Nat \ {0} /\ a.num_microbatches % P = 0
         /\ a.forward_only \in BOOLEAN /\ a.grad_sync_func \in BOOLEAN
         /\ a.batch_p2p_comm \in BOOLEAN /\ a.send_buffer \in Nat
         /\ TotalOf(a) \in Nat /\ WarmupOf(a, s) \in Nat
         /\ 1 < WarmupOf(a, s) /\ WarmupOf(a, s) <= TotalOf(a)
         /\ a.forward_only \/ AllWarmupOf(a) => WarmupOf(a, s) = TotalOf(a)
         /\ ~a.forward_only /\ ~AllWarmupOf(a) =>
              /\ WarmupOf(a, s) < TotalOf(a)
              /\ WarmupOf(a, s) = (P - s - 1) * 2 + (V - 1) * P
              /\ WarmupOf(a, s) >= (V - 1) * P
              /\ s = 0 => WarmupOf(a, s) >= P
<1>1. /\ a.num_microbatches \in Nat \ {0} /\ a.num_microbatches % P = 0
      /\ a.forward_only \in BOOLEAN /\ a.grad_sync_func \in BOOLEAN
      /\ a.batch_p2p_comm \in BOOLEAN /\ a.send_buffer \in Nat
  BY CallsAssumption DEF Call
<1>2. PICK m \in Nat \ {0} : m = a.num_microbatches BY <1>1
<1>3. PICK g \in Nat : m = g * P
  <2>1. m \div P \in Nat /\ m = (m \div P) * P
    <3>1. 0 \in Chunks BY VAssumption DEF Chunks
    <3> QED BY <1>1, <1>2, <3>1, DoneAll
  <2> QED BY <2>1
<1>4. PICK R \in Nat, w \in Nat : /\ R = P * V /\ w = (V - 1) * P /\ w = R - P /\ R > P /\ w > 0 /\ w >= P
  <2>1. P * V \in Nat /\ P * V > P /\ P * (V - 1) = P * V - P /\ P * (V - 1) > 0 /\ P * (V - 1) \in Nat
    BY Sizes
  <2>2. P * (V - 1) = (V - 1) * P BY PAssumption, VAssumption
  <2>3. 0 * P + P <= (V - 1) * P BY Sizes, NextMultiple
  <2>4. 0 * P + P = P BY PAssumption
  <2> QED BY <2>1, <2>2, <2>3, <2>4
<1>5. PICK T \in Nat : T = TotalOf(a) /\ T = m * V /\ T = g * R
  <2>1. (g * P) * V = g * (P * V) /\ m * V \in Nat BY PAssumption, VAssumption
  <2> QED BY <1>2, <1>3, <1>4, <2>1 DEF TotalOf
<1>6. g > 0 BY <1>3, PAssumption
<1>7. T >= R
  <2>1. 0 * R + R <= g * R BY <1>6, NextMultiple
  <2> QED BY <1>5, <2>1
<1>8. a.num_microbatches # P => T >= R + R
  <2>1. SUFFICES ASSUME m # P PROVE T >= R + R
    BY <1>2
  <2>2. g # 1 BY <1>3, <2>1, PAssumption
  <2>3. 1 * R + R <= g * R BY <1>6, <2>2, NextMultiple
  <2> QED BY <1>5, <2>3
<1>9. PICK e \in Nat : e = (P - s - 1) * 2 /\ e <= 2 * P - 2 /\ (s = 0 => e = 2 * P - 2)
  <2>1. s \in 0 .. P - 1 BY DEF Stages
  <2>2. (P - s - 1) * 2 \in Nat /\ (P - s - 1) * 2 <= 2 * P - 2 /\ (s = 0 => (P - s - 1) * 2 = 2 * P - 2)
    BY <2>1, PAssumption
  <2> QED BY <2>2
<1>10. CASE a.forward_only \/ AllWarmupOf(a)
  <2>1. WarmupOf(a, s) = T BY <1>5, <1>10 DEF WarmupOf
  <2>2. T > 1 BY <1>4, <1>7, PAssumption
  <2> QED BY <1>1, <1>5, <1>10, <2>1, <2>2
<1>11. CASE ~(a.forward_only \/ AllWarmupOf(a))
  <2>1. a.num_microbatches # P BY <1>11 DEF AllWarmupOf
  <2>2. e + w < T /\ e + w > 1 BY <1>4, <1>8, <1>9, <2>1, PAssumption
  <2>3. WarmupOf(a, s) = e + w BY <1>4, <1>5, <1>9, <1>11, <2>2 DEF WarmupOf, Min2
  <2>4. WarmupOf(a, s) = (P - s - 1) * 2 + (V - 1) * P BY <1>4, <1>9, <2>3
  <2>5. WarmupOf(a, s) >= (V - 1) * P BY <1>4, <2>3
  <2>6. s = 0 => WarmupOf(a, s) >= P BY <1>4, <2>3, PAssumption
  <2> QED BY <1>1, <1>5, <1>11, <2>2, <2>3, <2>4, <2>5, <2>6
<1> QED BY <1>10, <1>11

\* A stage: its variables in one record.
View(s) ==
  [label |-> pc[s], f |-> forward_k[s], b |-> backward_k[s],
   reqs |-> reqs[s], send |-> send[s], dest |-> dest[s],
   inputs |-> input_tensors[s], outputs |-> output_tensors[s], grads |-> output_tensor_grads[s],
   fwd |-> fwd[s], bwd |-> bwd[s], sync |-> grad_sync[s],
   synchronized |-> synchronized[s], reductions |-> reductions[s], synced |-> param_synced[s]]

\* The labels and the requests.
Labels == {"start", "warmup", "steady", "steady_backward", "cooldown", "done"}
Recv(d) == <<"recv", d>>
Send(d) == <<"send", d>>

\* The passes that use what comes from d, and how many have been made.
Passes(d, v) == IF d = "prev" THEN v.f ELSE v.b

\* The tensor from d for the next pass has been asked for.
Expects(a, s, d, v) ==
  IF d = "prev" THEN v.label \in {"warmup", "steady"} /\ v.f < TotalOf(a)
  ELSE /\ ~a.forward_only /\ v.b < TotalOf(a)
       /\ \/ v.label \in {"steady", "steady_backward", "cooldown"}
          \/ v.label = "warmup" /\ v.f = WarmupOf(a, s) /\ ~AllWarmupOf(a)

\* The passes whose tensor from d has arrived.
Seen(a, s, d, v) ==
  IF Expects(a, s, d, v) /\ Recv(d) \notin v.reqs THEN Passes(d, v) + 1 ELSE Passes(d, v)

\* The passes whose tensor has left towards d.
Gone(d, v) ==
  LET k == Passes(Opposite(d), v)
  IN IF Send(d) \in v.reqs \/ (d = "next" /\ v.label = "steady_backward") THEN k - 1 ELSE k

\* The types of a stage's variables.
TypesOK(a, v) ==
  /\ v.label \in Labels /\ v.f \in 0 .. TotalOf(a) /\ v.b \in 0 .. TotalOf(a)
  /\ v.reqs \in SUBSET ({"send", "recv"} \X Dirs) /\ v.send \in [Dirs -> Tensors]
  /\ {v.inputs, v.outputs, v.grads} \subseteq [Chunks -> Seq(Tensors)]
  /\ {v.fwd, v.bwd, v.reductions} \subseteq [Chunks -> Seq(Nat)]
  /\ v.sync \in BOOLEAN /\ {v.synchronized, v.synced} \subseteq SUBSET Chunks

\* How far the passes are at each label.
CountOK(a, s, v) ==
  LET W == WarmupOf(a, s)
      training == ~a.forward_only /\ ~AllWarmupOf(a)
  IN /\ v.label = "start" => v.f = 0 /\ v.b = 0
     /\ v.label = "warmup" => v.f <= W /\ v.b = 0
     /\ v.label = "steady" => v.f = W + v.b /\ v.f < TotalOf(a) /\ training
     /\ v.label = "steady_backward" => v.f = W + v.b + 1 /\ training
     /\ v.label \in {"cooldown", "done"} => v.f = TotalOf(a)
     /\ v.label = "done" => v.b = (IF a.forward_only THEN 0 ELSE TotalOf(a))
     /\ a.forward_only => v.b = 0

Upto(list, n) == Len(list) = n /\ \A k \in 1 .. n : list[k] = k

\* The passes of each chunk are those of its first microbatches, in order.
OrderOK(v) ==
  \A c \in Chunks : Upto(v.fwd[c], Done(v.f, c)) /\ Upto(v.bwd[c], Done(v.b, V - 1 - c))

\* A receive in flight is for the next pass.
RecvOK(a, s, d, v) ==
  LET k == Passes(d, v)
  IN Recv(d) \in v.reqs =>
       /\ Expects(a, s, d, v) /\ Receiving(Closes(s, d), k)
       /\ v.dest[d] = ChunkAt(d, k)

\* A send in flight has the tensor of the last pass.
SendOK(s, d, v) ==
  LET k == Passes(Opposite(d), v) - 1
  IN Send(d) \in v.reqs =>
       k >= 0 /\ Sending(Closes(s, d), k) /\ v.send[d] = Product(s, d, k)

\* The requests in flight.
ReqOK(a, s, v) ==
  /\ \A d \in Dirs : RecvOK(a, s, d, v) /\ SendOK(s, d, v)
  /\ v.label \in {"start", "steady_backward", "done"} => v.reqs = {}
  /\ v.label = "steady_backward" =>
       v.send["next"] = IF Sending(Closes(s, "next"), v.f - 1)
                        THEN Product(s, "next", v.f - 1) ELSE None

\* The microbatches of chunk c whose input is no longer kept.
Kept(a, v, c) == IF a.forward_only THEN Done(v.f, c) ELSE Done(v.b, V - 1 - c)

\* input_tensors: those kept for the backward pass and the next one, a
\* None standing for the input of the first virtual stage. Nothing is
\* asked for after the last pass, and then only the beginning matters.
InputOK(a, s, v) ==
  \A c \in Chunks :
    LET u == From(s, "prev", c)
    IN IF v.f = TotalOf(a) THEN Begins(v.inputs[c], u, Kept(a, v, c), a.num_microbatches)
       ELSE \/ Holds(v.inputs[c], u, Kept(a, v, c), Done(Seen(a, s, "prev", v), c))
            \/ /\ v.label = "steady" /\ FirstVirtual(s, c)
               /\ Holds(v.inputs[c], u, Kept(a, v, c), Done(v.f, c))

\* output_tensors: the chunk's outputs that have not gone backward.
OutputOK(a, s, v) ==
  \A c \in Chunks :
    IF a.forward_only THEN v.outputs[c] = <<>>
    ELSE Holds(v.outputs[c], Virtual(s, c), Done(v.b, V - 1 - c), Done(v.f, c))

\* output_tensor_grads: the gradients that came and were not used.
GradOK(a, s, v) ==
  ~a.forward_only /\ v.b < TotalOf(a) =>
    \A c \in Chunks :
      \/ Holds(v.grads[c], From(s, "next", c), Done(v.b, V - 1 - c), Done(Seen(a, s, "next", v), V - 1 - c))
      \/ LastVirtual(s, c) /\ v.grads[c] = <<>>

\* Backward passes whose chunk's reduction may have been launched: the
\* code launches stage s's reductions s passes late.
Launched(a, s, v) ==
  IF ~a.grad_sync_func THEN v.b ELSE IF v.label = "done" THEN TotalOf(a)
  ELSE IF v.b >= s THEN v.b - s ELSE 0

\* A chunk is synchronized when every microbatch of it has gone backward
\* by the last pass whose reduction was launched, and is then reduced
\* once, with all of them.
SyncOK(a, s, v) ==
  /\ v.label # "done" => ~v.sync
  /\ ~a.forward_only =>
       \A c \in Chunks :
         /\ (c \in v.synchronized) <=> (Done(Launched(a, s, v), V - 1 - c) = a.num_microbatches)
         /\ v.reductions[c] = IF c \in v.synchronized THEN <<a.num_microbatches>> ELSE <<>>

StageOK(a, s, v) ==
  /\ TypesOK(a, v) /\ CountOK(a, s, v) /\ OrderOK(v) /\ ReqOK(a, s, v)
  /\ InputOK(a, s, v) /\ OutputOK(a, s, v) /\ GradOK(a, s, v) /\ SyncOK(a, s, v)

\* Tensors received from d, and sent towards d.
Got(a, s, d, v) == Ins(Closes(s, d), Seen(a, s, d, v))
Put(s, d, v) == Outs(Closes(s, d), Gone(d, v))

\* On a link is what its sender has sent and its receiver has not got.
LinkOK(s, d) ==
  Transit(chan[s][d], s, d, Got(args, Peer(s, d), Opposite(d), View(Peer(s, d))), Put(s, d, View(s)))

\* The variables are functions of the stages.
ByStage ==
  /\ pc = [s \in Stages |-> pc[s]] /\ forward_k = [s \in Stages |-> forward_k[s]]
  /\ backward_k = [s \in Stages |-> backward_k[s]] /\ reqs = [s \in Stages |-> reqs[s]]
  /\ send = [s \in Stages |-> send[s]] /\ dest = [s \in Stages |-> dest[s]]
  /\ input_tensors = [s \in Stages |-> input_tensors[s]]
  /\ output_tensors = [s \in Stages |-> output_tensors[s]]
  /\ output_tensor_grads = [s \in Stages |-> output_tensor_grads[s]]
  /\ fwd = [s \in Stages |-> fwd[s]] /\ bwd = [s \in Stages |-> bwd[s]]
  /\ grad_sync = [s \in Stages |-> grad_sync[s]]
  /\ synchronized = [s \in Stages |-> synchronized[s]]
  /\ reductions = [s \in Stages |-> reductions[s]]
  /\ param_synced = [s \in Stages |-> param_synced[s]]

\* The inductive invariant.
IInv ==
  /\ args \in Calls /\ ByStage /\ chan \in [Stages -> [Dirs -> Seq(Tensors)]]
  /\ \A s \in Stages : StageOK(args, s, View(s))
  /\ \A s \in Stages, d \in Dirs : LinkOK(s, d)

-----------------------------------------------------------------------------
\* Forward passes.

\* The fields of a view.
LEMMA ViewIs ==
  ASSUME NEW s
  PROVE  /\ View(s).label = pc[s] /\ View(s).f = forward_k[s] /\ View(s).b = backward_k[s]
         /\ View(s).reqs = reqs[s] /\ View(s).send = send[s] /\ View(s).dest = dest[s]
         /\ View(s).inputs = input_tensors[s] /\ View(s).outputs = output_tensors[s]
         /\ View(s).grads = output_tensor_grads[s] /\ View(s).fwd = fwd[s] /\ View(s).bwd = bwd[s]
         /\ View(s).sync = grad_sync[s] /\ View(s).synchronized = synchronized[s]
         /\ View(s).reductions = reductions[s] /\ View(s).synced = param_synced[s]
BY DEF View

\* What a stage's forward pass starts from.
ForwardReady(s) ==
  /\ args \in Calls /\ StageOK(args, s, View(s))
  /\ pc[s] \in {"warmup", "steady"} /\ reqs[s] = {} /\ forward_k[s] < Total

\* The same as Kept, of the counts alone.
Held(a, f, b, c) == IF a.forward_only THEN Done(f, c) ELSE Done(b, V - 1 - c)

\* What the invariant says of a forward pass's lists.
LEMMA ForwardFacts ==
  ASSUME NEW s \in Stages, ForwardReady(s)
  PROVE  /\ forward_k[s] \in Nat /\ forward_k[s] + 1 \in 0 .. TotalOf(args) /\ backward_k[s] \in Nat
         /\ {input_tensors[s], output_tensors[s]} \subseteq [Chunks -> Seq(Tensors)]
         /\ fwd[s] \in [Chunks -> Seq(Nat)]
         /\ \A c \in Chunks :
              /\ Upto(fwd[s][c], Done(forward_k[s], c))
              /\ \/ Holds(input_tensors[s][c], From(s, "prev", c),
                          Held(args, forward_k[s], backward_k[s], c), Done(forward_k[s] + 1, c))
                 \/ /\ FirstVirtual(s, c) /\ ~args.forward_only
                    /\ Holds(input_tensors[s][c], From(s, "prev", c),
                             Held(args, forward_k[s], backward_k[s], c), Done(forward_k[s], c))
              /\ IF args.forward_only THEN output_tensors[s][c] = <<>>
                 ELSE Holds(output_tensors[s][c], Virtual(s, c), Done(backward_k[s], V - 1 - c),
                            Done(forward_k[s], c))
<1>1. PICK v : v = View(s) OBVIOUS
<1>2. /\ v.label = pc[s] /\ v.f = forward_k[s] /\ v.b = backward_k[s] /\ v.reqs = reqs[s]
      /\ v.inputs = input_tensors[s] /\ v.outputs = output_tensors[s] /\ v.fwd = fwd[s]
  BY <1>1, ViewIs
<1>3. /\ args \in Calls /\ TypesOK(args, v) /\ CountOK(args, s, v) /\ OrderOK(v)
      /\ InputOK(args, s, v) /\ OutputOK(args, s, v) /\ v.label \in {"warmup", "steady"}
      /\ v.reqs = {} /\ v.f < TotalOf(args)
  BY <1>1, <1>2, Terms DEF ForwardReady, StageOK
<1>4. TotalOf(args) \in Nat BY <1>3, CallFacts
<1>5. /\ v.f \in Nat /\ v.f + 1 \in 0 .. TotalOf(args) /\ v.b \in Nat
      /\ {v.inputs, v.outputs} \subseteq [Chunks -> Seq(Tensors)] /\ v.fwd \in [Chunks -> Seq(Nat)]
  BY <1>3, <1>4 DEF TypesOK
<1>6. Seen(args, s, "prev", v) = v.f + 1 BY <1>3 DEF Seen, Expects, Passes
<1>7. v.label = "steady" => ~args.forward_only BY <1>3 DEF CountOK
<1>8. v.f # TotalOf(args) BY <1>3, <1>4, <1>5
<1>9. ASSUME NEW c \in Chunks
      PROVE  /\ Upto(v.fwd[c], Done(v.f, c))
             /\ \/ Holds(v.inputs[c], From(s, "prev", c), Held(args, v.f, v.b, c), Done(v.f + 1, c))
                \/ /\ FirstVirtual(s, c) /\ ~args.forward_only
                   /\ Holds(v.inputs[c], From(s, "prev", c), Held(args, v.f, v.b, c), Done(v.f, c))
             /\ IF args.forward_only THEN v.outputs[c] = <<>>
                ELSE Holds(v.outputs[c], Virtual(s, c), Done(v.b, V - 1 - c), Done(v.f, c))
  <2>1. Upto(v.fwd[c], Done(v.f, c)) BY <1>3, <1>9 DEF OrderOK
  <2>2. \/ Holds(v.inputs[c], From(s, "prev", c), Held(args, v.f, v.b, c), Done(v.f + 1, c))
        \/ /\ FirstVirtual(s, c) /\ ~args.forward_only
           /\ Holds(v.inputs[c], From(s, "prev", c), Held(args, v.f, v.b, c), Done(v.f, c))
    BY <1>3, <1>6, <1>7, <1>8, <1>9 DEF InputOK, Kept, Held
  <2>3. IF args.forward_only THEN v.outputs[c] = <<>>
        ELSE Holds(v.outputs[c], Virtual(s, c), Done(v.b, V - 1 - c), Done(v.f, c))
    BY <1>3, <1>9 DEF OutputOK
  <2> QED BY <2>1, <2>2, <2>3
<1> QED BY <1>2, <1>5, <1>9

\* What its lists hold when the pass runs, the first virtual stage's with
\* the None that stands for its input.
LEMMA InputsHold ==
  ASSUME NEW s \in Stages, ForwardReady(s), NEW c \in Chunks, c = Pos(forward_k[s])
  PROVE  /\ Inputs(s, c) \in Seq(Tensors)
         /\ Holds(Inputs(s, c), From(s, "prev", c), Held(args, forward_k[s], backward_k[s], c),
                  Done(forward_k[s] + 1, c))
         /\ Held(args, forward_k[s], backward_k[s], c) \in Int
<1>1. PICK f \in Nat, b \in Nat : f = forward_k[s] /\ b = backward_k[s]
  BY ForwardFacts
<1>2. PICK list \in Seq(Tensors), out \in Seq(Tensors) : list = input_tensors[s][c] /\ out = output_tensors[s][c]
  BY ForwardFacts
<1>3. f \in Int /\ b \in Int /\ V - 1 - c \in Chunks BY Sizes DEF Chunks
<1>4. PICK n \in Int, h \in Int, d \in Int :
        n = Done(f, c) /\ h = Held(args, f, b, c) /\ d = Done(b, V - 1 - c)
  BY <1>3, DoneNext DEF Held
<1>5. Done(f + 1, c) = n + 1 BY <1>1, <1>3, <1>4, DoneNext
<1>6. /\ \/ Holds(list, From(s, "prev", c), h, n + 1)
         \/ /\ FirstVirtual(s, c) /\ ~args.forward_only
            /\ Holds(list, From(s, "prev", c), h, n)
      /\ IF args.forward_only THEN out = <<>>
                ELSE Holds(out, Virtual(s, c), d, n)
  BY <1>1, <1>2, <1>4, <1>5, ForwardFacts
<1>7. h = IF args.forward_only THEN n ELSE d BY <1>4 DEF Held
<1>8. Len(out) = n - h BY <1>6, <1>7 DEF Holds
<1>9. CASE Holds(list, From(s, "prev", c), h, n + 1)
  <2>1. Len(list) # Len(out) BY <1>8, <1>9 DEF Holds
  <2>2. Inputs(s, c) = list BY <1>2, <2>1 DEF Inputs
  <2> QED BY <1>1, <1>4, <1>5, <1>9, <2>2
<1>10. CASE FirstVirtual(s, c) /\ ~args.forward_only /\ Holds(list, From(s, "prev", c), h, n)
  <2>1. Len(list) = Len(out) BY <1>8, <1>10 DEF Holds
  <2>2. Inputs(s, c) = Append(list, None) BY <1>2, <1>10, <2>1 DEF Inputs
  <2>3. From(s, "prev", c) = -1 BY <1>10, VirtualFacts DEF From
  <2>4. None = Of(From(s, "prev", c), n + 1) /\ None \in Tensors
    BY <2>3, TensorTypes
  <2>5. Append(list, None) \in Seq(Tensors) /\ Holds(Append(list, None), From(s, "prev", c), h, n + 1)
    BY <1>10, <2>4, HoldsAppend
  <2> QED BY <1>1, <1>4, <1>5, <2>2, <2>5
<1> QED BY <1>6, <1>9, <1>10

\* What the forward pass makes and sends.
LEMMA OutputIs ==
  ASSUME NEW s \in Stages, ForwardReady(s)
  PROVE  /\ Output(s) = Product(s, "next", forward_k[s]) /\ Output(s) \in Tensors /\ Output(s) # None
         /\ Output(s).mb = Mb(forward_k[s])
         /\ Output(s) = Of(Virtual(s, Pos(forward_k[s])), Mb(forward_k[s]))
         /\ SentNext(s) = IF Sending(Closes(s, "next"), forward_k[s])
                          THEN Product(s, "next", forward_k[s]) ELSE None
<1>1. PICK f \in Nat : f = forward_k[s] BY ForwardFacts
<1>2. f \in Int OBVIOUS
<1>3. PICK c \in Chunks : c = Pos(f) /\ c = Chunk(f, TRUE) BY <1>2, Places, Terms
<1>4. PICK u \in 0 .. P * V - 1 : u = Virtual(s, c) BY VirtualFacts
<1>5. PICK m \in Nat \ {0} : m = Mb(f) /\ m = Done(f, c) + 1 /\ Done(f + 1, c) = m /\ Done(f, c) \in Nat
  BY <1>2, <1>3, DoneNext
<1>6. Tensor(u, m) \in Tensors /\ Tensor(u, m) # None /\ Tensor(u, m).mb = m /\ Of(u, m) = Tensor(u, m)
  BY <1>4, <1>5, TensorTypes
<1>7. ForwardOutput(s, c, LastOf(Inputs(s, c))) = Tensor(u, m)
  <2>1. CASE u = 0
    <3>1. Len(fwd[s][c]) = Done(f, c) BY <1>1, <1>3, ForwardFacts DEF Upto
    <3> QED BY <1>4, <1>5, <2>1, <3>1 DEF ForwardOutput
  <2>2. CASE u # 0
    <3>1. From(s, "prev", c) = u - 1 /\ u - 1 \in 0 .. P * V - 1
      BY <1>4, <2>2, Sizes DEF From
    <3>2. PICK h \in Int : h = Held(args, f, backward_k[s], c) /\ Inputs(s, c) \in Seq(Tensors)
                           /\ Holds(Inputs(s, c), u - 1, h, m)
      BY <1>1, <1>3, <1>5, <3>1, InputsHold
    <3>3. h < m
      <4>1. CASE args.forward_only
        <5>1. h = Done(f, c) BY <3>2, <4>1 DEF Held
        <5> QED BY <1>5, <5>1
      <4>2. CASE ~args.forward_only
        <5>1. h = Done(backward_k[s], V - 1 - c) BY <3>2, <4>2 DEF Held
        <5>2. Holds(output_tensors[s][c], Virtual(s, c), h, m - 1)
          BY <1>1, <1>5, <4>2, <5>1, ForwardFacts
        <5>3. output_tensors[s][c] \in Seq(Tensors) BY ForwardFacts
        <5>4. PICK n \in Nat : n = Len(output_tensors[s][c]) BY <5>3
        <5>5. n = m - 1 - h BY <5>2, <5>4 DEF Holds
        <5>6. h \in Int BY <3>2
        <5> QED BY <5>5, <5>6
      <4> QED BY <4>1, <4>2
    <3>4. LastOf(Inputs(s, c)) = Of(u - 1, m) BY <1>5, <3>2, <3>3, HoldsLast
    <3>5. Of(u - 1, m) = Tensor(u - 1, m) /\ Tensor(u - 1, m).virtual = u - 1 /\ Tensor(u - 1, m).mb = m
      BY <1>5, <3>1, TensorTypes
    <3> QED BY <1>4, <2>2, <3>4, <3>5 DEF ForwardOutput
  <2> QED BY <2>1, <2>2
<1>8. Output(s) = Tensor(u, m) BY <1>1, <1>3, <1>7 DEF Output
<1>9. Product(s, "next", f) = Tensor(u, m)
  BY <1>3, <1>4, <1>5, DirFacts DEF Product, ChunkAt
<1>10. LastVirtual(s, c) <=> ~Sending(Closes(s, "next"), f)
  BY <1>3, VirtualFacts DEF Sending
<1>11. SentNext(s) = IF LastVirtual(s, c) THEN None ELSE Output(s)
  BY <1>1, <1>3 DEF SentNext
<1> QED BY <1>1, <1>3, <1>4, <1>5, <1>6, <1>8, <1>9, <1>10, <1>11

\* The lists after it.
LEMMA ForwardLists ==
  ASSUME NEW s \in Stages, ForwardReady(s)
  PROVE  LET f == forward_k[s]
             b == backward_k[s]
         IN /\ {ForwardInputs(s), ForwardOutputs(s)} \subseteq [Chunks -> Seq(Tensors)]
            /\ \A c \in Chunks :
                 /\ Holds(ForwardInputs(s)[c], From(s, "prev", c), Held(args, f + 1, b, c), Done(f + 1, c))
                 /\ IF args.forward_only THEN ForwardOutputs(s)[c] = <<>>
                    ELSE Holds(ForwardOutputs(s)[c], Virtual(s, c), Done(b, V - 1 - c), Done(f + 1, c))
<1>1. PICK f \in Nat, b \in Nat : f = forward_k[s] /\ b = backward_k[s]
  BY ForwardFacts
<1>2. f \in Int /\ b \in Int /\ f + 1 \in Int OBVIOUS
<1>3. PICK p \in Chunks : p = Pos(f) /\ p = Chunk(f, TRUE) BY <1>2, Places, Terms
<1>4. PICK I \in [Chunks -> Seq(Tensors)], O \in [Chunks -> Seq(Tensors)] :
        I = input_tensors[s] /\ O = output_tensors[s]
  BY ForwardFacts
<1>5. PICK x \in Seq(Tensors) : x = Inputs(s, p) BY <1>1, <1>3, InputsHold
<1>6. ForwardInputs(s) = [I EXCEPT ![p] = IF args.forward_only THEN AllButLast(x) ELSE x]
  BY <1>1, <1>3, <1>4, <1>5 DEF ForwardInputs
<1>7. ForwardOutputs(s) = IF args.forward_only THEN O ELSE [O EXCEPT ![p] = @ \o <<Output(s)>>]
  BY <1>1, <1>3, <1>4 DEF ForwardOutputs, Appended
<1>8. /\ Holds(x, From(s, "prev", p), Held(args, f, b, p), Done(f + 1, p))
      /\ Held(args, f, b, p) \in Int
  BY <1>1, <1>3, <1>5, InputsHold
<1>9. ASSUME NEW c \in Chunks
      PROVE  /\ Done(f, c) \in Nat /\ Done(f + 1, c) = Done(f, c) + (IF c = p THEN 1 ELSE 0)
             /\ V - 1 - c \in Chunks /\ Done(b, V - 1 - c) \in Nat
  <2>1. V - 1 - c \in Chunks BY Sizes DEF Chunks
  <2> QED BY <1>2, <1>3, <2>1, DoneNext
<1>10. AllButLast(x) \in Seq(Tensors) /\ (args.forward_only => AllButLast(x) = <<>>)
  <2>1. ASSUME args.forward_only PROVE AllButLast(x) = <<>>
    <3>1. PICK n \in Nat : n = Done(f, p) /\ Done(f + 1, p) = n + 1 /\ Held(args, f, b, p) = n
      BY <1>9, <2>1 DEF Held
    <3>2. Holds(x, From(s, "prev", p), n, n + 1) BY <1>8, <3>1
    <3>3. Len(x) = 1 BY <3>1, <3>2 DEF Holds
    <3>4. AllButLast(x) = SubSeq(x, 1, 0) BY <3>3 DEF AllButLast
    <3> QED BY <3>4
  <2>2. AllButLast(x) \in Seq(Tensors)
    <3>1. Len(x) \in Nat /\ \A i \in 1 .. Len(x) : x[i] \in Tensors OBVIOUS
    <3>2. SubSeq(x, 1, Len(x) - 1) \in Seq(Tensors) BY <3>1, SubSeqProperties
    <3> QED BY <3>2 DEF AllButLast
  <2> QED BY <2>1, <2>2
<1>11. PICK y \in Tensors : y = Output(s) /\ y = Of(Virtual(s, p), Done(f, p) + 1)
  <2>1. Mb(f) = Done(f, p) + 1 BY <1>2, <1>3, DoneNext
  <2> QED BY <1>1, <1>3, <2>1, OutputIs
<1>12. ASSUME NEW c \in Chunks, c # p
       PROVE  /\ Done(f + 1, c) = Done(f, c)
              /\ Holds(I[c], From(s, "prev", c), Held(args, f, b, c), Done(f, c))
              /\ Held(args, f + 1, b, c) = Held(args, f, b, c)
  <2>1. Done(f + 1, c) = Done(f, c) BY <1>9, <1>12
  <2>2. Holds(I[c], From(s, "prev", c), Held(args, f, b, c), Done(f, c))
    BY <1>1, <1>4, <2>1, ForwardFacts
  <2> QED BY <2>1, <2>2 DEF Held
<1>13. ASSUME NEW c \in Chunks
       PROVE IF args.forward_only THEN O[c] = <<>> ELSE Holds(O[c], Virtual(s, c), Done(b, V - 1 - c), Done(f, c))
  BY <1>1, <1>4, ForwardFacts
<1>14. ForwardInputs(s) \in [Chunks -> Seq(Tensors)] BY <1>6, <1>10
<1>15. ASSUME NEW c \in Chunks
       PROVE  Holds(ForwardInputs(s)[c], From(s, "prev", c), Held(args, f + 1, b, c), Done(f + 1, c))
  <2>1. CASE c # p BY <1>6, <1>12, <2>1
  <2>2. CASE c = p /\ args.forward_only
    <3>1. ForwardInputs(s)[c] = <<>> BY <1>6, <1>10, <2>2
    <3>2. Held(args, f + 1, b, c) = Done(f + 1, c) /\ Done(f + 1, c) \in Int
      BY <1>9, <2>2 DEF Held
    <3> QED BY <3>1, <3>2, HoldsNothing
  <2>3. CASE c = p /\ ~args.forward_only
    <3>1. ForwardInputs(s)[c] = x BY <1>6, <2>3
    <3>2. Held(args, f + 1, b, c) = Held(args, f, b, c) BY <2>3 DEF Held
    <3> QED BY <1>8, <2>3, <3>1, <3>2
  <2> QED BY <2>1, <2>2, <2>3
<1>16. /\ ForwardOutputs(s) \in [Chunks -> Seq(Tensors)]
       /\ \A c \in Chunks :
            IF args.forward_only THEN ForwardOutputs(s)[c] = <<>>
            ELSE Holds(ForwardOutputs(s)[c], Virtual(s, c), Done(b, V - 1 - c), Done(f + 1, c))
  <2>1. CASE args.forward_only BY <1>7, <1>13, <2>1
  <2>2. CASE ~args.forward_only
    <3>1. O[p] \o <<y>> = Append(O[p], y) OBVIOUS
    <3>2. ForwardOutputs(s) = [O EXCEPT ![p] = Append(@, y)]
      BY <1>7, <1>11, <2>2, <3>1
    <3>3. PICK n \in Nat, h \in Nat, u \in {Virtual(s, p)} : n = Done(f, p) /\ h = Done(b, V - 1 - p) /\ u = Virtual(s, p)
      BY <1>9
    <3>4. Holds(O[p], u, h, n) /\ y = Of(u, n + 1) /\ O[p] \in Seq(Tensors)
      BY <1>11, <1>13, <2>2, <3>3
    <3>5. Append(O[p], y) \in Seq(Tensors) /\ Holds(Append(O[p], y), u, h, n + 1)
      BY <3>4, HoldsAppend
    <3>6. ASSUME NEW c \in Chunks
          PROVE  Holds(ForwardOutputs(s)[c], Virtual(s, c), Done(b, V - 1 - c), Done(f + 1, c))
      <4>1. CASE c = p BY <1>9, <3>2, <3>3, <3>5, <4>1
      <4>2. CASE c # p BY <1>12, <1>13, <2>2, <3>2, <4>2
      <4> QED BY <4>1, <4>2
    <3> QED BY <2>2, <3>2, <3>5, <3>6
  <2> QED BY <2>1, <2>2
<1> QED BY <1>1, <1>14, <1>15, <1>16

-----------------------------------------------------------------------------
\* Backward passes.

\* What a stage's backward pass starts from.
BackwardReady(s) ==
  /\ args \in Calls /\ StageOK(args, s, View(s)) /\ ~args.forward_only
  /\ pc[s] \in {"steady_backward", "cooldown"} /\ reqs[s] = {} /\ backward_k[s] < Total

\* What the invariant says of a backward pass's lists.
LEMMA BackwardFacts ==
  ASSUME NEW s \in Stages, BackwardReady(s)
  PROVE  LET f == forward_k[s]
             b == backward_k[s]
         IN /\ f \in Nat /\ f <= TotalOf(args) /\ b \in Nat /\ b + 1 \in 0 .. TotalOf(args)
            /\ {input_tensors[s], output_tensors[s], output_tensor_grads[s]} \subseteq [Chunks -> Seq(Tensors)]
            /\ bwd[s] \in [Chunks -> Seq(Nat)]
            /\ Done(b, Pos(b)) < Done(f, V - 1 - Pos(b))
            /\ \A c \in Chunks :
                 /\ Upto(bwd[s][c], Done(b, V - 1 - c))
                 /\ Begins(input_tensors[s][c], From(s, "prev", c), Done(b, V - 1 - c), Done(f, c))
                 /\ f # TotalOf(args) =>
                      Holds(input_tensors[s][c], From(s, "prev", c), Done(b, V - 1 - c), Done(f, c))
                 /\ Holds(output_tensors[s][c], Virtual(s, c), Done(b, V - 1 - c), Done(f, c))
                 /\ \/ Holds(output_tensor_grads[s][c], From(s, "next", c), Done(b, V - 1 - c),
                             Done(b + 1, V - 1 - c))
                    \/ LastVirtual(s, c) /\ output_tensor_grads[s][c] = <<>>
<1>1. PICK v : v = View(s) OBVIOUS
<1>2. /\ v.label = pc[s] /\ v.f = forward_k[s] /\ v.b = backward_k[s] /\ v.reqs = reqs[s]
      /\ v.inputs = input_tensors[s] /\ v.outputs = output_tensors[s]
      /\ v.grads = output_tensor_grads[s] /\ v.bwd = bwd[s]
  BY <1>1, ViewIs
<1>3. /\ args \in Calls /\ TypesOK(args, v) /\ CountOK(args, s, v) /\ OrderOK(v)
      /\ InputOK(args, s, v) /\ OutputOK(args, s, v) /\ GradOK(args, s, v)
      /\ v.label \in {"steady_backward", "cooldown"}
      /\ v.reqs = {} /\ v.b < TotalOf(args) /\ ~args.forward_only
  BY <1>1, <1>2, Terms DEF BackwardReady, StageOK
<1>4. TotalOf(args) \in Nat BY <1>3, CallFacts
<1>5. /\ v.f \in Nat /\ v.f <= TotalOf(args) /\ v.b \in Nat /\ v.b + 1 \in 0 .. TotalOf(args)
      /\ {v.inputs, v.outputs, v.grads} \subseteq [Chunks -> Seq(Tensors)] /\ v.bwd \in [Chunks -> Seq(Nat)]
  BY <1>3, <1>4 DEF TypesOK
<1>6. Seen(args, s, "prev", v) = v.f BY <1>3 DEF Seen, Expects, Passes
<1>7. Seen(args, s, "next", v) = v.b + 1 BY <1>3, DirFacts DEF Seen, Expects, Passes
<1>8. PICK f \in Nat, b \in Nat : f = v.f /\ b = v.b BY <1>5
<1>9. PICK m \in Nat \ {0}, T \in Nat : m = args.num_microbatches /\ T = TotalOf(args) /\ T = m * V /\ m % P = 0
  BY <1>3, <1>4, CallFacts DEF TotalOf
<1>10. ASSUME f = T, NEW c \in Chunks PROVE Done(f, c) = m
  BY <1>9, <1>10, DoneAll
<1>11. PICK p \in Chunks, q \in Chunks : p = Pos(b) /\ q = V - 1 - p
  <2>1. b \in Int OBVIOUS
  <2>2. Pos(b) \in Chunks BY <2>1, Places
  <2>3. V - 1 - Pos(b) \in Chunks BY <2>2, VAssumption DEF Chunks
  <2> QED BY <2>2, <2>3
<1>12. Done(b, p) < Done(f, q)
  <2>1. CASE v.label = "steady_backward"
    <3>1. PICK w \in Nat : w = WarmupOf(args, s) /\ w >= (V - 1) * P
      <4>1. ~args.forward_only /\ ~AllWarmupOf(args) BY <1>3, <2>1 DEF CountOK
      <4> QED BY <1>3, <4>1, CallFacts
    <3>2. f = w + b + 1 BY <1>3, <1>8, <2>1, <3>1 DEF CountOK
    <3>3. PICK x \in Int : x = (V - 1) * P BY PAssumption, VAssumption
    <3>4. f >= b + 1 + (V - 1) * P BY <3>1, <3>2, <3>3
    <3> QED BY <1>11, <3>4, ForwardBefore
  <2>2. CASE v.label = "cooldown"
    <3>1. f = T BY <1>3, <1>8, <1>9, <2>2 DEF CountOK
    <3>2. Done(f, q) = m BY <1>10, <3>1
    <3>3. b \in Int /\ b + 1 \in Nat /\ b + 1 <= T /\ T \in Int BY <1>3, <1>8, <1>9
    <3>4. Done(b + 1, p) = Done(b, p) + 1 /\ Done(b, p) \in Int
      BY <1>11, <3>3, DoneNext
    <3>5. Done(b + 1, p) <= Done(T, p) /\ Done(T, p) = m
      BY <1>9, <1>10, <3>1, <3>3, DoneGrows
    <3> QED BY <3>2, <3>4, <3>5
  <2> QED BY <1>3, <2>1, <2>2
<1>13. ASSUME NEW c \in Chunks
       PROVE  /\ Upto(v.bwd[c], Done(b, V - 1 - c))
              /\ Begins(v.inputs[c], From(s, "prev", c), Done(b, V - 1 - c), Done(f, c))
              /\ f # T => Holds(v.inputs[c], From(s, "prev", c), Done(b, V - 1 - c), Done(f, c))
              /\ Holds(v.outputs[c], Virtual(s, c), Done(b, V - 1 - c), Done(f, c))
              /\ \/ Holds(v.grads[c], From(s, "next", c), Done(b, V - 1 - c), Done(b + 1, V - 1 - c))
                 \/ LastVirtual(s, c) /\ v.grads[c] = <<>>
  <2>1. Upto(v.bwd[c], Done(b, V - 1 - c)) BY <1>3, <1>8 DEF OrderOK
  <2>2. /\ Begins(v.inputs[c], From(s, "prev", c), Done(b, V - 1 - c), Done(f, c))
        /\ f # T => Holds(v.inputs[c], From(s, "prev", c), Done(b, V - 1 - c), Done(f, c))
    <3>1. CASE f = T
      <4>1. Begins(v.inputs[c], From(s, "prev", c), Kept(args, v, c), m)
        BY <1>3, <1>8, <1>9, <3>1 DEF InputOK
      <4>2. Kept(args, v, c) = Done(b, V - 1 - c) BY <1>3, <1>8 DEF Kept
      <4> QED BY <1>10, <3>1, <4>1, <4>2
    <3>2. CASE f # T
      <4>1. v.label # "steady" BY <1>3
      <4>2. Holds(v.inputs[c], From(s, "prev", c), Kept(args, v, c), Done(f, c))
        BY <1>3, <1>6, <1>8, <1>9, <3>2, <4>1 DEF InputOK
      <4>3. Kept(args, v, c) = Done(b, V - 1 - c) BY <1>3, <1>8 DEF Kept
      <4> QED BY <3>2, <4>2, <4>3 DEF Holds
    <3> QED BY <3>1, <3>2
  <2>3. Holds(v.outputs[c], Virtual(s, c), Done(b, V - 1 - c), Done(f, c))
    BY <1>3, <1>8 DEF OutputOK
  <2>4. \/ Holds(v.grads[c], From(s, "next", c), Done(b, V - 1 - c), Done(b + 1, V - 1 - c))
        \/ LastVirtual(s, c) /\ v.grads[c] = <<>>
    BY <1>3, <1>7, <1>8 DEF GradOK
  <2> QED BY <2>1, <2>2, <2>3, <2>4
<1> QED BY <1>2, <1>5, <1>8, <1>9, <1>11, <1>12, <1>13

\* The chunk of the pass, its microbatch, what it sends and its lists.
LEMMA PassedIs ==
  ASSUME NEW s \in Stages, BackwardReady(s)
  PROVE  LET f == forward_k[s]
             b == backward_k[s]
             c == Chunk(b, FALSE)
         IN /\ c \in Chunks /\ c = V - 1 - Pos(b) /\ V - 1 - c = Pos(b)
            /\ Passed(s) = Mb(b) /\ Mb(b) \in Nat \ {0}
            /\ SentPrev(s, Passed(s)) = IF Sending(Closes(s, "prev"), b) THEN Product(s, "prev", b) ELSE None
            /\ SentPrev(s, Passed(s)) \in Tensors
            /\ Product(s, "prev", b) \in Tensors /\ Product(s, "prev", b) # None
            /\ /\ Tail(input_tensors[s][c]) \in Seq(Tensors) /\ Tail(output_tensors[s][c]) \in Seq(Tensors)
               /\ Begins(Tail(input_tensors[s][c]), From(s, "prev", c), Done(b + 1, Pos(b)), Done(f, c))
               /\ f # TotalOf(args) =>
                    Holds(Tail(input_tensors[s][c]), From(s, "prev", c), Done(b + 1, Pos(b)), Done(f, c))
               /\ Holds(Tail(output_tensors[s][c]), Virtual(s, c), Done(b + 1, Pos(b)), Done(f, c))
               /\ Tail(OutGrads(s, c)) = <<>>
<1>1. PICK f \in Nat, b \in Nat : f = forward_k[s] /\ b = backward_k[s]
  BY BackwardFacts
<1>2. b \in Int /\ f \in Int OBVIOUS
<1>3. PICK p \in Chunks, c \in Chunks : p = Pos(b) /\ c = V - 1 - p /\ p = V - 1 - c /\ c = Chunk(b, FALSE)
  <2>1. Pos(b) \in Chunks BY <1>2, Places
  <2>2. V - 1 - Pos(b) \in Chunks /\ Pos(b) = V - 1 - (V - 1 - Pos(b)) /\ V - 1 - Pos(b) = V - Pos(b) - 1
    BY <2>1, VAssumption DEF Chunks
  <2>3. Chunk(b, FALSE) = V - Pos(b) - 1 BY Terms
  <2> QED BY <2>1, <2>2, <2>3
<1>4. PICK n \in Nat, m \in Nat \ {0} :
        n = Done(b, p) /\ m = Mb(b) /\ m = n + 1 /\ Done(b + 1, p) = m
  BY <1>2, <1>3, DoneNext
<1>5. PICK h \in Int : h = Done(f, c) /\ n < h
  <2>1. Done(f, c) \in Int BY <1>2, DoneNext
  <2>2. n < Done(f, c) BY <1>1, <1>3, <1>4, BackwardFacts
  <2> QED BY <2>1, <2>2
<1>6. PICK i \in Seq(Tensors), o \in Seq(Tensors), g \in Seq(Tensors) :
        i = input_tensors[s][c] /\ o = output_tensors[s][c] /\ g = output_tensor_grads[s][c]
  BY BackwardFacts
<1>7. PICK u \in 0 .. P * V - 1 : u = Virtual(s, c) BY VirtualFacts
<1>8. PICK ui, ug : ui = From(s, "prev", c) /\ ug = From(s, "next", c) OBVIOUS
<1>9. /\ Begins(i, ui, n, h) /\ (f # TotalOf(args) => Holds(i, ui, n, h)) /\ Holds(o, u, n, h)
      /\ Holds(g, ug, n, m) \/ (LastVirtual(s, c) /\ g = <<>>)
  BY <1>1, <1>3, <1>4, <1>5, <1>6, <1>7, <1>8, BackwardFacts
<1>10. /\ Head(i) = Of(ui, m) /\ Tail(i) \in Seq(Tensors) /\ Begins(Tail(i), ui, m, h)
       /\ f # TotalOf(args) => Holds(Tail(i), ui, m, h)
  BY SMTT(60), <1>4, <1>5, <1>9, HoldsTail
<1>11. Head(o) = Of(u, m) /\ Tail(o) \in Seq(Tensors) /\ Holds(Tail(o), u, m, h)
  <2>1. Begins(o, u, n, h) BY <1>9 DEF Holds
  <2> QED BY SMTT(60), <1>4, <1>5, <1>9, <2>1, HoldsTail
<1>12. Of(u, m) = Tensor(u, m) /\ Tensor(u, m) \in Tensors /\ Tensor(u, m) # None /\ Tensor(u, m).mb = m
  BY <1>4, <1>7, TensorTypes
<1>13. Head(OutGrads(s, c)) = Of(ug, m) /\ Tail(OutGrads(s, c)) = <<>>
  <2>1. CASE LastVirtual(s, c) /\ g = <<>>
    <3>1. OutGrads(s, c) = <<None>> BY <1>6, <2>1 DEF OutGrads
    <3>2. ug = -1 BY <1>8, <2>1, DirFacts DEF From
    <3> QED BY <3>1, <3>2, TensorTypes
  <2>2. CASE Holds(g, ug, n, m)
    <3>1. Len(g) = 1 BY <1>4, <2>2 DEF Holds
    <3>2. g # <<>>
      <4>1. Len(<<>>) = 0 OBVIOUS
      <4>2. SUFFICES ASSUME g = <<>> PROVE FALSE
        OBVIOUS
      <4>3. Len(g) = 0 BY <4>1, <4>2, Zenon
      <4> QED BY <3>1, <4>3
    <3>3. OutGrads(s, c) = g BY <1>6, <3>2 DEF OutGrads
    <3>4. Head(g) = Of(ug, m)
      <4>1. Begins(g, ug, n, m) /\ n < m BY <1>4, <2>2 DEF Holds
      <4> QED BY <1>4, <4>1, HoldsTail
    <3>5. Tail(g) = <<>>
      <4>1. Tail(g) \in Seq(Tensors) /\ Len(Tail(g)) = 0
        BY <3>1, <3>2, HeadTailProperties
      <4> QED BY <4>1, EmptySeq
    <3> QED BY <3>3, <3>4, <3>5
  <2> QED BY <1>9, <2>1, <2>2
<1>14. Of(ui, m) = (IF u = 0 THEN None ELSE Tensor(u - 1, m))
  <2>1. ui = u - 1 BY <1>7, <1>8 DEF From
  <2> QED BY <1>7, <2>1, TensorTypes DEF Of
<1>15. Of(ug, m) = (IF LastVirtual(s, c) THEN None ELSE Tensor(u + 1, m))
  <2>1. ug = IF LastVirtual(s, c) THEN -1 ELSE u + 1
    BY <1>7, <1>8, DirFacts DEF From
  <2>2. u + 1 # -1 BY <1>7
  <2> QED BY <2>1, <2>2, TensorTypes DEF Of
<1>16. Passed(s) = m
  <2>1. Passed(s) = BackwardMb(s, c, Head(i), Head(o), Head(OutGrads(s, c)))
    BY <1>1, <1>3, <1>6 DEF Passed
  <2>2. Head(i) = (IF u = 0 THEN None ELSE Tensor(u - 1, m)) /\ Head(o) = Tensor(u, m)
        /\ Head(OutGrads(s, c)) = (IF LastVirtual(s, c) THEN None ELSE Tensor(u + 1, m))
    BY <1>10, <1>11, <1>12, <1>13, <1>14, <1>15
  <2> QED BY <1>7, <1>12, <2>1, <2>2 DEF BackwardMb
<1>17. Product(s, "prev", b) = Tensor(u, m)
  BY <1>3, <1>4, <1>7, DirFacts DEF Product, ChunkAt
<1>18. FirstVirtual(s, c) <=> ~Sending(Closes(s, "prev"), b)
  <2>1. c = 0 <=> p = V - 1 BY SMTT(60), <1>3, VAssumption DEF Chunks
  <2> QED BY <1>3, <2>1, VirtualFacts DEF Sending
<1>19. SentPrev(s, m) = IF FirstVirtual(s, c) THEN None ELSE Tensor(u, m)
  BY <1>1, <1>3, <1>4, <1>7 DEF SentPrev
<1>20. SentPrev(s, m) = (IF Sending(Closes(s, "prev"), b) THEN Product(s, "prev", b) ELSE None)
       /\ SentPrev(s, m) \in Tensors
  BY <1>12, <1>17, <1>18, <1>19, TensorTypes
<1> QED BY <1>1, <1>3, <1>4, <1>5, <1>6, <1>7, <1>8, <1>10, <1>11, <1>12, <1>13, <1>16, <1>17, <1>20

-----------------------------------------------------------------------------
\* Requests and placeholders.

\* The requests of one call of the communication functions.
LEMMA RequestsAre ==
  ASSUME NEW next, NEW prev, NEW r \in BOOLEAN, NEW q \in BOOLEAN
  PROVE  LET R == Sends(next, prev) \cup Recvs(r, q)
         IN /\ R \in SUBSET ({"send", "recv"} \X Dirs)
            /\ Recv("prev") \in R <=> r
            /\ Recv("next") \in R <=> q
            /\ Send("next") \in R <=> next # None
            /\ Send("prev") \in R <=> prev # None
BY DEF Sends, Recvs, Recv, Send, Dirs

\* What they send.
LEMMA SendIs ==
  ASSUME NEW next \in Tensors, NEW prev \in Tensors
  PROVE  LET x == [next |-> next, prev |-> prev]
         IN x \in [Dirs -> Tensors] /\ x["next"] = next /\ x["prev"] = prev
BY DEF Dirs

\* A receive that is posted, or not, as the next pass needs.
RecvPosted(a, s, d, w) ==
  /\ Recv(d) \in w.reqs <=> Expects(a, s, d, w) /\ Receiving(Closes(s, d), Passes(d, w))
  /\ Recv(d) \in w.reqs => w.dest[d] = ChunkAt(d, Passes(d, w))

\* Such a receive is as the invariant has it, nothing more having come.
LEMMA RecvPostedOK ==
  ASSUME NEW a, NEW s \in Stages, NEW d \in Dirs, NEW w, Passes(d, w) \in Nat, RecvPosted(a, s, d, w)
  PROVE  /\ RecvOK(a, s, d, w)
         /\ Got(a, s, d, w) = Ins(Closes(s, d), Passes(d, w))
<1>1. RecvOK(a, s, d, w) BY DEF RecvPosted, RecvOK
<1>2. PICK k \in Nat : k = Passes(d, w) OBVIOUS
<1>3. k \in Int /\ Closes(s, d) \in BOOLEAN BY PeerFacts
<1>4. CASE Seen(a, s, d, w) = k BY <1>1, <1>2, <1>4 DEF Got
<1>5. CASE Seen(a, s, d, w) # k
  <2>1. Seen(a, s, d, w) = k + 1 /\ Expects(a, s, d, w) /\ Recv(d) \notin w.reqs
    BY <1>2, <1>5 DEF Seen
  <2>2. ~Receiving(Closes(s, d), k) BY <1>2, <2>1 DEF RecvPosted
  <2>3. Ins(Closes(s, d), k + 1) = Ins(Closes(s, d), k) + (IF Receiving(Closes(s, d), k) THEN 1 ELSE 0)
        /\ Ins(Closes(s, d), k) \in Int
    BY <1>3, InsNext
  <2>4. Ins(Closes(s, d), k + 1) = Ins(Closes(s, d), k) BY <2>2, <2>3
  <2> QED BY <1>1, <1>2, <2>1, <2>4 DEF Got
<1> QED BY <1>4, <1>5

\* A send that is posted, or not, as the last pass needs.
SendPosted(s, d, w) ==
  LET k == Passes(Opposite(d), w) - 1
  IN /\ k \in Nat /\ (w.label = "steady_backward" => d # "next")
     /\ Send(d) \in w.reqs <=> Sending(Closes(s, d), k)
     /\ Send(d) \in w.reqs => w.send[d] = Product(s, d, k)

\* Such a send is as the invariant has it, the last one having not left.
LEMMA SendPostedOK ==
  ASSUME NEW s \in Stages, NEW d \in Dirs, NEW w, Passes(Opposite(d), w) \in Nat,
         SendPosted(s, d, w)
  PROVE  /\ SendOK(s, d, w)
         /\ Put(s, d, w) = Outs(Closes(s, d), Passes(Opposite(d), w) - 1)
<1>1. PICK k \in Nat : k = Passes(Opposite(d), w) - 1 BY DEF SendPosted
<1>2. SendOK(s, d, w) BY <1>1 DEF SendPosted, SendOK
<1>3. k \in Int /\ Closes(s, d) \in BOOLEAN BY PeerFacts
<1>4. CASE Send(d) \in w.reqs BY <1>1, <1>2, <1>4 DEF Put, Gone
<1>5. CASE Send(d) \notin w.reqs
  <2>1. Gone(d, w) = Passes(Opposite(d), w) BY <1>5 DEF Gone, SendPosted
  <2>2. ~Sending(Closes(s, d), k) BY <1>1, <1>5 DEF SendPosted
  <2>3. Outs(Closes(s, d), k + 1) = Outs(Closes(s, d), k) + (IF Sending(Closes(s, d), k) THEN 1 ELSE 0)
        /\ Outs(Closes(s, d), k) \in Int
    BY <1>3, OutsNext
  <2>4. Outs(Closes(s, d), k + 1) = Outs(Closes(s, d), k) BY <2>2, <2>3
  <2>5. Passes(Opposite(d), w) = k + 1 BY <1>1
  <2> QED BY <1>1, <1>2, <2>1, <2>4, <2>5 DEF Put
<1> QED BY <1>4, <1>5

\* No send in flight: all has left.
LEMMA NoSend ==
  ASSUME NEW s, NEW d \in Dirs, NEW w, Send(d) \notin w.reqs, w.label # "steady_backward" \/ d # "next"
  PROVE  SendOK(s, d, w) /\ Put(s, d, w) = Outs(Closes(s, d), Passes(Opposite(d), w))
BY DEF SendOK, Put, Gone

\* Nothing asked for: no more has come than was used.
LEMMA NoRecv ==
  ASSUME NEW a, NEW s, NEW d, NEW w, Recv(d) \notin w.reqs, ~Expects(a, s, d, w)
  PROVE  RecvOK(a, s, d, w) /\ Got(a, s, d, w) = Ins(Closes(s, d), Passes(d, w))
BY DEF RecvOK, Got, Seen

\* A list with the None that stands for a tensor not received.
LEMMA AppendedIs ==
  ASSUME NEW L \in [Chunks -> Seq(Tensors)], NEW p \in Chunks, NEW r \in BOOLEAN
  PROVE  LET A == Appended(L, p, NoneUnless(r))
         IN /\ A \in [Chunks -> Seq(Tensors)]
            /\ \A c \in Chunks : A[c] = IF c = p /\ ~r THEN Append(L[c], None) ELSE L[c]
<1>1. None \in Tensors BY TensorTypes
<1>2. L[p] \o <<None>> = Append(L[p], None) /\ L[p] \o <<>> = L[p] /\ Append(L[p], None) \in Seq(Tensors)
  BY <1>1, ConcatEmptySeq
<1>3. CASE r
  <2>1. Appended(L, p, NoneUnless(r)) = [L EXCEPT ![p] = L[p]]
    BY <1>2, <1>3 DEF Appended, NoneUnless
  <2> QED BY <1>3, <2>1
<1>4. CASE ~r
  <2>1. Appended(L, p, NoneUnless(r)) = [L EXCEPT ![p] = Append(L[p], None)]
    BY <1>2, <1>4 DEF Appended, NoneUnless
  <2> QED BY <1>2, <1>4, <2>1
<1> QED BY <1>3, <1>4

\* The inputs after such a None has been put in for the next pass.
LEMMA InputPosted ==
  ASSUME NEW a \in Calls, NEW s \in Stages, NEW w, w.label = "warmup",
         w.f \in 0 .. TotalOf(a), w.b \in Nat,
         NEW L \in [Chunks -> Seq(Tensors)],
         \A c \in Chunks : Holds(L[c], From(s, "prev", c), Held(a, w.f, w.b, c), Done(w.f, c)),
         NEW r \in BOOLEAN, r <=> Receiving(Closes(s, "prev"), w.f) /\ w.f # TotalOf(a),
         Recv("prev") \in w.reqs <=> r,
         w.inputs = Appended(L, Pos(w.f), NoneUnless(r))
  PROVE  InputOK(a, s, w) /\ w.inputs \in [Chunks -> Seq(Tensors)]
<1>1. TotalOf(a) \in Nat BY CallFacts
<1>2. PICK f \in Nat, b \in Nat : f = w.f /\ b = w.b /\ f \in Int /\ b \in Int
  BY <1>1
<1>3. PICK p \in Chunks : p = Pos(f) BY <1>2, Places
<1>4. PICK A \in [Chunks -> Seq(Tensors)] : A = w.inputs /\
        \A c \in Chunks : A[c] = IF c = p /\ ~r THEN Append(L[c], None) ELSE L[c]
  BY <1>2, <1>3, AppendedIs
<1>5. PICK m \in Nat \ {0} : m = a.num_microbatches /\ (f = TotalOf(a) => \A c \in Chunks : Done(f, c) = m)
  BY CallFacts, DoneAll DEF TotalOf
<1>6. None \in Tensors BY TensorTypes
<1>7. ASSUME NEW c \in Chunks
      PROVE  /\ Done(f, c) \in Int /\ Kept(a, w, c) \in Int
             /\ Holds(L[c], From(s, "prev", c), Kept(a, w, c), Done(f, c))
             /\ Done(f + 1, c) = Done(f, c) + (IF c = p THEN 1 ELSE 0)
  <2>1. V - 1 - c \in Chunks BY VAssumption DEF Chunks
  <2>2. Kept(a, w, c) = Held(a, w.f, w.b, c) BY DEF Kept, Held
  <2>3. Kept(a, w, c) \in Int BY <1>2, <2>1, DoneNext DEF Kept
  <2> QED BY <1>2, <1>3, <2>2, <2>3, DoneNext
<1>8. CASE f = TotalOf(a)
  <2>1. ASSUME NEW c \in Chunks PROVE Begins(A[c], From(s, "prev", c), Kept(a, w, c), m)
    <3>1. PICK h \in Int, u \in {From(s, "prev", c)} : h = Kept(a, w, c) /\ u = From(s, "prev", c) /\ Holds(L[c], u, h, m)
      BY <1>5, <1>7, <1>8
    <3>2. Begins(L[c], u, h, m) /\ Begins(Append(L[c], None), u, h, m)
      BY <1>6, <3>1, HoldsBegins
    <3> QED BY <1>4, <3>1, <3>2
  <2> QED BY <1>2, <1>4, <1>5, <1>8, <2>1 DEF InputOK
<1>9. CASE f # TotalOf(a)
  <2>1. Expects(a, s, "prev", w) /\ Passes("prev", w) = f
    <3>1. f < TotalOf(a) BY <1>1, <1>2, <1>9
    <3> QED BY <1>2, <3>1 DEF Expects, Passes
  <2>2. ASSUME NEW c \in Chunks
        PROVE Holds(A[c], From(s, "prev", c), Kept(a, w, c), Done(Seen(a, s, "prev", w), c))
    <3>1. PICK h \in Int, n \in Int, u \in {From(s, "prev", c)} :
            h = Kept(a, w, c) /\ n = Done(f, c) /\ u = From(s, "prev", c) /\ Holds(L[c], u, h, n)
      BY <1>7
    <3>2. CASE r
      <4>1. Seen(a, s, "prev", w) = f BY <2>1, <3>2 DEF Seen
      <4>2. A[c] = L[c] BY <1>4, <3>2
      <4> QED BY <3>1, <4>1, <4>2
    <3>3. CASE ~r /\ c # p
      <4>1. Seen(a, s, "prev", w) = f + 1 BY <2>1, <3>3 DEF Seen
      <4>2. A[c] = L[c] /\ Done(f + 1, c) = n BY <1>4, <1>7, <3>1, <3>3
      <4> QED BY <3>1, <4>1, <4>2
    <3>4. CASE ~r /\ c = p
      <4>1. Seen(a, s, "prev", w) = f + 1 BY <2>1, <3>4 DEF Seen
      <4>2. A[c] = Append(L[c], None) /\ Done(f + 1, c) = n + 1
        BY <1>4, <1>7, <3>1, <3>4
      <4>3. ~Receiving(Closes(s, "prev"), f) BY <1>2, <1>9, <3>4
      <4>4. ChunkAt("prev", f) = c BY <1>3, <3>4 DEF ChunkAt
      <4>5. u = -1 BY <1>2, <3>1, <4>3, <4>4, DirFacts, Delivered
      <4>6. None = Of(u, n + 1) /\ Of(u, n + 1) \in Tensors
        BY <1>6, <4>5, TensorTypes
      <4>7. Holds(Append(L[c], None), u, h, n + 1) BY <3>1, <4>6, HoldsAppend
      <4> QED BY <3>1, <4>1, <4>2, <4>7
    <3> QED BY <3>2, <3>3, <3>4
  <2> QED BY <1>2, <1>4, <1>9, <2>2 DEF InputOK
<1> QED BY <1>8, <1>9

\* The gradients after such a None has been put in for the next pass, ...
GradPosted(a, s, w) ==
  \A c \in Chunks :
    \/ w.grads[c] = <<>>
    \/ /\ w.grads[c] = <<None>> /\ c = V - 1 - Pos(w.b)
       /\ w.b < TotalOf(a) => Expects(a, s, "next", w) /\ Recv("next") \notin w.reqs

\* ... which are as the invariant has them.
LEMMA GradPostedOK ==
  ASSUME NEW a \in Calls, NEW s \in Stages, NEW w, w.b \in Nat,
         RecvPosted(a, s, "next", w), GradPosted(a, s, w)
  PROVE  GradOK(a, s, w)
<1>1. SUFFICES ASSUME w.b < TotalOf(a), NEW c \in Chunks
               PROVE  \/ Holds(w.grads[c], From(s, "next", c), Done(w.b, V - 1 - c),
                               Done(Seen(a, s, "next", w), V - 1 - c))
                      \/ LastVirtual(s, c) /\ w.grads[c] = <<>>
  BY DEF GradOK
<1>2. PICK b \in Nat : b = w.b /\ b \in Int /\ Passes("next", w) = b
  BY DirFacts DEF Passes
<1>3. PICK j \in Chunks : j = V - 1 - c /\ c = V - 1 - j BY VAssumption DEF Chunks
<1>4. PICK n \in Int : n = Done(b, j) /\ Done(b + 1, j) = n + (IF j = Pos(b) THEN 1 ELSE 0)
  BY <1>2, DoneNext
<1>5. PICK u : u = From(s, "next", c) OBVIOUS
<1>6. Holds(<<>>, u, n, n) BY HoldsNothing
<1>7. w.grads[c] = <<>> \/ (w.grads[c] = <<None>> /\ c = V - 1 - Pos(w.b) /\ Expects(a, s, "next", w) /\ Recv("next") \notin w.reqs)
  BY <1>1 DEF GradPosted
<1>8. CASE Expects(a, s, "next", w) /\ Recv("next") \notin w.reqs
  <2>1. Seen(a, s, "next", w) = b + 1 BY <1>2, <1>8 DEF Seen
  <2>2. ~Receiving(Closes(s, "next"), b) BY <1>2, <1>8 DEF RecvPosted
  <2>3. CASE j # Pos(b)
    <3>1. Done(b + 1, j) = n BY <1>4, <2>3
    <3>2. c # V - 1 - Pos(b)
      <4>1. Pos(b) \in Chunks BY <1>2, Places
      <4> QED BY <1>3, <2>3, <4>1, VAssumption DEF Chunks
    <3> QED BY <1>2, <1>3, <1>4, <1>5, <1>6, <1>7, <2>1, <3>1, <3>2
  <2>4. CASE j = Pos(b)
    <3>1. ChunkAt("next", b) = c BY <1>3, <2>4, DirFacts DEF ChunkAt
    <3>2. u = -1 BY <1>2, <1>5, <2>2, <3>1, DirFacts, Delivered
    <3>3. CASE w.grads[c] = <<>>
      <4>1. u # Virtual(s, c) + 1
        <5>1. Virtual(s, c) \in 0 .. P * V - 1 BY VirtualFacts
        <5> QED BY <3>2, <5>1
      <4>2. LastVirtual(s, c) BY <1>5, <3>2, <4>1, DirFacts DEF From
      <4> QED BY <3>3, <4>2
    <3>4. CASE w.grads[c] = <<None>>
      <4>1. None = Of(u, n + 1) /\ Of(u, n + 1) \in Tensors BY <3>2, TensorTypes
      <4>2. <<>> \in Seq(Tensors) /\ Append(<<>>, None) = <<None>> OBVIOUS
      <4>3. Holds(<<None>>, u, n, n + 1) BY <1>6, <4>1, <4>2, HoldsAppend
      <4>4. Done(b + 1, j) = n + 1 BY <1>4, <2>4
      <4> QED BY <1>2, <1>3, <1>4, <1>5, <2>1, <3>4, <4>3, <4>4
    <3> QED BY <1>7, <3>3, <3>4
  <2> QED BY <2>3, <2>4
<1>9. CASE ~(Expects(a, s, "next", w) /\ Recv("next") \notin w.reqs)
  <2>1. Seen(a, s, "next", w) = b BY <1>2, <1>9 DEF Seen
  <2> QED BY <1>2, <1>3, <1>4, <1>5, <1>6, <1>7, <1>9, <2>1
<1> QED BY <1>8, <1>9

\* Chunks S are synchronized, and reduced by R, after n launches.
Synced(S, R, n, m) ==
  \A c \in Chunks : /\ (c \in S) <=> (Done(n, V - 1 - c) = m)
                    /\ R[c] = IF c \in S THEN <<m>> ELSE <<>>

\* One more launch synchronizes and reduces a chunk if it is its last.
LEMMA SyncedNext ==
  ASSUME NEW m \in Nat \ {0}, m % P = 0, NEW n \in Nat, n < m * V, NEW S \in SUBSET Chunks,
         NEW R \in [Chunks -> Seq(Nat)], Synced(S, R, n, m),
         NEW x \in Chunks, x = V - 1 - Pos(n),
         NEW fin \in BOOLEAN, fin <=> n \div Round = (m * V) \div Round - 1 /\ n % P = P - 1,
         NEW T, T = (IF fin THEN S \cup {x} ELSE S),
         NEW Q, Q = (IF fin THEN [R EXCEPT ![x] = Append(@, m)] ELSE R)
  PROVE  Synced(T, Q, n + 1, m) /\ T \in SUBSET Chunks /\ Q \in [Chunks -> Seq(Nat)]
<1>1. fin <=> Done(n + 1, Pos(n)) = m BY LastIs
<1>2. PICK p \in Chunks : p = Pos(n) /\ x = V - 1 - p /\ p = V - 1 - x
  <2>1. n \in Int OBVIOUS
  <2>2. Pos(n) \in Chunks BY <2>1, Places
  <2> QED BY <2>2, VAssumption DEF Chunks
<1>3. Q \in [Chunks -> Seq(Nat)] /\ T \in SUBSET Chunks
  <2>1. T \in SUBSET Chunks OBVIOUS
  <2>2. Append(R[x], m) \in Seq(Nat) OBVIOUS
  <2>3. CASE fin BY <2>2, <2>3
  <2>4. CASE ~fin BY <2>4
  <2> QED BY <2>1, <2>3, <2>4
<1>4. ASSUME NEW c \in Chunks
      PROVE  /\ (c \in T) <=> (Done(n + 1, V - 1 - c) = m)
             /\ Q[c] = IF c \in T THEN <<m>> ELSE <<>>
  <2>1. PICK j \in Chunks : j = V - 1 - c /\ c = V - 1 - j BY VAssumption DEF Chunks
  <2>2. PICK d \in Int : d = Done(n, j) /\ Done(n + 1, j) = d + (IF j = p THEN 1 ELSE 0)
    <3>1. n \in Int OBVIOUS
    <3> QED BY ZenonT(60), <1>2, <3>1, DoneNext
  <2>3. (c \in S <=> d = m) /\ R[c] = IF c \in S THEN <<m>> ELSE <<>>
    BY <2>1, <2>2 DEF Synced
  <2>4. CASE c # x
    <3>1. j # p BY <1>2, <2>1, <2>4
    <3>2. Done(n + 1, j) = d BY <2>2, <3>1
    <3>3. (c \in T <=> c \in S) /\ Q[c] = R[c] BY <2>4
    <3> QED BY <2>1, <2>3, <3>2, <3>3
  <2>5. CASE c = x
    <3>1. j = p /\ Done(n + 1, j) = d + 1 BY <1>2, <2>1, <2>2, <2>5
    <3>2. d < m
      <4>1. m * V \in Nat /\ n + 1 <= m * V /\ n + 1 \in Nat BY VAssumption
      <4>2. Done(n + 1, j) <= Done(m * V, j) BY <4>1, DoneGrows
      <4>3. Done(m * V, j) = m BY DoneAll
      <4> QED BY <3>1, <4>2, <4>3
    <3>3. c \notin S /\ R[c] = <<>> BY <2>3, <3>2
    <3>4. CASE fin
      <4>1. d + 1 = m BY <1>1, <1>2, <3>1, <3>4
      <4>2. c \in T /\ Q[c] = Append(R[c], m) BY <2>5, <3>4
      <4>3. Append(<<>>, m) = <<m>> OBVIOUS
      <4> QED BY <2>1, <3>1, <3>3, <4>1, <4>2, <4>3
    <3>5. CASE ~fin
      <4>1. d + 1 # m BY <1>1, <1>2, <3>1, <3>5
      <4>2. c \notin T /\ Q[c] = <<>> BY <3>3, <3>5
      <4> QED BY <2>1, <3>1, <4>1, <4>2
    <3> QED BY <3>4, <3>5
  <2> QED BY <2>4, <2>5
<1> QED BY <1>3, <1>4 DEF Synced

-----------------------------------------------------------------------------
\* The passes in order.

\* The first n numbers with the next one.
LEMMA UptoAppend ==
  ASSUME NEW q \in Seq(Nat), NEW n \in Nat, Upto(q, n), NEW m, m = n + 1
  PROVE  Append(q, m) \in Seq(Nat) /\ Upto(Append(q, m), m)
<1>1. Len(Append(q, m)) = n + 1 /\ Append(q, m) \in Seq(Nat) BY DEF Upto
<1>2. Append(q, m)[n + 1] = n + 1 /\ \A k \in 1 .. n : Append(q, m)[k] = q[k]
  BY DEF Upto
<1> QED BY <1>1, <1>2 DEF Upto

\* r is q with the k-th pass added, J giving the places of the chunks.
OneMore(k, J, q, x, r) ==
  /\ k \in Nat /\ J \in [Chunks -> Chunks] /\ q \in [Chunks -> Seq(Nat)]
  /\ \A c \in Chunks : Upto(q[c], Done(k, J[c]))
  /\ x \in Chunks /\ \A c \in Chunks : J[c] = Pos(k) <=> c = x
  /\ r = [q EXCEPT ![x] = Append(@, Mb(k))]

\* The passes with one more are again the first ones of each chunk.
LEMMA PassesAppend ==
  ASSUME NEW K, NEW J, NEW q, NEW X, NEW r, OneMore(K, J, q, X, r)
  PROVE  r \in [Chunks -> Seq(Nat)] /\ \A c \in Chunks : Upto(r[c], Done(K + 1, J[c]))
<1>0. PICK k \in Nat, x \in Chunks :
        /\ k = K /\ x = X /\ J \in [Chunks -> Chunks] /\ q \in [Chunks -> Seq(Nat)]
        /\ \A c \in Chunks : Upto(q[c], Done(k, J[c]))
        /\ \A c \in Chunks : J[c] = Pos(k) <=> c = x
        /\ r = [q EXCEPT ![x] = Append(q[x], Mb(k))]
  BY DEF OneMore
<1>1. k \in Int OBVIOUS
<1>2. PICK p \in Chunks : p = Pos(k) /\ J[x] = p BY <1>0, <1>1, Places
<1>3. PICK n \in Nat, m \in Nat : n = Done(k, p) /\ m = Mb(k) /\ m = n + 1 /\ Done(k + 1, p) = m
  BY <1>1, <1>2, DoneNext
<1>4. Append(q[x], m) \in Seq(Nat) /\ Upto(Append(q[x], m), m)
  <2>1. q[x] \in Seq(Nat) /\ Upto(q[x], n) BY <1>0, <1>2, <1>3
  <2> QED BY <1>3, <2>1, UptoAppend
<1>5. r = [q EXCEPT ![x] = Append(q[x], m)] BY <1>0, <1>3
<1>6. r \in [Chunks -> Seq(Nat)] BY <1>0, <1>4, <1>5
<1>7. ASSUME NEW c \in Chunks PROVE Upto(r[c], Done(k + 1, J[c]))
  <2>1. CASE c = x
    <3>1. r[c] = Append(q[x], m) BY <1>0, <1>5, <2>1
    <3>2. Done(k + 1, J[c]) = m BY <1>2, <1>3, <2>1
    <3> QED BY <1>4, <3>1, <3>2
  <2>2. CASE c # x
    <3>1. PICK j \in Chunks : j = J[c] /\ j # p BY <1>0, <1>2, <2>2
    <3>2. Done(k + 1, j) = Done(k, j)
      <4>1. Done(k + 1, j) = Done(k, j) + (IF j = Pos(k) THEN 1 ELSE 0) /\ Done(k, j) \in Int
        BY <1>1, DoneNext
      <4> QED BY <1>2, <3>1, <4>1
    <3> QED BY <1>0, <1>5, <2>2, <3>1, <3>2
  <2> QED BY <2>1, <2>2
<1> QED BY <1>0, <1>6, <1>7

\* What a backward pass leaves: its chunk's passes and reductions.
LEMMA BackwardStepOK ==
  ASSUME NEW s \in Stages, BackwardReady(s), ByStage, BackwardStep(s, Passed(s)), args' = args,
         pc'[s] # "done"
  PROVE  LET w == View(s)'
         IN /\ w.b = backward_k[s] + 1 /\ w.bwd \in [Chunks -> Seq(Nat)]
            /\ \A c \in Chunks : Upto(w.bwd[c], Done(w.b, V - 1 - c))
            /\ w.sync = FALSE /\ w.synchronized \in SUBSET Chunks /\ w.reductions \in [Chunks -> Seq(Nat)]
            /\ SyncOK(args, s, w)
<1>1. PICK b \in Nat : b = backward_k[s] /\ b \in Int BY BackwardFacts
<1>2. PICK c \in Chunks : c = Chunk(b, FALSE) /\ c = V - 1 - Pos(b) /\ V - 1 - c = Pos(b) /\ Passed(s) = Mb(b)
  BY <1>1, PassedIs
<1>3. PICK v, w : v = View(s) /\ w = View(s)' OBVIOUS
<1>4. v.sync = FALSE /\ SyncOK(args, s, v) /\ TypesOK(args, v) /\ v.label # "done"
      /\ v.synchronized = synchronized[s] /\ v.reductions = reductions[s] /\ v.b = b /\ grad_sync[s] = FALSE
      /\ v.bwd = bwd[s]
  <2>1. v.label = pc[s] /\ v.sync = grad_sync[s] /\ v.b = b /\ v.bwd = bwd[s]
        /\ v.synchronized = synchronized[s] /\ v.reductions = reductions[s]
    BY <1>1, <1>3, ViewIs
  <2>2. SyncOK(args, s, v) /\ TypesOK(args, v) /\ v.label # "done"
    BY <1>3, <2>1 DEF BackwardReady, StageOK
  <2>3. v.sync = FALSE BY <2>2 DEF SyncOK, TypesOK
  <2> QED BY <2>1, <2>2, <2>3
<1>5. /\ w.label = pc'[s] /\ w.b = backward_k'[s] /\ w.bwd = bwd'[s] /\ w.sync = grad_sync'[s]
      /\ w.synchronized = synchronized'[s] /\ w.reductions = reductions'[s]
  BY <1>3 DEF View
<1>6. PICK m \in Nat \ {0} : m = args.num_microbatches /\ m % P = 0 /\ Total = m * V /\ b < m * V
      /\ TotalOf(args) = m * V /\ args.grad_sync_func \in BOOLEAN /\ ~args.forward_only
  <2>1. args \in Calls /\ b < Total /\ ~args.forward_only BY <1>1 DEF BackwardReady
  <2> QED BY <2>1, CallFacts, Terms DEF TotalOf
<1>7. w.b = b + 1 /\ w.sync = FALSE BY <1>1, <1>5 DEF BackwardStep, ByStage
<1>8. w.bwd = [v.bwd EXCEPT ![c] = Append(@, Mb(b))]
  BY <1>1, <1>2, <1>4, <1>5 DEF BackwardStep, ByStage
<1>9. /\ w.bwd \in [Chunks -> Seq(Nat)]
      /\ \A x \in Chunks : Upto(w.bwd[x], Done(w.b, V - 1 - x))
  <2>1. v.bwd \in [Chunks -> Seq(Nat)] BY <1>4 DEF TypesOK
  <2>2. \A x \in Chunks : Upto(v.bwd[x], Done(b, V - 1 - x))
    BY <1>1, <1>4, BackwardFacts
  <2>3. PICK J \in [Chunks -> Chunks] : \A x \in Chunks : J[x] = V - 1 - x /\ (J[x] = Pos(b) <=> x = c)
    <3>1. PICK p \in Chunks : p = Pos(b) /\ V - 1 - c = p BY <1>1, <1>2, Places
    <3> DEFINE J == [x \in Chunks |-> V - 1 - x]
    <3>2. J \in [Chunks -> Chunks] /\ \A x \in Chunks : J[x] = V - 1 - x /\ (J[x] = p <=> x = c)
      BY <3>1, VAssumption DEF Chunks
    <3> QED BY <3>1, <3>2
  <2>4. /\ w.bwd \in [Chunks -> Seq(Nat)]
        /\ \A x \in Chunks : Upto(w.bwd[x], Done(b + 1, J[x]))
    <3>1. PICK q \in [Chunks -> Seq(Nat)], r \in {w.bwd} :
            q = v.bwd /\ r = w.bwd /\ r = [q EXCEPT ![c] = Append(@, Mb(b))]
      BY <1>8, <2>1
    <3>2. \A x \in Chunks : Upto(q[x], Done(b, J[x])) BY <2>2, <2>3, <3>1
    <3>3. r \in [Chunks -> Seq(Nat)] /\ \A x \in Chunks : Upto(r[x], Done(b + 1, J[x]))
      <4>1. OneMore(b, J, q, c, r) BY <2>3, <3>1, <3>2 DEF OneMore
      <4> QED BY <4>1, PassesAppend
    <3> QED BY <3>1, <3>3
  <2> QED BY <1>7, <2>3, <2>4
<1> DEFINE back == b - s
           reduced == Chunk(back, FALSE)
           last == ~args.grad_sync_func /\ LastForChunk(b)
           custom == args.grad_sync_func /\ back >= 0 /\ LastForChunk(back)
<1>10. w.synchronized = v.synchronized \cup (IF last THEN {c} ELSE {}) \cup (IF custom THEN {reduced} ELSE {})
  BY <1>1, <1>2, <1>4, <1>5 DEF BackwardStep, ByStage, GradSyncBack
<1>11. w.reductions = IF last THEN [v.reductions EXCEPT ![c] = Append(@, Len(w.bwd[c]))]
                      ELSE IF custom THEN [v.reductions EXCEPT ![reduced] = Append(@, Len(w.bwd[reduced]))]
                      ELSE v.reductions
  <2>1. reductions' = IF last \/ grad_sync[s]
          THEN [reductions EXCEPT ![s][c] = Append(@, Len(bwd'[s][c]))]
          ELSE IF custom
          THEN [reductions EXCEPT ![s][reduced] = Append(@, Len(bwd'[s][reduced]))]
          ELSE reductions
    BY <1>1, <1>2 DEF BackwardStep, GradSyncBack
  <2>2. reductions = [t \in Stages |-> reductions[t]] /\ grad_sync[s] = FALSE
    BY <1>4 DEF ByStage
  <2> HIDE DEF last, custom, reduced
  <2>3. CASE last BY <1>4, <1>5, <2>1, <2>2, <2>3
  <2>4. CASE ~last /\ custom BY <1>4, <1>5, <2>1, <2>2, <2>4
  <2>5. CASE ~last /\ ~custom BY <1>4, <1>5, <2>1, <2>2, <2>5
  <2> QED BY <2>3, <2>4, <2>5
<1>12. v.synchronized \in SUBSET Chunks /\ v.reductions \in [Chunks -> Seq(Nat)]
       /\ Synced(v.synchronized, v.reductions, Launched(args, s, v), m)
  BY <1>4, <1>6 DEF SyncOK, TypesOK, Synced
<1>17. PICK S \in SUBSET Chunks, R \in [Chunks -> Seq(Nat)] : S = v.synchronized /\ R = v.reductions
  BY <1>12
<1>18. PICK T, Q : T = w.synchronized /\ Q = w.reductions OBVIOUS
<1>13. ASSUME NEW k \in Int
       PROVE LastForChunk(k) <=> k \div Round = (m * V) \div Round - 1 /\ k % P = P - 1
  BY <1>6 DEF LastForChunk, Round
<1>14. s \in Nat BY PAssumption DEF Stages
<1>15. /\ Synced(w.synchronized, w.reductions, Launched(args, s, w), m)
       /\ w.synchronized \in SUBSET Chunks /\ w.reductions \in [Chunks -> Seq(Nat)]
  <2>1. CASE ~args.grad_sync_func
    <3>1. PICK fin \in BOOLEAN : fin <=> LastForChunk(b) OBVIOUS
    <3>2. w.synchronized = IF fin THEN v.synchronized \cup {c} ELSE v.synchronized
      BY <1>10, <2>1, <3>1
    <3>3. fin => Len(w.bwd[c]) = m
      <4>1. Len(w.bwd[c]) = Done(b + 1, Pos(b)) BY <1>2, <1>7, <1>9 DEF Upto
      <4>2. fin => Done(b + 1, Pos(b)) = m BY <1>13, <3>1, <1>1, <1>6, LastIs
      <4> QED BY <4>1, <4>2
    <3>4. w.reductions = IF fin THEN [v.reductions EXCEPT ![c] = Append(@, m)] ELSE v.reductions
      BY <1>11, <2>1, <3>1, <3>3
    <3>5. Launched(args, s, v) = b /\ Launched(args, s, w) = b + 1
      BY <1>4, <1>7, <2>1 DEF Launched
    <3>6. fin <=> b \div Round = (m * V) \div Round - 1 /\ b % P = P - 1
      BY <1>1, <1>13, <3>1
    <3>7. Synced(v.synchronized, v.reductions, b, m) BY <1>12, <3>5
    <3>8. /\ T = (IF fin THEN S \cup {c} ELSE S)
          /\ Q = (IF fin THEN [R EXCEPT ![c] = Append(@, m)] ELSE R)
          /\ Synced(S, R, b, m)
      BY <1>17, <1>18, <3>2, <3>4, <3>7
    <3>9. Synced(T, Q, b + 1, m) /\ T \in SUBSET Chunks /\ Q \in [Chunks -> Seq(Nat)]
      BY <1>2, <1>6, <3>6, <3>8, SyncedNext
    <3> QED BY <1>18, <3>5, <3>9
  <2>2. CASE args.grad_sync_func /\ b < s
    <3>1. w.synchronized = v.synchronized /\ w.reductions = v.reductions
      <4>1. ~last /\ ~custom
        <5>1. ~(back >= 0) BY <1>14, <2>2
        <5> QED BY <2>2, <5>1
      <4> HIDE DEF last, custom, reduced
      <4> QED BY <1>10, <1>11, <4>1
    <3>2. Launched(args, s, v) = 0 BY <1>1, <1>4, <1>14, <2>2 DEF Launched
    <3>3. Launched(args, s, w) = 0
      <4>1. w.label # "done" BY <1>5
      <4> QED BY <1>1, <1>7, <1>14, <2>2, <4>1 DEF Launched
    <3> QED BY <1>12, <3>1, <3>2, <3>3
  <2>3. CASE args.grad_sync_func /\ ~(b < s)
    <3>1. PICK n \in Nat : n = back /\ n = b - s /\ n \in Int /\ n < m * V /\ n + 1 <= b + 1
      <4>1. PICK z \in Nat : z = m * V BY VAssumption
      <4>2. b - s \in Nat /\ b - s < z /\ b - s + 1 <= b + 1
        BY <1>6, <1>14, <2>3, <4>1
      <4> QED BY <4>1, <4>2
    <3>2. PICK x \in Chunks : x = reduced /\ x = V - 1 - Pos(n) /\ V - 1 - x = Pos(n)
      <4>1. Pos(n) \in Chunks BY <3>1, Places
      <4>2. V - 1 - Pos(n) \in Chunks /\ V - Pos(n) - 1 = V - 1 - Pos(n) /\ V - 1 - (V - 1 - Pos(n)) = Pos(n)
        BY <4>1, VAssumption DEF Chunks
      <4>3. Chunk(n, FALSE) = V - Pos(n) - 1 BY Terms
      <4> QED BY <3>1, <4>2, <4>3
    <3>3. PICK fin \in BOOLEAN : fin <=> LastForChunk(n) OBVIOUS
    <3>4. custom <=> fin BY <2>3, <3>1, <3>3
    <3>5. w.synchronized = IF fin THEN v.synchronized \cup {x} ELSE v.synchronized
      BY <1>10, <2>3, <3>2, <3>4
    <3>6. fin <=> n \div Round = (m * V) \div Round - 1 /\ n % P = P - 1
      BY <1>13, <3>1, <3>3
    <3>7. fin => Len(w.bwd[x]) = m
      <4>1. Len(w.bwd[x]) = Done(b + 1, Pos(n)) BY <1>7, <1>9, <3>2 DEF Upto
      <4>2. SUFFICES ASSUME fin PROVE Done(b + 1, Pos(n)) = m
        BY <4>1
      <4>3. Done(n + 1, Pos(n)) = m BY <1>6, <3>1, <3>6, <4>2, LastIs
      <4>4. n + 1 \in Nat /\ b + 1 \in Nat /\ m * V \in Nat /\ b + 1 <= m * V /\ b + 1 \in Int
        BY SMTT(60), <1>1, <1>6, VAssumption
      <4>5. Pos(n) \in Chunks BY <3>1, Places
      <4>6. Done(n + 1, Pos(n)) <= Done(b + 1, Pos(n)) /\ Done(b + 1, Pos(n)) <= Done(m * V, Pos(n))
        BY <3>1, <4>4, <4>5, DoneGrows
      <4>7. Done(m * V, Pos(n)) = m /\ Done(b + 1, Pos(n)) \in Int
        BY <1>6, <4>4, <4>5, DoneAll, DoneNext
      <4> QED BY <4>3, <4>6, <4>7
    <3>8. w.reductions = IF fin THEN [v.reductions EXCEPT ![x] = Append(@, m)] ELSE v.reductions
      BY <1>11, <2>3, <3>2, <3>4, <3>7
    <3>9. Launched(args, s, v) = n /\ Launched(args, s, w) = n + 1
      <4>1. w.label # "done" /\ b >= s /\ b + 1 >= s /\ b + 1 - s = n + 1
        BY SMTT(60), <1>1, <1>5, <1>14, <2>3, <3>1
      <4>2. Launched(args, s, v) = n
        <5>1. v.b >= s /\ v.b - s = n BY <1>4, <3>1, <4>1
        <5> QED BY <1>4, <2>3, <5>1 DEF Launched
      <4>3. Launched(args, s, w) = n + 1
        <5>1. w.b >= s /\ w.b - s = n + 1 BY <1>1, <1>7, <1>14, <3>1, <4>1
        <5> QED BY <2>3, <4>1, <5>1 DEF Launched
      <4> QED BY <4>2, <4>3
    <3>10. Synced(v.synchronized, v.reductions, n, m) BY <1>12, <3>9
    <3>11. /\ T = (IF fin THEN S \cup {x} ELSE S)
           /\ Q = (IF fin THEN [R EXCEPT ![x] = Append(@, m)] ELSE R)
           /\ Synced(S, R, n, m)
      BY <1>17, <1>18, <3>5, <3>8, <3>10
    <3>12. Synced(T, Q, n + 1, m) /\ T \in SUBSET Chunks /\ Q \in [Chunks -> Seq(Nat)]
      BY ZenonT(60), <1>6, <3>1, <3>2, <3>6, <3>11, SyncedNext
    <3> QED BY <1>18, <3>9, <3>12
  <2> QED BY <2>1, <2>2, <2>3
<1>16. SyncOK(args, s, w) BY <1>5, <1>6, <1>7, <1>15 DEF SyncOK, Synced
<1> QED BY <1>1, <1>3, <1>7, <1>9, <1>15, <1>16

-----------------------------------------------------------------------------
\* What each action changes.

\* What a step of a stage must leave: its own part of the invariant, and
\* the links as they were.
StepOK(s) ==
  /\ ByStage' /\ args' = args /\ chan' = chan
  /\ \A t \in Stages : t # s => View(t)' = View(t)
  /\ StageOK(args, s, View(s)')
  /\ \A d \in Dirs : /\ Got(args, s, d, View(s)') = Got(args, s, d, View(s))
                     /\ Put(s, d, View(s)') = Put(s, d, View(s))

\* Such a step preserves the invariant.
LEMMA StepPreserves ==
  ASSUME IInv, NEW s \in Stages, StepOK(s)
  PROVE  IInv'
<1>1. /\ args' \in Calls /\ ByStage' /\ chan' \in [Stages -> [Dirs -> Seq(Tensors)]]
  BY DEF IInv, StepOK
<1>2. ASSUME NEW t \in Stages PROVE StageOK(args', t, View(t)')
  BY <1>2 DEF IInv, StepOK
<1>3. ASSUME NEW t \in Stages, NEW d \in Dirs
      PROVE Got(args', t, d, View(t)') = Got(args, t, d, View(t)) /\ Put(t, d, View(t)') = Put(t, d, View(t))
  <2>1. CASE t = s BY <1>3, <2>1 DEF StepOK
  <2>2. CASE t # s BY <1>3, <2>2 DEF StepOK
  <2> QED BY <2>1, <2>2
<1>4. ASSUME NEW t \in Stages, NEW d \in Dirs PROVE LinkOK(t, d)'
  <2>1. Peer(t, d) \in Stages /\ Opposite(d) \in Dirs BY PeerFacts, DirFacts
  <2>2. LinkOK(t, d) BY DEF IInv
  <2> QED BY <1>3, <2>1, <2>2 DEF LinkOK, StepOK
<1> QED BY <1>1, <1>2, <1>4 DEF IInv

\* Conditions of Warmup and of Cooldown.
LastWarmup(s) == forward_k[s] = NumWarmup(s) - 1 /\ ~args.forward_only /\ ~AllWarmup
CooldownRecvNext(s) == ~(s = P-1 /\ Chunk(backward_k[s] + 1, FALSE) = V-1) /\ backward_k[s] # Total - 1

\* What Start does to each variable of the stage.
LEMMA StartFrame ==
  ASSUME ByStage, NEW s \in Stages, Start(s)
  PROVE  /\ ByStage' /\ args' = args /\ chan' = chan
         /\ \A t \in Stages : t # s => View(t)' = View(t)
         /\ LET v == View(s)
                w == View(s)'
            IN /\ w.label = "warmup"
               /\ w.f = v.f
               /\ w.b = v.b
               /\ w.reqs = Sends(None, None) \cup Recvs(s > 0, FALSE)
               /\ w.send = [next |-> None, prev |-> None]
               /\ w.dest = [prev |-> 0, next |-> 0]
               /\ w.inputs = Appended(v.inputs, 0, NoneUnless(s > 0))
               /\ w.outputs = v.outputs
               /\ w.grads = v.grads
               /\ w.fwd = v.fwd
               /\ w.bwd = v.bwd
               /\ w.sync = v.sync
               /\ w.synchronized = v.synchronized
               /\ w.reductions = v.reductions
               /\ w.synced = {0, 1}
<1>1. ByStage' /\ args' = args /\ chan' = chan
  BY DEF Start, ByStage, Goto, Communicate, sync, lists, requests, ForwardStep
<1>2. ASSUME NEW t \in Stages, t # s PROVE View(t)' = View(t)
  BY <1>2 DEF Start, ByStage, Goto, Communicate, sync, lists, requests, ForwardStep, View
<1>3. /\ pc'[s] = "warmup"
      /\ forward_k'[s] = forward_k[s]
      /\ backward_k'[s] = backward_k[s]
      /\ reqs'[s] = Sends(None, None) \cup Recvs(s > 0, FALSE)
      /\ send'[s] = [next |-> None, prev |-> None]
      /\ dest'[s] = [prev |-> 0, next |-> 0]
      /\ input_tensors'[s] = Appended(input_tensors[s], 0, NoneUnless(s > 0))
      /\ output_tensors'[s] = output_tensors[s]
      /\ output_tensor_grads'[s] = output_tensor_grads[s]
      /\ fwd'[s] = fwd[s]
      /\ bwd'[s] = bwd[s]
      /\ grad_sync'[s] = grad_sync[s]
      /\ synchronized'[s] = synchronized[s]
      /\ reductions'[s] = reductions[s]
      /\ param_synced'[s] = {0, 1}
  BY DEF Start, ByStage, Goto, Communicate, sync, lists, requests, ForwardStep
<1>4. LET v == View(s)
                w == View(s)'
            IN /\ w.label = "warmup"
               /\ w.f = v.f
               /\ w.b = v.b
               /\ w.reqs = Sends(None, None) \cup Recvs(s > 0, FALSE)
               /\ w.send = [next |-> None, prev |-> None]
               /\ w.dest = [prev |-> 0, next |-> 0]
               /\ w.inputs = Appended(v.inputs, 0, NoneUnless(s > 0))
               /\ w.outputs = v.outputs
               /\ w.grads = v.grads
               /\ w.fwd = v.fwd
               /\ w.bwd = v.bwd
               /\ w.sync = v.sync
               /\ w.synchronized = v.synchronized
               /\ w.reductions = v.reductions
               /\ w.synced = {0, 1}
  BY <1>3 DEF View
<1> QED BY <1>1, <1>2, <1>4

\* What Warmup does to each variable of the stage.
LEMMA WarmupFrame ==
  ASSUME ByStage, NEW s \in Stages, Warmup(s)
  PROVE  /\ ByStage' /\ args' = args /\ chan' = chan
         /\ \A t \in Stages : t # s => View(t)' = View(t)
         /\ LET v == View(s)
                w == View(s)'
            IN /\ w.label = v.label
               /\ w.f = v.f + 1
               /\ w.b = v.b
               /\ w.reqs = Sends(SentNext(s), None) \cup Recvs(WarmupRecvPrev(s), LastWarmup(s) /\ s < P-1)
               /\ w.send = [next |-> SentNext(s), prev |-> None]
               /\ w.dest = [prev |-> Chunk(forward_k[s] + 1, TRUE), next |-> V-1]
               /\ w.inputs = Appended(ForwardInputs(s), Chunk(forward_k[s] + 1, TRUE), NoneUnless(WarmupRecvPrev(s)))
               /\ w.outputs = ForwardOutputs(s)
               /\ w.grads = (IF LastWarmup(s) THEN Appended(v.grads, V-1, NoneUnless(LastWarmup(s) /\ s < P-1)) ELSE v.grads)
               /\ w.fwd = [v.fwd EXCEPT ![Chunk(forward_k[s], TRUE)] = Append(@, Output(s).mb)]
               /\ w.bwd = v.bwd
               /\ w.sync = v.sync
               /\ w.synchronized = v.synchronized
               /\ w.reductions = v.reductions
               /\ w.synced = v.synced \cup ParamSyncChunks(s)
<1>1. ByStage' /\ args' = args /\ chan' = chan
  BY DEF Warmup, LastWarmup, ByStage, Goto, Communicate, sync, lists, requests, ForwardStep
<1>2. ASSUME NEW t \in Stages, t # s PROVE View(t)' = View(t)
  BY <1>2 DEF Warmup, LastWarmup, ByStage, Goto, Communicate, sync, lists, requests, ForwardStep, View
<1>3. /\ pc'[s] = pc[s]
      /\ forward_k'[s] = forward_k[s] + 1
      /\ backward_k'[s] = backward_k[s]
      /\ reqs'[s] = Sends(SentNext(s), None) \cup Recvs(WarmupRecvPrev(s), LastWarmup(s) /\ s < P-1)
      /\ send'[s] = [next |-> SentNext(s), prev |-> None]
      /\ dest'[s] = [prev |-> Chunk(forward_k[s] + 1, TRUE), next |-> V-1]
      /\ input_tensors'[s] = Appended(ForwardInputs(s), Chunk(forward_k[s] + 1, TRUE), NoneUnless(WarmupRecvPrev(s)))
      /\ output_tensors'[s] = ForwardOutputs(s)
      /\ output_tensor_grads'[s] = (IF LastWarmup(s) THEN Appended(output_tensor_grads[s], V-1, NoneUnless(LastWarmup(s) /\ s < P-1)) ELSE output_tensor_grads[s])
      /\ fwd'[s] = [fwd[s] EXCEPT ![Chunk(forward_k[s], TRUE)] = Append(@, Output(s).mb)]
      /\ bwd'[s] = bwd[s]
      /\ grad_sync'[s] = grad_sync[s]
      /\ synchronized'[s] = synchronized[s]
      /\ reductions'[s] = reductions[s]
      /\ param_synced'[s] = param_synced[s] \cup ParamSyncChunks(s)
  BY DEF Warmup, LastWarmup, ByStage, Goto, Communicate, sync, lists, requests, ForwardStep
<1>4. LET v == View(s)
                w == View(s)'
            IN /\ w.label = v.label
               /\ w.f = v.f + 1
               /\ w.b = v.b
               /\ w.reqs = Sends(SentNext(s), None) \cup Recvs(WarmupRecvPrev(s), LastWarmup(s) /\ s < P-1)
               /\ w.send = [next |-> SentNext(s), prev |-> None]
               /\ w.dest = [prev |-> Chunk(forward_k[s] + 1, TRUE), next |-> V-1]
               /\ w.inputs = Appended(ForwardInputs(s), Chunk(forward_k[s] + 1, TRUE), NoneUnless(WarmupRecvPrev(s)))
               /\ w.outputs = ForwardOutputs(s)
               /\ w.grads = (IF LastWarmup(s) THEN Appended(v.grads, V-1, NoneUnless(LastWarmup(s) /\ s < P-1)) ELSE v.grads)
               /\ w.fwd = [v.fwd EXCEPT ![Chunk(forward_k[s], TRUE)] = Append(@, Output(s).mb)]
               /\ w.bwd = v.bwd
               /\ w.sync = v.sync
               /\ w.synchronized = v.synchronized
               /\ w.reductions = v.reductions
               /\ w.synced = v.synced \cup ParamSyncChunks(s)
  BY <1>3 DEF View
<1> QED BY <1>1, <1>2, <1>4

\* What EndWarmup does to each variable of the stage.
LEMMA EndWarmupFrame ==
  ASSUME ByStage, NEW s \in Stages, EndWarmup(s)
  PROVE  /\ ByStage' /\ args' = args /\ chan' = chan
         /\ \A t \in Stages : t # s => View(t)' = View(t)
         /\ LET v == View(s)
                w == View(s)'
            IN /\ w.label = (IF forward_k[s] < Total THEN "steady" ELSE "cooldown")
               /\ w.f = v.f
               /\ w.b = v.b
               /\ w.reqs = (IF AllWarmup THEN Sends(None, None) \cup Recvs(FALSE, s < P-1) ELSE v.reqs)
               /\ w.send = (IF AllWarmup THEN [next |-> None, prev |-> None] ELSE v.send)
               /\ w.dest = (IF AllWarmup THEN [prev |-> 0, next |-> V-1] ELSE v.dest)
               /\ w.inputs = v.inputs
               /\ w.outputs = v.outputs
               /\ w.grads = (IF AllWarmup THEN Appended(v.grads, V-1, NoneUnless(s < P-1)) ELSE v.grads)
               /\ w.fwd = v.fwd
               /\ w.bwd = v.bwd
               /\ w.sync = v.sync
               /\ w.synchronized = v.synchronized
               /\ w.reductions = v.reductions
               /\ w.synced = v.synced
<1>1. ByStage' /\ args' = args /\ chan' = chan
  BY DEF EndWarmup, ByStage, Goto, Communicate, sync, lists, requests, ForwardStep
<1>2. ASSUME NEW t \in Stages, t # s PROVE View(t)' = View(t)
  BY <1>2 DEF EndWarmup, ByStage, Goto, Communicate, sync, lists, requests, ForwardStep, View
<1>3. /\ pc'[s] = (IF forward_k[s] < Total THEN "steady" ELSE "cooldown")
      /\ forward_k'[s] = forward_k[s]
      /\ backward_k'[s] = backward_k[s]
      /\ reqs'[s] = (IF AllWarmup THEN Sends(None, None) \cup Recvs(FALSE, s < P-1) ELSE reqs[s])
      /\ send'[s] = (IF AllWarmup THEN [next |-> None, prev |-> None] ELSE send[s])
      /\ dest'[s] = (IF AllWarmup THEN [prev |-> 0, next |-> V-1] ELSE dest[s])
      /\ input_tensors'[s] = input_tensors[s]
      /\ output_tensors'[s] = output_tensors[s]
      /\ output_tensor_grads'[s] = (IF AllWarmup THEN Appended(output_tensor_grads[s], V-1, NoneUnless(s < P-1)) ELSE output_tensor_grads[s])
      /\ fwd'[s] = fwd[s]
      /\ bwd'[s] = bwd[s]
      /\ grad_sync'[s] = grad_sync[s]
      /\ synchronized'[s] = synchronized[s]
      /\ reductions'[s] = reductions[s]
      /\ param_synced'[s] = param_synced[s]
  BY DEF EndWarmup, ByStage, Goto, Communicate, sync, lists, requests, ForwardStep
<1>4. LET v == View(s)
                w == View(s)'
            IN /\ w.label = (IF forward_k[s] < Total THEN "steady" ELSE "cooldown")
               /\ w.f = v.f
               /\ w.b = v.b
               /\ w.reqs = (IF AllWarmup THEN Sends(None, None) \cup Recvs(FALSE, s < P-1) ELSE v.reqs)
               /\ w.send = (IF AllWarmup THEN [next |-> None, prev |-> None] ELSE v.send)
               /\ w.dest = (IF AllWarmup THEN [prev |-> 0, next |-> V-1] ELSE v.dest)
               /\ w.inputs = v.inputs
               /\ w.outputs = v.outputs
               /\ w.grads = (IF AllWarmup THEN Appended(v.grads, V-1, NoneUnless(s < P-1)) ELSE v.grads)
               /\ w.fwd = v.fwd
               /\ w.bwd = v.bwd
               /\ w.sync = v.sync
               /\ w.synchronized = v.synchronized
               /\ w.reductions = v.reductions
               /\ w.synced = v.synced
  BY <1>3 DEF View
<1> QED BY <1>1, <1>2, <1>4

\* What SteadyForward does to each variable of the stage.
LEMMA SteadyForwardFrame ==
  ASSUME ByStage, NEW s \in Stages, SteadyForward(s)
  PROVE  /\ ByStage' /\ args' = args /\ chan' = chan
         /\ \A t \in Stages : t # s => View(t)' = View(t)
         /\ LET v == View(s)
                w == View(s)'
            IN /\ w.label = "steady_backward"
               /\ w.f = v.f + 1
               /\ w.b = v.b
               /\ w.reqs = v.reqs
               /\ w.send = [v.send EXCEPT !["next"] = SentNext(s)]
               /\ w.dest = v.dest
               /\ w.inputs = ForwardInputs(s)
               /\ w.outputs = ForwardOutputs(s)
               /\ w.grads = v.grads
               /\ w.fwd = [v.fwd EXCEPT ![Chunk(forward_k[s], TRUE)] = Append(@, Output(s).mb)]
               /\ w.bwd = v.bwd
               /\ w.sync = v.sync
               /\ w.synchronized = v.synchronized
               /\ w.reductions = v.reductions
               /\ w.synced = v.synced \cup ParamSyncChunks(s)
<1>1. ByStage' /\ args' = args /\ chan' = chan
  BY DEF SteadyForward, ByStage, Goto, Communicate, sync, lists, requests, ForwardStep
<1>2. ASSUME NEW t \in Stages, t # s PROVE View(t)' = View(t)
  BY <1>2 DEF SteadyForward, ByStage, Goto, Communicate, sync, lists, requests, ForwardStep, View
<1>3. /\ pc'[s] = "steady_backward"
      /\ forward_k'[s] = forward_k[s] + 1
      /\ backward_k'[s] = backward_k[s]
      /\ reqs'[s] = reqs[s]
      /\ send'[s] = [send[s] EXCEPT !["next"] = SentNext(s)]
      /\ dest'[s] = dest[s]
      /\ input_tensors'[s] = ForwardInputs(s)
      /\ output_tensors'[s] = ForwardOutputs(s)
      /\ output_tensor_grads'[s] = output_tensor_grads[s]
      /\ fwd'[s] = [fwd[s] EXCEPT ![Chunk(forward_k[s], TRUE)] = Append(@, Output(s).mb)]
      /\ bwd'[s] = bwd[s]
      /\ grad_sync'[s] = grad_sync[s]
      /\ synchronized'[s] = synchronized[s]
      /\ reductions'[s] = reductions[s]
      /\ param_synced'[s] = param_synced[s] \cup ParamSyncChunks(s)
  BY DEF SteadyForward, ByStage, Goto, Communicate, sync, lists, requests, ForwardStep
<1>4. LET v == View(s)
                w == View(s)'
            IN /\ w.label = "steady_backward"
               /\ w.f = v.f + 1
               /\ w.b = v.b
               /\ w.reqs = v.reqs
               /\ w.send = [v.send EXCEPT !["next"] = SentNext(s)]
               /\ w.dest = v.dest
               /\ w.inputs = ForwardInputs(s)
               /\ w.outputs = ForwardOutputs(s)
               /\ w.grads = v.grads
               /\ w.fwd = [v.fwd EXCEPT ![Chunk(forward_k[s], TRUE)] = Append(@, Output(s).mb)]
               /\ w.bwd = v.bwd
               /\ w.sync = v.sync
               /\ w.synchronized = v.synchronized
               /\ w.reductions = v.reductions
               /\ w.synced = v.synced \cup ParamSyncChunks(s)
  BY <1>3 DEF View
<1> QED BY <1>1, <1>2, <1>4

\* What the shared part of the backward passes does to other stages:
\* nothing.
LEMMA BackwardFrame ==
  ASSUME ByStage, NEW s \in Stages, NEW mb, BackwardStep(s, mb)
  PROVE  /\ backward_k' = [t \in Stages |-> backward_k'[t]] /\ bwd' = [t \in Stages |-> bwd'[t]]
         /\ grad_sync' = [t \in Stages |-> grad_sync'[t]] /\ synchronized' = [t \in Stages |-> synchronized'[t]]
         /\ reductions' = [t \in Stages |-> reductions'[t]]
         /\ backward_k'[s] = backward_k[s] + 1
         /\ \A t \in Stages : t # s =>
              /\ backward_k'[t] = backward_k[t] /\ bwd'[t] = bwd[t] /\ grad_sync'[t] = grad_sync[t]
              /\ synchronized'[t] = synchronized[t] /\ reductions'[t] = reductions[t]
<1>1. PICK last, custom, c, reduced, x, y :
        reductions' = IF last THEN [reductions EXCEPT ![s][c] = x]
                      ELSE IF custom THEN [reductions EXCEPT ![s][reduced] = y] ELSE reductions
  <2> DEFINE c == Chunk(backward_k[s], FALSE)
             last == (~args.grad_sync_func /\ LastForChunk(backward_k[s])) \/ grad_sync[s]
             custom == args.grad_sync_func /\ GradSyncBack(s) >= 0 /\ LastForChunk(GradSyncBack(s))
             reduced == Chunk(GradSyncBack(s), FALSE)
             x == Append(reductions[s][c], Len(bwd'[s][c]))
             y == Append(reductions[s][reduced], Len(bwd'[s][reduced]))
  <2>1. reductions' = IF last THEN [reductions EXCEPT ![s][c] = x]
                      ELSE IF custom THEN [reductions EXCEPT ![s][reduced] = y] ELSE reductions
    BY DEF BackwardStep
  <2> QED BY <2>1
<1>2. /\ reductions' = [t \in Stages |-> reductions'[t]]
      /\ \A t \in Stages : t # s => reductions'[t] = reductions[t]
  <2>1. reductions = [t \in Stages |-> reductions[t]] BY DEF ByStage
  <2>2. CASE last BY <1>1, <2>1, <2>2
  <2>3. CASE ~last /\ custom BY <1>1, <2>1, <2>3
  <2>4. CASE ~last /\ ~custom BY <1>1, <2>1, <2>4
  <2> QED BY <2>2, <2>3, <2>4
<1>3. /\ bwd' = [t \in Stages |-> bwd'[t]]
      /\ \A t \in Stages : t # s => bwd'[t] = bwd[t]
  BY DEF BackwardStep, ByStage
<1>4. /\ backward_k' = [t \in Stages |-> backward_k'[t]]
      /\ grad_sync' = [t \in Stages |-> grad_sync'[t]]
      /\ backward_k'[s] = backward_k[s] + 1
      /\ \A t \in Stages : t # s => backward_k'[t] = backward_k[t] /\ grad_sync'[t] = grad_sync[t]
  BY DEF BackwardStep, ByStage
<1>5. /\ synchronized' = [t \in Stages |-> synchronized'[t]]
      /\ \A t \in Stages : t # s => synchronized'[t] = synchronized[t]
  BY DEF BackwardStep, ByStage
<1> QED BY <1>2, <1>3, <1>4, <1>5

\* What SteadyBackward does to each variable of the stage.
LEMMA SteadyBackwardFrame ==
  ASSUME ByStage, NEW s \in Stages, SteadyBackward(s)
  PROVE  /\ ByStage' /\ args' = args /\ chan' = chan
         /\ \A t \in Stages : t # s => View(t)' = View(t)
         /\ LET v == View(s)
                w == View(s)'
            IN /\ w.label = (IF forward_k[s] = Total THEN "cooldown" ELSE "steady")
               /\ w.f = v.f
               /\ w.b = v.b + 1
               /\ w.reqs = Sends(send[s]["next"], SentPrev(s, Passed(s)))
                         \cup Recvs(PrevSends(s, forward_k[s] - 1), ~(s = P-1 /\ NextChunk(s, backward_k[s]) = -1))
               /\ w.send = [next |-> send[s]["next"], prev |-> SentPrev(s, Passed(s))]
               /\ w.dest = [prev |-> PrevChunk(s, forward_k[s] - 1), next |-> NextChunk(s, backward_k[s])]
               /\ w.inputs = [v.inputs EXCEPT ![Chunk(backward_k[s], FALSE)] = Tail(input_tensors[s][Chunk(backward_k[s], FALSE)])]
               /\ w.outputs = [v.outputs EXCEPT ![Chunk(backward_k[s], FALSE)] = Tail(output_tensors[s][Chunk(backward_k[s], FALSE)])]
               /\ w.grads = [v.grads EXCEPT ![Chunk(backward_k[s], FALSE)] = Tail(OutGrads(s, Chunk(backward_k[s], FALSE)))]
               /\ w.fwd = v.fwd
               /\ w.synced = v.synced
<1>0. PICK mb : mb = Passed(s) /\ BackwardStep(s, mb) BY DEF SteadyBackward
<1>1. ByStage' /\ args' = args /\ chan' = chan
  BY <1>0, BackwardFrame DEF SteadyBackward, ByStage, Goto, Communicate, sync, lists, requests, ForwardStep
<1>2. ASSUME NEW t \in Stages, t # s PROVE View(t)' = View(t)
  BY <1>0, <1>2, BackwardFrame DEF SteadyBackward, ByStage, Goto, Communicate, sync, lists, requests, ForwardStep, View
<1>3. /\ pc'[s] = (IF forward_k[s] = Total THEN "cooldown" ELSE "steady")
      /\ forward_k'[s] = forward_k[s]
      /\ backward_k'[s] = backward_k[s] + 1
      /\ reqs'[s] = Sends(send[s]["next"], SentPrev(s, Passed(s)))
                         \cup Recvs(PrevSends(s, forward_k[s] - 1), ~(s = P-1 /\ NextChunk(s, backward_k[s]) = -1))
      /\ send'[s] = [next |-> send[s]["next"], prev |-> SentPrev(s, Passed(s))]
      /\ dest'[s] = [prev |-> PrevChunk(s, forward_k[s] - 1), next |-> NextChunk(s, backward_k[s])]
      /\ input_tensors'[s] = [input_tensors[s] EXCEPT ![Chunk(backward_k[s], FALSE)] = Tail(input_tensors[s][Chunk(backward_k[s], FALSE)])]
      /\ output_tensors'[s] = [output_tensors[s] EXCEPT ![Chunk(backward_k[s], FALSE)] = Tail(output_tensors[s][Chunk(backward_k[s], FALSE)])]
      /\ output_tensor_grads'[s] = [output_tensor_grads[s] EXCEPT ![Chunk(backward_k[s], FALSE)] = Tail(OutGrads(s, Chunk(backward_k[s], FALSE)))]
      /\ fwd'[s] = fwd[s]
      /\ param_synced'[s] = param_synced[s]
  BY <1>0, BackwardFrame DEF SteadyBackward, ByStage, Goto, Communicate, sync, lists, requests, ForwardStep
<1>4. LET v == View(s)
                w == View(s)'
            IN /\ w.label = (IF forward_k[s] = Total THEN "cooldown" ELSE "steady")
               /\ w.f = v.f
               /\ w.b = v.b + 1
               /\ w.reqs = Sends(send[s]["next"], SentPrev(s, Passed(s)))
                         \cup Recvs(PrevSends(s, forward_k[s] - 1), ~(s = P-1 /\ NextChunk(s, backward_k[s]) = -1))
               /\ w.send = [next |-> send[s]["next"], prev |-> SentPrev(s, Passed(s))]
               /\ w.dest = [prev |-> PrevChunk(s, forward_k[s] - 1), next |-> NextChunk(s, backward_k[s])]
               /\ w.inputs = [v.inputs EXCEPT ![Chunk(backward_k[s], FALSE)] = Tail(input_tensors[s][Chunk(backward_k[s], FALSE)])]
               /\ w.outputs = [v.outputs EXCEPT ![Chunk(backward_k[s], FALSE)] = Tail(output_tensors[s][Chunk(backward_k[s], FALSE)])]
               /\ w.grads = [v.grads EXCEPT ![Chunk(backward_k[s], FALSE)] = Tail(OutGrads(s, Chunk(backward_k[s], FALSE)))]
               /\ w.fwd = v.fwd
               /\ w.synced = v.synced
  BY <1>3 DEF View
<1> QED BY <1>1, <1>2, <1>4

\* What Cooldown does to each variable of the stage.
LEMMA CooldownFrame ==
  ASSUME ByStage, NEW s \in Stages, Cooldown(s)
  PROVE  /\ ByStage' /\ args' = args /\ chan' = chan
         /\ \A t \in Stages : t # s => View(t)' = View(t)
         /\ LET v == View(s)
                w == View(s)'
            IN /\ w.label = v.label
               /\ w.f = v.f
               /\ w.b = v.b + 1
               /\ w.reqs = Sends(None, SentPrev(s, Passed(s)))
                         \cup Recvs(FALSE, CooldownRecvNext(s))
               /\ w.send = [next |-> None, prev |-> SentPrev(s, Passed(s))]
               /\ w.dest = [prev |-> 0, next |-> Chunk(backward_k[s] + 1, FALSE)]
               /\ w.inputs = [v.inputs EXCEPT ![Chunk(backward_k[s], FALSE)] = Tail(input_tensors[s][Chunk(backward_k[s], FALSE)])]
               /\ w.outputs = [v.outputs EXCEPT ![Chunk(backward_k[s], FALSE)] = Tail(output_tensors[s][Chunk(backward_k[s], FALSE)])]
               /\ w.grads = Appended([v.grads EXCEPT ![Chunk(backward_k[s], FALSE)] = Tail(OutGrads(s, Chunk(backward_k[s], FALSE)))],
                       Chunk(backward_k[s] + 1, FALSE), NoneUnless(CooldownRecvNext(s)))
               /\ w.fwd = v.fwd
               /\ w.synced = v.synced
<1>0. PICK mb : mb = Passed(s) /\ BackwardStep(s, mb) BY DEF Cooldown
<1>1. ByStage' /\ args' = args /\ chan' = chan
  BY <1>0, BackwardFrame DEF Cooldown, CooldownRecvNext, ByStage, Goto, Communicate, sync, lists, requests, ForwardStep
<1>2. ASSUME NEW t \in Stages, t # s PROVE View(t)' = View(t)
  BY <1>0, <1>2, BackwardFrame DEF Cooldown, CooldownRecvNext, ByStage, Goto, Communicate, sync, lists, requests, ForwardStep, View
<1>3. /\ pc'[s] = pc[s]
      /\ forward_k'[s] = forward_k[s]
      /\ backward_k'[s] = backward_k[s] + 1
      /\ reqs'[s] = Sends(None, SentPrev(s, Passed(s)))
                         \cup Recvs(FALSE, CooldownRecvNext(s))
      /\ send'[s] = [next |-> None, prev |-> SentPrev(s, Passed(s))]
      /\ dest'[s] = [prev |-> 0, next |-> Chunk(backward_k[s] + 1, FALSE)]
      /\ input_tensors'[s] = [input_tensors[s] EXCEPT ![Chunk(backward_k[s], FALSE)] = Tail(input_tensors[s][Chunk(backward_k[s], FALSE)])]
      /\ output_tensors'[s] = [output_tensors[s] EXCEPT ![Chunk(backward_k[s], FALSE)] = Tail(output_tensors[s][Chunk(backward_k[s], FALSE)])]
      /\ output_tensor_grads'[s] = Appended([output_tensor_grads[s] EXCEPT ![Chunk(backward_k[s], FALSE)] = Tail(OutGrads(s, Chunk(backward_k[s], FALSE)))],
                       Chunk(backward_k[s] + 1, FALSE), NoneUnless(CooldownRecvNext(s)))
      /\ fwd'[s] = fwd[s]
      /\ param_synced'[s] = param_synced[s]
  BY <1>0, BackwardFrame DEF Cooldown, CooldownRecvNext, ByStage, Goto, Communicate, sync, lists, requests, ForwardStep
<1>4. LET v == View(s)
                w == View(s)'
            IN /\ w.label = v.label
               /\ w.f = v.f
               /\ w.b = v.b + 1
               /\ w.reqs = Sends(None, SentPrev(s, Passed(s)))
                         \cup Recvs(FALSE, CooldownRecvNext(s))
               /\ w.send = [next |-> None, prev |-> SentPrev(s, Passed(s))]
               /\ w.dest = [prev |-> 0, next |-> Chunk(backward_k[s] + 1, FALSE)]
               /\ w.inputs = [v.inputs EXCEPT ![Chunk(backward_k[s], FALSE)] = Tail(input_tensors[s][Chunk(backward_k[s], FALSE)])]
               /\ w.outputs = [v.outputs EXCEPT ![Chunk(backward_k[s], FALSE)] = Tail(output_tensors[s][Chunk(backward_k[s], FALSE)])]
               /\ w.grads = Appended([v.grads EXCEPT ![Chunk(backward_k[s], FALSE)] = Tail(OutGrads(s, Chunk(backward_k[s], FALSE)))],
                       Chunk(backward_k[s] + 1, FALSE), NoneUnless(CooldownRecvNext(s)))
               /\ w.fwd = v.fwd
               /\ w.synced = v.synced
  BY <1>3 DEF View
<1> QED BY <1>1, <1>2, <1>4

\* What Finish does to each variable of the stage.
LEMMA FinishFrame ==
  ASSUME ByStage, NEW s \in Stages, Finish(s)
  PROVE  /\ ByStage' /\ args' = args /\ chan' = chan
         /\ \A t \in Stages : t # s => View(t)' = View(t)
         /\ LET v == View(s)
                w == View(s)'
            IN /\ w.label = "done"
               /\ w.f = v.f
               /\ w.b = v.b
               /\ w.reqs = v.reqs
               /\ w.send = v.send
               /\ w.dest = v.dest
               /\ w.inputs = v.inputs
               /\ w.outputs = v.outputs
               /\ w.grads = v.grads
               /\ w.fwd = v.fwd
               /\ w.bwd = v.bwd
               /\ w.sync = TRUE
               /\ w.synchronized = (IF ~args.grad_sync_func THEN v.synchronized ELSE Chunks)
               /\ w.reductions = (IF ~args.grad_sync_func THEN v.reductions ELSE [c \in Chunks |-> IF c \in synchronized[s] THEN v.reductions[c] ELSE Append(v.reductions[c], Len(bwd[s][c]))])
               /\ w.synced = v.synced
<1>1. ByStage' /\ args' = args /\ chan' = chan
  BY DEF Finish, ByStage, Goto, Communicate, sync, lists, requests, ForwardStep
<1>2. ASSUME NEW t \in Stages, t # s PROVE View(t)' = View(t)
  BY <1>2 DEF Finish, ByStage, Goto, Communicate, sync, lists, requests, ForwardStep, View
<1>3. /\ pc'[s] = "done"
      /\ forward_k'[s] = forward_k[s]
      /\ backward_k'[s] = backward_k[s]
      /\ reqs'[s] = reqs[s]
      /\ send'[s] = send[s]
      /\ dest'[s] = dest[s]
      /\ input_tensors'[s] = input_tensors[s]
      /\ output_tensors'[s] = output_tensors[s]
      /\ output_tensor_grads'[s] = output_tensor_grads[s]
      /\ fwd'[s] = fwd[s]
      /\ bwd'[s] = bwd[s]
      /\ grad_sync'[s] = TRUE
      /\ synchronized'[s] = (IF ~args.grad_sync_func THEN synchronized[s] ELSE Chunks)
      /\ reductions'[s] = (IF ~args.grad_sync_func THEN reductions[s] ELSE [c \in Chunks |-> IF c \in synchronized[s] THEN reductions[s][c] ELSE Append(reductions[s][c], Len(bwd[s][c]))])
      /\ param_synced'[s] = param_synced[s]
  BY DEF Finish, ByStage, Goto, Communicate, sync, lists, requests, ForwardStep
<1>4. LET v == View(s)
                w == View(s)'
            IN /\ w.label = "done"
               /\ w.f = v.f
               /\ w.b = v.b
               /\ w.reqs = v.reqs
               /\ w.send = v.send
               /\ w.dest = v.dest
               /\ w.inputs = v.inputs
               /\ w.outputs = v.outputs
               /\ w.grads = v.grads
               /\ w.fwd = v.fwd
               /\ w.bwd = v.bwd
               /\ w.sync = TRUE
               /\ w.synchronized = (IF ~args.grad_sync_func THEN v.synchronized ELSE Chunks)
               /\ w.reductions = (IF ~args.grad_sync_func THEN v.reductions ELSE [c \in Chunks |-> IF c \in synchronized[s] THEN v.reductions[c] ELSE Append(v.reductions[c], Len(bwd[s][c]))])
               /\ w.synced = v.synced
  BY <1>3 DEF View
<1> QED BY <1>1, <1>2, <1>4

-----------------------------------------------------------------------------
\* Every step of a stage preserves the invariant.

\* What the invariant says of the stage a step is of.
LEMMA StageIs ==
  ASSUME IInv, NEW s \in Stages
  PROVE  LET v == View(s)
         IN /\ args \in Calls /\ StageOK(args, s, v) /\ TypesOK(args, v) /\ CountOK(args, s, v)
            /\ OrderOK(v) /\ ReqOK(args, s, v) /\ InputOK(args, s, v) /\ OutputOK(args, s, v)
            /\ GradOK(args, s, v) /\ SyncOK(args, s, v) /\ ByStage
            /\ TotalOf(args) \in Nat /\ v.f \in Nat /\ v.b \in Nat
<1>1. args \in Calls /\ StageOK(args, s, View(s)) /\ ByStage /\ TotalOf(args) \in Nat
  BY CallFacts DEF IInv
<1>2. View(s).f \in Nat /\ View(s).b \in Nat BY <1>1 DEF StageOK, TypesOK
<1> QED BY <1>1, <1>2 DEF StageOK

\* The types, one by one, ...
Typed(a, v) ==
  /\ v.label \in Labels /\ v.f \in 0 .. TotalOf(a) /\ v.b \in 0 .. TotalOf(a)
  /\ v.reqs \in SUBSET ({"send", "recv"} \X Dirs) /\ v.send \in [Dirs -> Tensors]
  /\ v.inputs \in [Chunks -> Seq(Tensors)] /\ v.outputs \in [Chunks -> Seq(Tensors)]
  /\ v.grads \in [Chunks -> Seq(Tensors)]
  /\ v.fwd \in [Chunks -> Seq(Nat)] /\ v.bwd \in [Chunks -> Seq(Nat)]
  /\ v.reductions \in [Chunks -> Seq(Nat)]
  /\ v.sync \in BOOLEAN /\ v.synchronized \in SUBSET Chunks /\ v.synced \in SUBSET Chunks

\* ... are the types.
LEMMA TypesEach == ASSUME NEW a, NEW v PROVE TypesOK(a, v) <=> Typed(a, v)
<1> DEFINE A == [Chunks -> Seq(Tensors)]
           B == [Chunks -> Seq(Nat)]
           C == SUBSET Chunks
<1>1. /\ {v.inputs, v.outputs, v.grads} \subseteq A <=> v.inputs \in A /\ v.outputs \in A /\ v.grads \in A
      /\ {v.fwd, v.bwd, v.reductions} \subseteq B <=> v.fwd \in B /\ v.bwd \in B /\ v.reductions \in B
      /\ {v.synchronized, v.synced} \subseteq C <=> v.synchronized \in C /\ v.synced \in C
  <2> HIDE DEF A, B, C
  <2> QED OBVIOUS
<1> QED BY <1>1, Zenon DEF TypesOK, Typed

\* The first pass receives on every link but those that close the ring.
LEMMA GroupStart ==
  ASSUME NEW s \in Stages, NEW d \in Dirs
  PROVE  (Receiving(Closes(s, d), 0) <=> ~Closes(s, d)) /\ ChunkAt("prev", 0) = 0 /\ ChunkAt("next", 0) = V - 1
<1>1. 0 \in Chunks BY VAssumption DEF Chunks
<1>2. Pos(0) = 0 BY <1>1, DoneZero
<1> QED BY <1>2, DirFacts, VAssumption DEF Receiving, ChunkAt

\* Before a gradient is asked for there is none.
LEMMA GradsEmpty ==
  ASSUME NEW a \in Calls, NEW s \in Stages, NEW v, GradOK(a, s, v), ~a.forward_only,
         v.b \in Nat, v.b < TotalOf(a), ~Expects(a, s, "next", v),
         v.grads \in [Chunks -> Seq(Tensors)]
  PROVE  \A c \in Chunks : v.grads[c] = <<>>
<1>1. TAKE c \in Chunks
<1>2. PICK b \in Nat : b = v.b /\ b \in Int /\ Seen(a, s, "next", v) = b
  BY DirFacts DEF Seen, Passes
<1>3. PICK n \in Int : n = Done(b, V - 1 - c)
  <2>1. V - 1 - c \in Chunks BY VAssumption DEF Chunks
  <2> QED BY <1>2, <2>1, DoneNext
<1>4. Holds(v.grads[c], From(s, "next", c), n, n) \/ v.grads[c] = <<>>
  BY <1>2, <1>3 DEF GradOK
<1>5. PICK list \in Seq(Tensors) : list = v.grads[c] OBVIOUS
<1>6. ASSUME Holds(list, From(s, "next", c), n, n) PROVE list = <<>>
  <2>1. Len(list) = 0 BY <1>6 DEF Holds
  <2> QED BY <2>1, EmptySeq
<1> QED BY <1>4, <1>5, <1>6

\* Start preserves the invariant.
LEMMA StartOK ==
  ASSUME IInv, NEW s \in Stages, Start(s)
  PROVE  StepOK(s)
<1>1. PICK v, w : v = View(s) /\ w = View(s)' OBVIOUS
<1>2. /\ args \in Calls /\ TypesOK(args, v) /\ CountOK(args, s, v)
      /\ OrderOK(v) /\ ReqOK(args, s, v) /\ InputOK(args, s, v) /\ OutputOK(args, s, v)
      /\ GradOK(args, s, v) /\ SyncOK(args, s, v) /\ ByStage /\ TotalOf(args) \in Nat
  BY <1>1, StageIs
<1>3. v.label = "start" /\ v.reqs = {} BY <1>1, ViewIs DEF Start, At
<1>4. v.f = 0 /\ v.b = 0 BY <1>2, <1>3 DEF CountOK
<1>5. /\ w.label = "warmup" /\ w.f = v.f /\ w.b = v.b
               /\ w.reqs = Sends(None, None) \cup Recvs(s > 0, FALSE)
               /\ w.send = [next |-> None, prev |-> None] /\ w.dest = [prev |-> 0, next |-> 0]
               /\ w.inputs = Appended(v.inputs, 0, NoneUnless(s > 0))
               /\ w.outputs = v.outputs /\ w.grads = v.grads /\ w.fwd = v.fwd /\ w.bwd = v.bwd
               /\ w.sync = v.sync /\ w.synchronized = v.synchronized /\ w.reductions = v.reductions
               /\ w.synced = {0, 1}
  BY <1>1, <1>2, StartFrame
<1>6. PICK r \in BOOLEAN : r = (s > 0) /\ (r <=> Receiving(Closes(s, "prev"), 0))
  <2>1. s > 0 <=> ~Closes(s, "prev")
    <3>1. s \in Nat /\ (Closes(s, "prev") <=> s = 0) BY PeerFacts, DirFacts
    <3> QED BY <3>1
  <2>2. (s > 0) <=> Receiving(Closes(s, "prev"), 0) BY <2>1, DirFacts, GroupStart
  <2>3. (s > 0) \in BOOLEAN OBVIOUS
  <2> QED BY <2>2, <2>3, Zenon
<1>7. /\ w.reqs \in SUBSET ({"send", "recv"} \X Dirs) /\ (Recv("prev") \in w.reqs <=> r)
      /\ Recv("next") \notin w.reqs /\ Send("next") \notin w.reqs /\ Send("prev") \notin w.reqs
  BY <1>5, <1>6, RequestsAre
<1>8. WarmupOf(args, s) > 1 /\ WarmupOf(args, s) \in Nat /\ WarmupOf(args, s) <= TotalOf(args)
  BY <1>2, CallFacts
<1>9. ~Expects(args, s, "next", v) /\ ~Expects(args, s, "next", w) /\ ~Expects(args, s, "prev", v)
      /\ Expects(args, s, "prev", w)
  BY <1>2, <1>3, <1>4, <1>5, <1>8, DirFacts DEF Expects
<1>10. Passes("prev", v) = 0 /\ Passes("prev", w) = 0 /\ Passes("next", v) = 0 /\ Passes("next", w) = 0
  BY <1>4, <1>5, DirFacts DEF Passes
<1>11. RecvPosted(args, s, "prev", w)
  <2>1. w.dest["prev"] = 0 BY <1>5
  <2> QED BY <1>6, <1>7, <1>9, <1>10, <2>1, GroupStart, DirFacts DEF RecvPosted
<1>12. RecvPosted(args, s, "next", w) BY <1>7, <1>9 DEF RecvPosted
<1>13. ASSUME NEW d \in Dirs
       PROVE  /\ RecvOK(args, s, d, w) /\ SendOK(s, d, w)
              /\ Got(args, s, d, w) = Got(args, s, d, v) /\ Put(s, d, w) = Put(s, d, v)
  <2>1. RecvPosted(args, s, d, w) /\ Passes(d, w) \in Nat /\ Passes(d, w) = Passes(d, v)
        /\ Passes(Opposite(d), w) = Passes(Opposite(d), v) /\ ~Expects(args, s, d, v)
    BY <1>9, <1>10, <1>11, <1>12, DirFacts
  <2>2. RecvOK(args, s, d, w) /\ Got(args, s, d, w) = Ins(Closes(s, d), Passes(d, w))
    BY <2>1, RecvPostedOK
  <2>3. Got(args, s, d, v) = Ins(Closes(s, d), Passes(d, v)) BY <1>3, <2>1, NoRecv
  <2>4. Send(d) \notin w.reqs /\ Send(d) \notin v.reqs BY <1>3, <1>7, DirFacts
  <2>5. /\ SendOK(s, d, w) /\ Put(s, d, w) = Outs(Closes(s, d), Passes(Opposite(d), w))
        /\ Put(s, d, v) = Outs(Closes(s, d), Passes(Opposite(d), v))
    <3>1. w.label # "steady_backward" /\ v.label # "steady_backward" BY <1>3, <1>5
    <3> QED BY <2>4, <3>1, NoSend
  <2> QED BY <2>1, <2>2, <2>3, <2>5
<1>14. ReqOK(args, s, w) BY <1>5, <1>13 DEF ReqOK
<1>15. CountOK(args, s, w) BY <1>2, <1>4, <1>5, <1>8 DEF CountOK
<1>16. OrderOK(w) BY <1>2, <1>5 DEF OrderOK
<1>17. InputOK(args, s, w) /\ w.inputs \in [Chunks -> Seq(Tensors)]
  <2>1. PICK L \in [Chunks -> Seq(Tensors)] : L = v.inputs BY <1>2 DEF TypesOK
  <2>2. ASSUME NEW c \in Chunks
        PROVE Holds(L[c], From(s, "prev", c), Held(args, w.f, w.b, c), Done(w.f, c))
    <3>1. v.f # TotalOf(args) /\ v.label # "steady" /\ Seen(args, s, "prev", v) = 0
      BY <1>3, <1>4, <1>8, <1>9, <1>10 DEF Seen
    <3>2. Holds(L[c], From(s, "prev", c), Kept(args, v, c), Done(0, c))
      BY <1>2, <2>1, <3>1 DEF InputOK
    <3>3. Kept(args, v, c) = Held(args, w.f, w.b, c) BY <1>5 DEF Kept, Held
    <3> QED BY <1>4, <1>5, <3>2, <3>3
  <2>3. r <=> Receiving(Closes(s, "prev"), w.f) /\ w.f # TotalOf(args)
    BY <1>4, <1>5, <1>6, <1>8
  <2>4. w.inputs = Appended(L, Pos(w.f), NoneUnless(r))
    <3>1. Pos(0) = 0 BY GroupStart, DirFacts DEF ChunkAt
    <3> QED BY <1>4, <1>5, <1>6, <2>1, <3>1
  <2>5. w.f \in 0 .. TotalOf(args) /\ w.b \in Nat BY <1>2, <1>4, <1>5
  <2>6. w.label = "warmup" /\ (Recv("prev") \in w.reqs <=> r) /\ args \in Calls
    BY <1>2, <1>5, <1>7
  <2> QED BY <2>2, <2>3, <2>4, <2>5, <2>6, InputPosted
<1>18. OutputOK(args, s, w) BY <1>2, <1>5 DEF OutputOK
<1>19. GradOK(args, s, w)
  <2>1. CASE args.forward_only BY <2>1 DEF GradOK
  <2>2. CASE ~args.forward_only
    <3>1. v.b \in Nat /\ v.b < TotalOf(args) /\ v.grads \in [Chunks -> Seq(Tensors)]
      BY <1>2, <1>4, <1>8 DEF TypesOK
    <3>2. \A c \in Chunks : v.grads[c] = <<>> BY <1>2, <1>9, <2>2, <3>1, GradsEmpty
    <3>3. GradPosted(args, s, w) BY <1>5, <3>2 DEF GradPosted
    <3> QED BY <1>2, <1>5, <1>12, <3>1, <3>3, GradPostedOK
  <2> QED BY <2>1, <2>2
<1>20. SyncOK(args, s, w)
  <2>1. Launched(args, s, w) = Launched(args, s, v) BY <1>3, <1>5 DEF Launched
  <2> QED BY <1>2, <1>3, <1>5, <2>1 DEF SyncOK
<1>21. TypesOK(args, w)
  <2>1. w.send \in [Dirs -> Tensors] BY <1>5, SendIs, TensorTypes
  <2>2. w.synced \in SUBSET Chunks BY <1>5, VAssumption DEF Chunks
  <2>3. Typed(args, v) BY <1>2, TypesEach
  <2>4. Typed(args, w) BY <1>5, <1>7, <1>17, <2>1, <2>2, <2>3 DEF Typed, Labels
  <2> QED BY <2>4, TypesEach
<1>22. StageOK(args, s, w)
  BY <1>14, <1>15, <1>16, <1>17, <1>18, <1>19, <1>20, <1>21 DEF StageOK
<1> QED BY <1>1, <1>2, <1>13, <1>22, StartFrame DEF StepOK

\* A forward pass leaves the passes and outputs as the invariant has them.
LEMMA FwdOK ==
  ASSUME NEW s \in Stages, ForwardReady(s), NEW w, w.f = forward_k[s] + 1, w.b = backward_k[s],
         w.fwd = [fwd[s] EXCEPT ![Chunk(forward_k[s], TRUE)] = Append(@, Output(s).mb)],
         w.outputs = ForwardOutputs(s)
  PROVE  /\ w.fwd \in [Chunks -> Seq(Nat)]
         /\ \A c \in Chunks : Upto(w.fwd[c], Done(w.f, c))
         /\ w.outputs \in [Chunks -> Seq(Tensors)]
         /\ OutputOK(args, s, w)
<1>1. PICK f \in Nat : f = forward_k[s] /\ f \in Int BY ForwardFacts
<1>2. PICK p \in Chunks : p = Chunk(f, TRUE) /\ p = Pos(f) BY <1>1, Places, Terms
<1>3. PICK q \in [Chunks -> Seq(Nat)] : q = fwd[s] /\ \A c \in Chunks : Upto(q[c], Done(f, c))
  BY <1>1, ForwardFacts
<1>4. w.fwd = [q EXCEPT ![p] = Append(@, Mb(f))] BY <1>1, <1>2, <1>3, OutputIs
<1>5. PICK J \in [Chunks -> Chunks] : J = [c \in Chunks |-> c] OBVIOUS
<1>6. w.fwd \in [Chunks -> Seq(Nat)] /\ \A c \in Chunks : Upto(w.fwd[c], Done(f + 1, c))
  <2>1. (\A c \in Chunks : Upto(q[c], Done(f, J[c]))) /\ \A c \in Chunks : J[c] = Pos(f) <=> c = p
    BY <1>2, <1>3, <1>5
  <2>2. PICK r : r = w.fwd /\ r = [q EXCEPT ![p] = Append(@, Mb(f))] BY <1>4
  <2>3. r \in [Chunks -> Seq(Nat)] /\ \A c \in Chunks : Upto(r[c], Done(f + 1, J[c]))
    <3>1. OneMore(f, J, q, p, r) BY <2>1, <2>2 DEF OneMore
    <3> QED BY <3>1, PassesAppend
  <2> QED BY <1>5, <2>2, <2>3
<1>7. OutputOK(args, s, w) /\ w.outputs \in [Chunks -> Seq(Tensors)]
  BY ForwardLists DEF OutputOK
<1> QED BY <1>1, <1>6, <1>7

\* Only chunks of the stage are synchronized.
LEMMA ParamSyncTypes ==
  ASSUME NEW s \in Stages, forward_k[s] \in Nat
  PROVE  ParamSyncChunks(s) \in SUBSET Chunks
<1>1. PICK k \in Int : k = forward_k[s] + s BY PAssumption DEF Stages
<1>5. PICK p \in Chunks : p = Chunk(k, TRUE) BY Places, Terms
<1>6. PICK c \in Int : c = p + 1 /\ c \in 1 .. V BY VAssumption DEF Chunks
<1>2. c = Chunk(k, TRUE) + 1 BY <1>5, <1>6
<1>3. ParamSyncChunks(s) = IF k < M /\ FirstForChunk(k) /\ 1 < c /\ c < V THEN {c} ELSE {}
  BY <1>1, <1>2 DEF ParamSyncChunks
<1>4. c < V => c \in Chunks BY <1>6, VAssumption DEF Chunks
<1> QED BY <1>3, <1>4

\* Warmup preserves the invariant.
LEMMA WarmupOK ==
  ASSUME IInv, NEW s \in Stages, Warmup(s)
  PROVE  StepOK(s)
<1>1. PICK v, w : v = View(s) /\ w = View(s)' OBVIOUS
<1>2. /\ args \in Calls /\ TypesOK(args, v) /\ CountOK(args, s, v)
      /\ OrderOK(v) /\ ReqOK(args, s, v) /\ InputOK(args, s, v) /\ OutputOK(args, s, v)
      /\ GradOK(args, s, v) /\ SyncOK(args, s, v) /\ ByStage /\ TotalOf(args) \in Nat
      /\ StageOK(args, s, v)
  BY <1>1, StageIs
<1>3. /\ v.label = "warmup" /\ v.reqs = {} /\ v.f = forward_k[s] /\ v.b = backward_k[s] /\ v.fwd = fwd[s]
      /\ pc[s] = "warmup" /\ reqs[s] = {}
  BY <1>1, ViewIs DEF Warmup, At
<1>4. PICK T \in Nat, W \in Nat, f \in Nat :
        /\ T = TotalOf(args) /\ T = Total /\ W = WarmupOf(args, s) /\ W = NumWarmup(s)
        /\ f = v.f /\ f < W /\ W <= T /\ f \in Int /\ f + 1 \in Int
  <2>1. WarmupOf(args, s) \in Nat /\ WarmupOf(args, s) <= TotalOf(args) /\ v.f \in Nat
    BY <1>1, <1>2, CallFacts, StageIs
  <2>2. v.f < NumWarmup(s) BY <1>3 DEF Warmup
  <2> QED BY <1>2, <2>1, <2>2, Terms
<1>5. v.b = 0 /\ backward_k[s] = 0 /\ forward_k[s] = f
  BY <1>2, <1>3, <1>4 DEF CountOK
<1>6. ForwardReady(s)
  <2>1. f < T BY <1>4
  <2> QED BY <1>1, <1>2, <1>3, <1>4, <1>5, <2>1 DEF ForwardReady
<1>7. PICK p \in Chunks : p = Pos(f + 1) /\ p = Chunk(f + 1, TRUE)
  BY <1>4, Places, Terms
<1>8. PICK last \in BOOLEAN : (last <=> LastWarmup(s)) /\ (last <=> f + 1 = W /\ ~args.forward_only /\ ~AllWarmupOf(args))
  <2>1. f = W - 1 <=> f + 1 = W BY <1>4
  <2>2. LastWarmup(s) <=> f + 1 = W /\ ~args.forward_only /\ ~AllWarmupOf(args)
    BY <1>4, <1>5, <2>1, Terms DEF LastWarmup
  <2> QED BY <2>2
<1>9. PICK r \in BOOLEAN : /\ r = WarmupRecvPrev(s)
                           /\ r <=> Receiving(Closes(s, "prev"), f + 1) /\ f + 1 # T
  <2>1. f # T - 1 <=> f + 1 # T BY <1>4
  <2>2. WarmupRecvPrev(s) <=> ~(s = 0 /\ p = 0) /\ f + 1 # T
    BY <1>4, <1>5, <1>7, <2>1 DEF WarmupRecvPrev
  <2>3. (Closes(s, "prev") <=> s = 0) /\ WarmupRecvPrev(s) \in BOOLEAN
    BY PeerFacts, DirFacts DEF WarmupRecvPrev
  <2>4. WarmupRecvPrev(s) <=> Receiving(Closes(s, "prev"), f + 1) /\ f + 1 # T
    BY <1>7, <2>2, <2>3 DEF Receiving
  <2> QED BY <2>3, <2>4
<1>10. PICK q \in BOOLEAN : q = (LastWarmup(s) /\ s < P-1) /\ (q <=> last /\ Receiving(Closes(s, "next"), 0))
  <2>1. s < P - 1 <=> ~Closes(s, "next")
    <3>1. s \in Nat /\ s < P /\ (Closes(s, "next") <=> s = P - 1)
      BY PeerFacts, DirFacts
    <3> QED BY <3>1, PAssumption
  <2>2. (LastWarmup(s) /\ s < P-1) \in BOOLEAN OBVIOUS
  <2>3. (LastWarmup(s) /\ s < P-1) <=> last /\ Receiving(Closes(s, "next"), 0)
    BY <1>8, <2>1, DirFacts, GroupStart
  <2> QED BY <2>2, <2>3, Zenon
<1>11. /\ w.label = "warmup" /\ w.f = f + 1 /\ w.b = 0
       /\ w.reqs = Sends(SentNext(s), None) \cup Recvs(r, q)
       /\ w.send = [next |-> SentNext(s), prev |-> None] /\ w.dest = [prev |-> p, next |-> V-1]
       /\ w.inputs = Appended(ForwardInputs(s), p, NoneUnless(r))
       /\ w.outputs = ForwardOutputs(s)
       /\ w.grads = (IF last THEN Appended(v.grads, V-1, NoneUnless(q)) ELSE v.grads)
       /\ w.fwd = [fwd[s] EXCEPT ![Chunk(f, TRUE)] = Append(@, Output(s).mb)] /\ w.bwd = v.bwd
       /\ w.sync = v.sync /\ w.synchronized = v.synchronized /\ w.reductions = v.reductions
       /\ w.synced = v.synced \cup ParamSyncChunks(s)
  <2>1. LET x == View(s)'
        IN /\ x.label = v.label /\ x.f = v.f + 1 /\ x.b = v.b
           /\ x.reqs = Sends(SentNext(s), None) \cup Recvs(r, q)
           /\ x.send = [next |-> SentNext(s), prev |-> None] /\ x.dest = [prev |-> p, next |-> V-1]
           /\ x.inputs = Appended(ForwardInputs(s), p, NoneUnless(r))
           /\ x.outputs = ForwardOutputs(s)
           /\ x.grads = (IF LastWarmup(s) THEN Appended(v.grads, V-1, NoneUnless(q)) ELSE v.grads)
           /\ x.fwd = [v.fwd EXCEPT ![Chunk(f, TRUE)] = Append(@, Output(s).mb)] /\ x.bwd = v.bwd
           /\ x.sync = v.sync /\ x.synchronized = v.synchronized /\ x.reductions = v.reductions
           /\ x.synced = v.synced \cup ParamSyncChunks(s)
    BY <1>1, <1>2, <1>5, <1>7, <1>9, <1>10, WarmupFrame
  <2> QED BY <1>1, <1>3, <1>4, <1>5, <1>8, <2>1
<1>12. /\ Output(s) = Product(s, "next", f) /\ Output(s) \in Tensors /\ Output(s) # None
       /\ SentNext(s) = IF Sending(Closes(s, "next"), f) THEN Product(s, "next", f) ELSE None
  BY <1>5, <1>6, OutputIs
<1>13. SentNext(s) \in Tensors /\ (SentNext(s) # None <=> Sending(Closes(s, "next"), f))
  BY <1>12, TensorTypes
<1>14. /\ w.reqs \in SUBSET ({"send", "recv"} \X Dirs) /\ (Recv("prev") \in w.reqs <=> r)
       /\ (Recv("next") \in w.reqs <=> q) /\ (Send("next") \in w.reqs <=> SentNext(s) # None)
       /\ Send("prev") \notin w.reqs
  BY <1>11, RequestsAre
<1>15. /\ ~Expects(args, s, "next", v) /\ Expects(args, s, "prev", v)
       /\ Expects(args, s, "next", w) <=> last
       /\ Expects(args, s, "prev", w) <=> f + 1 # T
  <2>1. f # W /\ f < T /\ (f + 1 < T <=> f + 1 # T) /\ 0 < T BY <1>4
  <2> QED BY <1>3, <1>4, <1>5, <1>8, <1>11, <2>1, DirFacts DEF Expects
<1>16. /\ Passes("prev", v) = f /\ Passes("prev", w) = f + 1 /\ Passes("next", v) = 0 /\ Passes("next", w) = 0
  BY <1>4, <1>5, <1>11, DirFacts DEF Passes
<1>17. RecvPosted(args, s, "prev", w)
  <2>1. w.dest["prev"] = p BY <1>11
  <2> QED BY <1>7, <1>9, <1>14, <1>15, <1>16, <2>1 DEF RecvPosted, ChunkAt
<1>18. RecvPosted(args, s, "next", w)
  <2>1. w.dest["next"] = V - 1 BY <1>11
  <2> QED BY <1>10, <1>14, <1>15, <1>16, <2>1, GroupStart, DirFacts DEF RecvPosted
<1>19. /\ RecvOK(args, s, "prev", w) /\ RecvOK(args, s, "next", w)
       /\ Got(args, s, "prev", w) = Got(args, s, "prev", v) /\ Got(args, s, "next", w) = Got(args, s, "next", v)
  <2>1. /\ RecvOK(args, s, "prev", w) /\ Got(args, s, "prev", w) = Ins(Closes(s, "prev"), f + 1)
    <3>1. Passes("prev", w) \in Nat /\ "prev" \in Dirs BY <1>16, DirFacts
    <3> QED BY <1>16, <1>17, <3>1, RecvPostedOK
  <2>2. /\ RecvOK(args, s, "next", w) /\ Got(args, s, "next", w) = Ins(Closes(s, "next"), 0)
    <3>1. Passes("next", w) \in Nat /\ "next" \in Dirs BY <1>16, DirFacts
    <3> QED BY <1>16, <1>18, <3>1, RecvPostedOK
  <2>3. Got(args, s, "prev", v) = Ins(Closes(s, "prev"), f + 1)
    BY <1>3, <1>15, <1>16 DEF Got, Seen
  <2>4. Got(args, s, "next", v) = Ins(Closes(s, "next"), 0)
    BY <1>3, <1>15, <1>16, NoRecv
  <2> QED BY <2>1, <2>2, <2>3, <2>4
<1>20. /\ SendOK(s, "next", w) /\ SendOK(s, "prev", w)
       /\ Put(s, "next", w) = Put(s, "next", v) /\ Put(s, "prev", w) = Put(s, "prev", v)
  <2>1. SendPosted(s, "next", w)
    <3>1. w.send["next"] = SentNext(s) BY <1>11
    <3>2. Passes(Opposite("next"), w) - 1 = f BY <1>4, <1>16, DirFacts
    <3> QED BY <1>11, <1>12, <1>13, <1>14, <3>1, <3>2 DEF SendPosted
  <2>2. SendOK(s, "next", w) /\ Put(s, "next", w) = Outs(Closes(s, "next"), f)
    <3>1. Passes(Opposite("next"), w) - 1 = f /\ Passes(Opposite("next"), w) \in Nat /\ "next" \in Dirs
      BY <1>4, <1>16, DirFacts
    <3> QED BY <2>1, <3>1, SendPostedOK
  <2>3. v.label # "steady_backward" /\ w.label # "steady_backward" /\ Send("next") \notin v.reqs
        /\ Send("prev") \notin v.reqs /\ Send("prev") \notin w.reqs /\ "next" \in Dirs /\ "prev" \in Dirs
    BY <1>3, <1>11, <1>14, DirFacts
  <2>4. Put(s, "next", v) = Outs(Closes(s, "next"), f)
    BY <1>16, <2>3, DirFacts, NoSend
  <2>5. SendOK(s, "prev", w) /\ Put(s, "prev", w) = Outs(Closes(s, "prev"), 0)
        /\ Put(s, "prev", v) = Outs(Closes(s, "prev"), 0)
    BY <1>16, <2>3, DirFacts, NoSend
  <2> QED BY <2>2, <2>4, <2>5
<1>21. ReqOK(args, s, w) BY <1>11, <1>19, <1>20, DirFacts DEF ReqOK
<1>22. CountOK(args, s, w)
  <2>1. f + 1 <= W BY <1>4
  <2> QED BY <1>4, <1>11, <2>1 DEF CountOK
<1>23. /\ w.fwd \in [Chunks -> Seq(Nat)] /\ \A c \in Chunks : Upto(w.fwd[c], Done(w.f, c))
       /\ w.outputs \in [Chunks -> Seq(Tensors)] /\ OutputOK(args, s, w)
  <2>1. /\ w.f = forward_k[s] + 1 /\ w.b = backward_k[s] /\ w.outputs = ForwardOutputs(s)
        /\ w.fwd = [fwd[s] EXCEPT ![Chunk(forward_k[s], TRUE)] = Append(@, Output(s).mb)]
    BY <1>5, <1>11
  <2> QED BY <1>6, <2>1, FwdOK
<1>24. OrderOK(w) BY <1>2, <1>5, <1>11, <1>23 DEF OrderOK
<1>25. InputOK(args, s, w) /\ w.inputs \in [Chunks -> Seq(Tensors)]
  <2>1. PICK L \in [Chunks -> Seq(Tensors)] : L = ForwardInputs(s)
    BY <1>6, ForwardLists
  <2>2. \A c \in Chunks : Holds(L[c], From(s, "prev", c), Held(args, w.f, w.b, c), Done(w.f, c))
    BY <1>5, <1>6, <1>11, <2>1, ForwardLists
  <2>3. r <=> Receiving(Closes(s, "prev"), w.f) /\ w.f # TotalOf(args)
    BY <1>4, <1>9, <1>11
  <2>4. w.inputs = Appended(L, Pos(w.f), NoneUnless(r)) BY <1>7, <1>11, <2>1
  <2>5. w.f \in 0 .. TotalOf(args) /\ w.b \in Nat
    <3>1. f + 1 \in 0 .. T BY <1>4
    <3> QED BY <1>4, <1>11, <3>1
  <2>6. w.label = "warmup" /\ (Recv("prev") \in w.reqs <=> r) /\ args \in Calls
    BY <1>2, <1>11, <1>14
  <2> QED BY <2>2, <2>3, <2>4, <2>5, <2>6, InputPosted
<1>26. w.grads \in [Chunks -> Seq(Tensors)] /\ GradOK(args, s, w)
  <2>1. PICK G \in [Chunks -> Seq(Tensors)] : G = v.grads
    BY <1>2, TypesEach DEF Typed
  <2>2. V - 1 \in Chunks BY VAssumption DEF Chunks
  <2>3. CASE ~last
    <3>1. w.grads = G BY <1>11, <2>1, <2>3
    <3>2. CASE args.forward_only BY <2>1, <3>1, <3>2 DEF GradOK
    <3>3. CASE ~args.forward_only
      <4>1. v.b \in Nat /\ v.b < TotalOf(args) BY <1>4, <1>5
      <4>2. \A c \in Chunks : G[c] = <<>>
        BY <1>2, <1>15, <2>1, <3>3, <4>1, GradsEmpty
      <4>3. GradPosted(args, s, w) /\ w.b \in Nat
        BY <1>11, <3>1, <4>2 DEF GradPosted
      <4>4. GradOK(args, s, w) BY <1>2, <1>18, <4>3, GradPostedOK
      <4> QED BY <2>1, <3>1, <4>4
    <3> QED BY <3>2, <3>3
  <2>4. CASE last
    <3>1. w.grads = Appended(G, V - 1, NoneUnless(q)) BY <1>11, <2>1, <2>4
    <3>2. /\ w.grads \in [Chunks -> Seq(Tensors)]
          /\ \A c \in Chunks : w.grads[c] = IF c = V - 1 /\ ~q THEN Append(G[c], None) ELSE G[c]
      BY <2>2, <3>1, AppendedIs
    <3>3. \A c \in Chunks : G[c] = <<>>
      <4>1. v.b \in Nat /\ v.b < TotalOf(args) /\ ~args.forward_only
        BY <1>4, <1>5, <1>8, <2>4
      <4> QED BY <1>2, <1>15, <2>1, <4>1, GradsEmpty
    <3>4. Append(<<>>, None) = <<None>> OBVIOUS
    <3>5. V - 1 - Pos(w.b) = V - 1 BY <1>11, GroupStart, DirFacts DEF ChunkAt
    <3>6. GradPosted(args, s, w) /\ w.b \in Nat
      <4>1. ASSUME NEW c \in Chunks PROVE w.grads[c] = <<>> \/ (w.grads[c] = <<None>> /\ c = V - 1 /\ ~q)
        BY <3>2, <3>3, <3>4
      <4>2. ~q => Recv("next") \notin w.reqs BY <1>14
      <4> QED BY <1>11, <1>15, <2>4, <3>5, <4>1, <4>2 DEF GradPosted
    <3>7. GradOK(args, s, w) BY <1>2, <1>18, <3>6, GradPostedOK
    <3> QED BY <3>2, <3>7
  <2> QED BY <2>3, <2>4
<1>27. SyncOK(args, s, w)
  <2>1. Launched(args, s, w) = Launched(args, s, v)
    BY <1>3, <1>5, <1>11 DEF Launched
  <2> QED BY <1>2, <1>3, <1>11, <2>1 DEF SyncOK
<1>28. TypesOK(args, w)
  <2>1. w.send \in [Dirs -> Tensors] BY <1>11, <1>13, SendIs, TensorTypes
  <2>2. ParamSyncChunks(s) \in SUBSET Chunks BY <1>5, ParamSyncTypes
  <2>3. Typed(args, v) BY <1>2, TypesEach
  <2>4. w.f \in 0 .. TotalOf(args) /\ w.b \in 0 .. TotalOf(args)
    <3>1. f + 1 \in 0 .. T /\ 0 \in 0 .. T BY <1>4
    <3> QED BY <1>4, <1>11, <3>1
  <2>5. w.synced \in SUBSET Chunks BY <1>11, <2>2, <2>3 DEF Typed
  <2>6. Typed(args, w)
    BY <1>11, <1>14, <1>23, <1>25, <1>26, <2>1, <2>3, <2>4, <2>5 DEF Typed, Labels
  <2> QED BY <2>6, TypesEach
<1>29. StageOK(args, s, w)
  BY <1>21, <1>22, <1>23, <1>24, <1>25, <1>26, <1>27, <1>28 DEF StageOK
<1>30. ASSUME NEW d \in Dirs PROVE Got(args, s, d, w) = Got(args, s, d, v) /\ Put(s, d, w) = Put(s, d, v)
  BY <1>19, <1>20, DirFacts
<1> QED BY <1>1, <1>2, <1>29, <1>30, WarmupFrame DEF StepOK

\* EndWarmup preserves the invariant.
LEMMA EndWarmupOK ==
  ASSUME IInv, NEW s \in Stages, EndWarmup(s)
  PROVE  StepOK(s)
<1>1. PICK v, w : v = View(s) /\ w = View(s)' OBVIOUS
<1>2. /\ args \in Calls /\ TypesOK(args, v) /\ CountOK(args, s, v)
      /\ OrderOK(v) /\ ReqOK(args, s, v) /\ InputOK(args, s, v) /\ OutputOK(args, s, v)
      /\ GradOK(args, s, v) /\ SyncOK(args, s, v) /\ ByStage /\ TotalOf(args) \in Nat
  BY <1>1, StageIs
<1>3. /\ v.label = "warmup" /\ v.reqs = {} /\ v.f = forward_k[s] /\ v.b = backward_k[s]
  BY <1>1, ViewIs DEF EndWarmup, At
<1>4. PICK T \in Nat, f \in Nat :
        /\ T = TotalOf(args) /\ T = Total /\ f = WarmupOf(args, s) /\ f = v.f /\ f <= T /\ 0 < T
        /\ args.forward_only \/ AllWarmupOf(args) => f = T
        /\ ~args.forward_only /\ ~AllWarmupOf(args) => f < T
  <2>1. /\ WarmupOf(args, s) \in Nat /\ WarmupOf(args, s) <= TotalOf(args) /\ 1 < WarmupOf(args, s)
        /\ args.forward_only \/ AllWarmupOf(args) => WarmupOf(args, s) = TotalOf(args)
        /\ ~args.forward_only /\ ~AllWarmupOf(args) => WarmupOf(args, s) < TotalOf(args)
    BY <1>2, CallFacts
  <2>2. v.f = WarmupOf(args, s) BY <1>3, Terms DEF EndWarmup
  <2> QED BY <1>2, <2>1, <2>2, Terms
<1>5. v.b = 0 BY <1>2, <1>3 DEF CountOK
<1>6. PICK all \in BOOLEAN : (all <=> AllWarmup) /\ (all <=> AllWarmupOf(args)) /\ (all => ~args.forward_only)
  BY Terms DEF AllWarmup
<1>7. PICK q \in BOOLEAN : q = (s < P-1) /\ (q <=> Receiving(Closes(s, "next"), 0))
  <2>1. s < P - 1 <=> ~Closes(s, "next")
    <3>1. s \in Nat /\ s < P /\ (Closes(s, "next") <=> s = P - 1)
      BY PeerFacts, DirFacts
    <3> QED BY <3>1, PAssumption
  <2>2. (s < P - 1) \in BOOLEAN OBVIOUS
  <2>3. s < P - 1 <=> Receiving(Closes(s, "next"), 0) BY <2>1, DirFacts, GroupStart
  <2> QED BY <2>2, <2>3, Zenon
<1>8. /\ w.label = (IF f < T THEN "steady" ELSE "cooldown") /\ w.f = f /\ w.b = 0
      /\ w.reqs = (IF all THEN Sends(None, None) \cup Recvs(FALSE, q) ELSE {})
      /\ w.send = (IF all THEN [next |-> None, prev |-> None] ELSE v.send)
      /\ w.dest = (IF all THEN [prev |-> 0, next |-> V-1] ELSE v.dest)
      /\ w.grads = (IF all THEN Appended(v.grads, V-1, NoneUnless(q)) ELSE v.grads)
      /\ w.inputs = v.inputs /\ w.outputs = v.outputs /\ w.fwd = v.fwd /\ w.bwd = v.bwd
      /\ w.sync = v.sync /\ w.synchronized = v.synchronized /\ w.reductions = v.reductions
      /\ w.synced = v.synced
  <2>1. LET x == View(s)'
        IN /\ x.label = (IF forward_k[s] < Total THEN "steady" ELSE "cooldown") /\ x.f = v.f /\ x.b = v.b
           /\ x.reqs = (IF AllWarmup THEN Sends(None, None) \cup Recvs(FALSE, q) ELSE v.reqs)
           /\ x.send = (IF AllWarmup THEN [next |-> None, prev |-> None] ELSE v.send)
           /\ x.dest = (IF AllWarmup THEN [prev |-> 0, next |-> V-1] ELSE v.dest)
           /\ x.grads = (IF AllWarmup THEN Appended(v.grads, V-1, NoneUnless(q)) ELSE v.grads)
           /\ x.inputs = v.inputs /\ x.outputs = v.outputs /\ x.fwd = v.fwd /\ x.bwd = v.bwd
           /\ x.sync = v.sync /\ x.synchronized = v.synchronized /\ x.reductions = v.reductions
           /\ x.synced = v.synced
    BY <1>1, <1>2, <1>7, EndWarmupFrame
  <2> QED BY <1>1, <1>3, <1>4, <1>5, <1>6, <2>1
<1>9. Typed(args, v) BY <1>2, TypesEach
<1>10. CountOK(args, s, w) BY <1>4, <1>6, <1>8 DEF CountOK
<1>11. OrderOK(w) BY <1>2, <1>3, <1>4, <1>5, <1>8 DEF OrderOK
<1>12. OutputOK(args, s, w) BY <1>2, <1>4, <1>5, <1>8 DEF OutputOK
<1>13. SyncOK(args, s, w)
  <2>1. w.label # "done" /\ Launched(args, s, w) = Launched(args, s, v)
    BY <1>3, <1>5, <1>8 DEF Launched
  <2> QED BY <1>2, <1>3, <1>8, <2>1 DEF SyncOK
<1>14. /\ Passes("prev", v) = f /\ Passes("prev", w) = f /\ Passes("next", v) = 0 /\ Passes("next", w) = 0
  BY <1>4, <1>5, <1>8, DirFacts DEF Passes
<1>15. ASSUME NEW d \in Dirs
       PROVE  /\ Passes(d, w) = Passes(d, v) /\ Passes(Opposite(d), w) = Passes(Opposite(d), v)
              /\ Passes(d, w) \in Nat
  BY <1>14, DirFacts
<1>16. v.label # "steady_backward" /\ w.label # "steady_backward" /\ w.label \in {"steady", "cooldown"}
  BY <1>3, <1>8
<1>17. CASE all
  <2>1. f = T /\ ~args.forward_only /\ w.label = "cooldown"
    BY <1>4, <1>6, <1>8, <1>17
  <2>2. /\ w.reqs = Sends(None, None) \cup Recvs(FALSE, q) /\ w.send = [next |-> None, prev |-> None]
        /\ w.dest = [prev |-> 0, next |-> V-1] /\ w.grads = Appended(v.grads, V-1, NoneUnless(q))
    BY <1>8, <1>17
  <2>3. /\ w.reqs \in SUBSET ({"send", "recv"} \X Dirs) /\ Recv("prev") \notin w.reqs
        /\ (Recv("next") \in w.reqs <=> q) /\ Send("next") \notin w.reqs /\ Send("prev") \notin w.reqs
    BY <2>2, RequestsAre
  <2>4. /\ ~Expects(args, s, "next", v) /\ ~Expects(args, s, "prev", v)
        /\ Expects(args, s, "next", w) /\ ~Expects(args, s, "prev", w)
    <3>1. ~(f < T) BY <2>1
    <3> QED BY <1>3, <1>4, <1>6, <1>8, <1>17, <2>1, <3>1, DirFacts DEF Expects
  <2>5. RecvPosted(args, s, "next", w)
    <3>1. w.dest["next"] = V - 1 BY <2>2
    <3> QED BY <1>7, <1>14, <2>3, <2>4, <3>1, GroupStart, DirFacts DEF RecvPosted
  <2>6. RecvPosted(args, s, "prev", w) BY <2>3, <2>4 DEF RecvPosted
  <2>7. ASSUME NEW d \in Dirs
        PROVE  /\ RecvOK(args, s, d, w) /\ SendOK(s, d, w)
               /\ Got(args, s, d, w) = Got(args, s, d, v) /\ Put(s, d, w) = Put(s, d, v)
    <3>1. RecvPosted(args, s, d, w) /\ ~Expects(args, s, d, v)
      BY <2>4, <2>5, <2>6, DirFacts
    <3>2. RecvOK(args, s, d, w) /\ Got(args, s, d, w) = Ins(Closes(s, d), Passes(d, w))
      BY <1>15, <3>1, RecvPostedOK
    <3>3. Got(args, s, d, v) = Ins(Closes(s, d), Passes(d, v)) BY <1>3, <3>1, NoRecv
    <3>4. Send(d) \notin w.reqs /\ Send(d) \notin v.reqs BY <1>3, <2>3, DirFacts
    <3>5. /\ SendOK(s, d, w) /\ Put(s, d, w) = Outs(Closes(s, d), Passes(Opposite(d), w))
          /\ Put(s, d, v) = Outs(Closes(s, d), Passes(Opposite(d), v))
      BY <1>16, <3>4, NoSend
    <3> QED BY <1>15, <3>2, <3>3, <3>5
  <2>8. ReqOK(args, s, w) BY <2>1, <2>7 DEF ReqOK
  <2>9. InputOK(args, s, w)
    <3>1. v.f = TotalOf(args) /\ w.f = TotalOf(args) /\ w.b = v.b
      BY <1>4, <1>5, <1>8, <2>1
    <3> QED BY <1>2, <1>8, <3>1 DEF InputOK, Kept
  <2>10. w.grads \in [Chunks -> Seq(Tensors)] /\ GradOK(args, s, w)
    <3>1. PICK G \in [Chunks -> Seq(Tensors)] : G = v.grads BY <1>9 DEF Typed
    <3>2. V - 1 \in Chunks BY VAssumption DEF Chunks
    <3>3. /\ w.grads \in [Chunks -> Seq(Tensors)]
          /\ \A c \in Chunks : w.grads[c] = IF c = V - 1 /\ ~q THEN Append(G[c], None) ELSE G[c]
      BY <2>2, <3>1, <3>2, AppendedIs
    <3>4. \A c \in Chunks : G[c] = <<>>
      <4>1. v.b \in Nat /\ v.b < TotalOf(args) BY <1>4, <1>5
      <4> QED BY <1>2, <2>1, <2>4, <3>1, <4>1, GradsEmpty
    <3>5. Append(<<>>, None) = <<None>> OBVIOUS
    <3>6. V - 1 - Pos(w.b) = V - 1 BY <1>8, GroupStart, DirFacts DEF ChunkAt
    <3>7. GradPosted(args, s, w) /\ w.b \in Nat
      <4>1. ASSUME NEW c \in Chunks PROVE w.grads[c] = <<>> \/ (w.grads[c] = <<None>> /\ c = V - 1 /\ ~q)
        BY <3>3, <3>4, <3>5
      <4>2. ~q => Recv("next") \notin w.reqs BY <2>3
      <4>3. w.b = 0 /\ Expects(args, s, "next", w) BY <1>8, <2>4
      <4>4. ASSUME NEW c \in Chunks
            PROVE  \/ w.grads[c] = <<>>
                   \/ w.grads[c] = <<None>> /\ c = V - 1 - Pos(w.b) /\ Recv("next") \notin w.reqs
        BY <3>6, <4>1, <4>2
      <4> QED BY <4>3, <4>4 DEF GradPosted
    <3>8. GradOK(args, s, w) BY <1>2, <2>5, <3>7, GradPostedOK
    <3> QED BY <3>3, <3>8
  <2>11. TypesOK(args, w)
    <3>1. w.send \in [Dirs -> Tensors] BY <2>2, SendIs, TensorTypes
    <3>2. w.f \in 0 .. TotalOf(args) /\ w.b \in 0 .. TotalOf(args) BY <1>4, <1>8
    <3>3. Typed(args, w)
      BY <1>8, <1>9, <1>16, <2>3, <2>10, <3>1, <3>2 DEF Typed, Labels
    <3> QED BY <3>3, TypesEach
  <2>12. StageOK(args, s, w)
    BY <1>10, <1>11, <1>12, <1>13, <2>8, <2>9, <2>10, <2>11 DEF StageOK
  <2> QED BY <1>1, <1>2, <2>7, <2>12, EndWarmupFrame DEF StepOK
<1>18. CASE ~all
  <2>1. w.reqs = {} /\ w.send = v.send /\ w.dest = v.dest /\ w.grads = v.grads
    BY <1>8, <1>18
  <2>2. ASSUME NEW d \in Dirs PROVE Expects(args, s, d, w) <=> Expects(args, s, d, v)
    <3>1. Expects(args, s, "prev", w) <=> Expects(args, s, "prev", v)
      BY <1>3, <1>4, <1>8 DEF Expects
    <3>2. Expects(args, s, "next", w) <=> Expects(args, s, "next", v)
      BY <1>3, <1>4, <1>5, <1>6, <1>8, <1>16, <1>18, DirFacts DEF Expects
    <3> QED BY <3>1, <3>2, DirFacts
  <2>3. ASSUME NEW d \in Dirs PROVE Seen(args, s, d, w) = Seen(args, s, d, v)
    BY <1>3, <1>15, <2>1, <2>2 DEF Seen
  <2>4. ASSUME NEW d \in Dirs
        PROVE  /\ RecvOK(args, s, d, w) /\ SendOK(s, d, w)
               /\ Got(args, s, d, w) = Got(args, s, d, v) /\ Put(s, d, w) = Put(s, d, v)
    <3>1. RecvOK(args, s, d, w) BY <2>1 DEF RecvOK
    <3>2. Got(args, s, d, w) = Got(args, s, d, v) BY <2>3 DEF Got
    <3>3. /\ SendOK(s, d, w) /\ Put(s, d, w) = Outs(Closes(s, d), Passes(Opposite(d), w))
          /\ Put(s, d, v) = Outs(Closes(s, d), Passes(Opposite(d), v))
      <4>1. Send(d) \notin w.reqs /\ Send(d) \notin v.reqs BY <1>3, <2>1
      <4> QED BY <1>16, <4>1, NoSend
    <3> QED BY <1>15, <3>1, <3>2, <3>3
  <2>5. ReqOK(args, s, w) BY <1>16, <2>4 DEF ReqOK
  <2>6. InputOK(args, s, w)
    <3>1. w.f = v.f /\ w.b = v.b /\ v.label # "steady" /\ Seen(args, s, "prev", w) = Seen(args, s, "prev", v)
      BY <1>3, <1>4, <1>5, <1>8, <2>3, DirFacts
    <3>2. ASSUME NEW c \in Chunks PROVE Kept(args, w, c) = Kept(args, v, c)
      BY <3>1 DEF Kept
    <3> QED BY <1>2, <1>8, <3>1, <3>2 DEF InputOK
  <2>7. GradOK(args, s, w)
    <3>1. w.b = v.b /\ Seen(args, s, "next", w) = Seen(args, s, "next", v)
      BY <1>5, <1>8, <2>3, DirFacts
    <3> QED BY <1>2, <2>1, <3>1 DEF GradOK
  <2>8. TypesOK(args, w)
    <3>1. w.f \in 0 .. TotalOf(args) /\ w.b \in 0 .. TotalOf(args) BY <1>4, <1>8
    <3>2. Typed(args, w) BY <1>8, <1>9, <1>16, <2>1, <3>1 DEF Typed, Labels
    <3> QED BY <3>2, TypesEach
  <2>9. StageOK(args, s, w)
    BY <1>10, <1>11, <1>12, <1>13, <2>5, <2>6, <2>7, <2>8 DEF StageOK
  <2> QED BY <1>1, <1>2, <2>4, <2>9, EndWarmupFrame DEF StepOK
<1> QED BY <1>17, <1>18

\* SteadyForward preserves the invariant.
LEMMA SteadyForwardOK ==
  ASSUME IInv, NEW s \in Stages, SteadyForward(s)
  PROVE  StepOK(s)
<1>1. PICK v, w : v = View(s) /\ w = View(s)' OBVIOUS
<1>2. /\ args \in Calls /\ TypesOK(args, v) /\ CountOK(args, s, v)
      /\ OrderOK(v) /\ ReqOK(args, s, v) /\ InputOK(args, s, v) /\ OutputOK(args, s, v)
      /\ GradOK(args, s, v) /\ SyncOK(args, s, v) /\ ByStage /\ TotalOf(args) \in Nat
      /\ StageOK(args, s, v)
  BY <1>1, StageIs
<1>3. /\ v.label = "steady" /\ v.reqs = {} /\ v.f = forward_k[s] /\ v.b = backward_k[s] /\ v.fwd = fwd[s]
      /\ pc[s] = "steady" /\ reqs[s] = {}
  BY <1>1, ViewIs DEF SteadyForward, At
<1>4. PICK T \in Nat, W \in Nat, f \in Nat, b \in Nat :
        /\ T = TotalOf(args) /\ T = Total /\ W = WarmupOf(args, s) /\ f = v.f /\ b = v.b
        /\ f = W + b /\ f < T /\ f \in Int /\ f + 1 \in 0 .. T /\ b < T
        /\ ~args.forward_only /\ ~AllWarmupOf(args)
  <2>1. WarmupOf(args, s) \in Nat /\ v.f \in Nat /\ v.b \in Nat
    BY <1>1, <1>2, CallFacts, StageIs
  <2>2. v.f = WarmupOf(args, s) + v.b /\ v.f < TotalOf(args) /\ ~args.forward_only /\ ~AllWarmupOf(args)
    BY <1>2, <1>3 DEF CountOK
  <2>3. PICK T \in Nat, W \in Nat, f \in Nat, b \in Nat :
        T = TotalOf(args) /\ W = WarmupOf(args, s) /\ f = v.f /\ b = v.b
    BY <1>2, <2>1
  <2>4. f = W + b /\ f < T /\ f \in Int /\ f + 1 \in 0 .. T /\ b < T BY <2>2, <2>3
  <2> QED BY <2>2, <2>3, <2>4, Terms
<1>5. forward_k[s] = f /\ backward_k[s] = b BY <1>3, <1>4
<1>6. ForwardReady(s) BY <1>1, <1>2, <1>3, <1>4, <1>5 DEF ForwardReady
<1>7. /\ w.label = "steady_backward" /\ w.f = f + 1 /\ w.b = b
      /\ w.reqs = {} /\ w.send = [v.send EXCEPT !["next"] = SentNext(s)] /\ w.dest = v.dest
      /\ w.inputs = ForwardInputs(s) /\ w.outputs = ForwardOutputs(s) /\ w.grads = v.grads
      /\ w.fwd = [fwd[s] EXCEPT ![Chunk(f, TRUE)] = Append(@, Output(s).mb)] /\ w.bwd = v.bwd
      /\ w.sync = v.sync /\ w.synchronized = v.synchronized /\ w.reductions = v.reductions
      /\ w.synced = v.synced \cup ParamSyncChunks(s)
  <2>1. LET x == View(s)'
        IN /\ x.label = "steady_backward" /\ x.f = v.f + 1 /\ x.b = v.b
           /\ x.reqs = v.reqs /\ x.send = [v.send EXCEPT !["next"] = SentNext(s)] /\ x.dest = v.dest
           /\ x.inputs = ForwardInputs(s) /\ x.outputs = ForwardOutputs(s) /\ x.grads = v.grads
           /\ x.fwd = [v.fwd EXCEPT ![Chunk(f, TRUE)] = Append(@, Output(s).mb)] /\ x.bwd = v.bwd
           /\ x.sync = v.sync /\ x.synchronized = v.synchronized /\ x.reductions = v.reductions
           /\ x.synced = v.synced \cup ParamSyncChunks(s)
    BY <1>1, <1>2, <1>5, SteadyForwardFrame
  <2> QED BY <1>1, <1>3, <1>4, <2>1
<1>8. /\ Output(s) = Product(s, "next", f) /\ Output(s) \in Tensors
      /\ SentNext(s) = IF Sending(Closes(s, "next"), f) THEN Product(s, "next", f) ELSE None
  BY <1>5, <1>6, OutputIs
<1>9. SentNext(s) \in Tensors BY <1>8, TensorTypes
<1>10. Typed(args, v) BY <1>2, TypesEach
<1>11. w.send \in [Dirs -> Tensors] /\ w.send["next"] = SentNext(s)
  BY <1>7, <1>9, <1>10, DirFacts DEF Typed
<1>12. /\ Passes("prev", v) = f /\ Passes("prev", w) = f + 1 /\ Passes("next", v) = b /\ Passes("next", w) = b
  BY <1>4, <1>7, DirFacts DEF Passes
<1>13. Seen(args, s, "prev", v) = f + 1 /\ Seen(args, s, "prev", w) = f + 1
  <2>1. Expects(args, s, "prev", v) /\ ~Expects(args, s, "prev", w)
    BY <1>3, <1>4, <1>7 DEF Expects
  <2> QED BY <1>3, <1>12, <2>1 DEF Seen
<1>14. Seen(args, s, "next", v) = b + 1 /\ Seen(args, s, "next", w) = b + 1
  <2>1. Expects(args, s, "next", v) /\ Expects(args, s, "next", w)
    BY <1>3, <1>4, <1>7, DirFacts DEF Expects
  <2> QED BY <1>3, <1>7, <1>12, <2>1 DEF Seen
<1>15. ASSUME NEW d \in Dirs PROVE Got(args, s, d, w) = Got(args, s, d, v)
  BY <1>13, <1>14, DirFacts DEF Got
<1>16. ASSUME NEW d \in Dirs PROVE Put(s, d, w) = Put(s, d, v)
  <2>1. Gone("next", v) = f /\ Gone("prev", v) = b /\ Gone("next", w) = f /\ Gone("prev", w) = b
    BY <1>3, <1>4, <1>7, <1>12, DirFacts DEF Gone
  <2> QED BY <2>1, DirFacts DEF Put
<1>17. ReqOK(args, s, w)
  <2>1. w.f - 1 = f BY <1>4, <1>7
  <2>2. ASSUME NEW d \in Dirs PROVE RecvOK(args, s, d, w) /\ SendOK(s, d, w)
    BY <1>7 DEF RecvOK, SendOK
  <2> QED BY <1>7, <1>8, <1>11, <2>1, <2>2 DEF ReqOK
<1>18. CountOK(args, s, w)
  <2>1. f + 1 = W + b + 1 BY <1>4
  <2> QED BY <1>4, <1>7, <2>1 DEF CountOK
<1>19. /\ w.fwd \in [Chunks -> Seq(Nat)] /\ \A c \in Chunks : Upto(w.fwd[c], Done(w.f, c))
       /\ w.outputs \in [Chunks -> Seq(Tensors)] /\ OutputOK(args, s, w)
  <2>1. /\ w.f = forward_k[s] + 1 /\ w.b = backward_k[s] /\ w.outputs = ForwardOutputs(s)
        /\ w.fwd = [fwd[s] EXCEPT ![Chunk(forward_k[s], TRUE)] = Append(@, Output(s).mb)]
    BY <1>5, <1>7
  <2> QED BY <1>6, <2>1, FwdOK
<1>20. OrderOK(w) BY <1>2, <1>4, <1>7, <1>19 DEF OrderOK
<1>21. InputOK(args, s, w) /\ w.inputs \in [Chunks -> Seq(Tensors)]
  <2>1. /\ w.inputs \in [Chunks -> Seq(Tensors)]
        /\ \A c \in Chunks : Holds(w.inputs[c], From(s, "prev", c), Held(args, f + 1, b, c), Done(f + 1, c))
    BY <1>5, <1>6, <1>7, ForwardLists
  <2>2. ASSUME NEW c \in Chunks PROVE Kept(args, w, c) = Held(args, f + 1, b, c)
    BY <1>7 DEF Kept, Held
  <2>3. CASE f + 1 = T
    <3>1. ASSUME NEW c \in Chunks PROVE Done(f + 1, c) = args.num_microbatches
      BY <1>2, <1>4, <2>3, CallFacts, DoneAll DEF TotalOf
    <3>2. ASSUME NEW c \in Chunks
          PROVE Begins(w.inputs[c], From(s, "prev", c), Kept(args, w, c), args.num_microbatches)
      BY <2>1, <2>2, <3>1 DEF Holds
    <3> QED BY <1>4, <1>7, <2>1, <2>3, <3>2 DEF InputOK
  <2>4. CASE f + 1 # T BY <1>4, <1>7, <1>13, <2>1, <2>2, <2>4 DEF InputOK
  <2> QED BY <2>3, <2>4
<1>22. GradOK(args, s, w) BY <1>2, <1>4, <1>7, <1>14 DEF GradOK
<1>23. SyncOK(args, s, w)
  <2>1. Launched(args, s, w) = Launched(args, s, v) BY <1>3, <1>4, <1>7 DEF Launched
  <2> QED BY <1>2, <1>3, <1>7, <2>1 DEF SyncOK
<1>24. TypesOK(args, w)
  <2>1. ParamSyncChunks(s) \in SUBSET Chunks BY <1>5, ParamSyncTypes
  <2>2. w.f \in 0 .. TotalOf(args) /\ w.b \in 0 .. TotalOf(args) BY <1>4, <1>7
  <2>3. w.synced \in SUBSET Chunks BY <1>7, <1>10, <2>1 DEF Typed
  <2>4. Typed(args, w)
    BY <1>7, <1>10, <1>11, <1>19, <1>21, <2>2, <2>3 DEF Typed, Labels
  <2> QED BY <2>4, TypesEach
<1>25. StageOK(args, s, w)
  BY <1>17, <1>18, <1>19, <1>20, <1>21, <1>22, <1>23, <1>24 DEF StageOK
<1> QED BY <1>1, <1>2, <1>15, <1>16, <1>25, SteadyForwardFrame DEF StepOK

\* I, O and G are the lists after the backward pass of chunk c.
Shortened(s, c, I, O, G) ==
  /\ c = Chunk(backward_k[s], FALSE)
  /\ I = [input_tensors[s] EXCEPT ![c] = Tail(input_tensors[s][c])]
  /\ O = [output_tensors[s] EXCEPT ![c] = Tail(output_tensors[s][c])]
  /\ G = [output_tensor_grads[s] EXCEPT ![c] = Tail(OutGrads(s, c))]

\* They hold what is left of them.
LEMMA BackwardLists ==
  ASSUME NEW s \in Stages, BackwardReady(s), NEW c, NEW I, NEW O, NEW G, Shortened(s, c, I, O, G)
  PROVE  LET f == forward_k[s]
             b == backward_k[s]
         IN /\ I \in [Chunks -> Seq(Tensors)] /\ O \in [Chunks -> Seq(Tensors)] /\ G \in [Chunks -> Seq(Tensors)]
            /\ \A x \in Chunks :
                 /\ Begins(I[x], From(s, "prev", x), Done(b + 1, V - 1 - x), Done(f, x))
                 /\ f # TotalOf(args) => Holds(I[x], From(s, "prev", x), Done(b + 1, V - 1 - x), Done(f, x))
                 /\ Holds(O[x], Virtual(s, x), Done(b + 1, V - 1 - x), Done(f, x))
                 /\ G[x] = <<>>
<1>0. /\ c = Chunk(backward_k[s], FALSE)
      /\ I = [input_tensors[s] EXCEPT ![c] = Tail(input_tensors[s][c])]
      /\ O = [output_tensors[s] EXCEPT ![c] = Tail(output_tensors[s][c])]
      /\ G = [output_tensor_grads[s] EXCEPT ![c] = Tail(OutGrads(s, c))]
  BY DEF Shortened
<1>1. PICK f \in Nat, b \in Nat : f = forward_k[s] /\ b = backward_k[s]
  BY BackwardFacts
<1>2. PICK p \in Chunks : p = Pos(b) /\ c \in Chunks /\ c = V - 1 - p /\ V - 1 - c = p
  <2>1. b \in Int OBVIOUS
  <2>2. Pos(b) \in Chunks BY <2>1, Places
  <2>3. c \in Chunks /\ c = V - 1 - Pos(b) /\ V - 1 - c = Pos(b)
    BY <1>0, <1>1, PassedIs
  <2> QED BY <2>2, <2>3
<1>3. PICK i \in [Chunks -> Seq(Tensors)], o \in [Chunks -> Seq(Tensors)], g \in [Chunks -> Seq(Tensors)] :
        i = input_tensors[s] /\ o = output_tensors[s] /\ g = output_tensor_grads[s]
  BY BackwardFacts
<1>4. /\ Tail(i[c]) \in Seq(Tensors) /\ Tail(o[c]) \in Seq(Tensors)
      /\ Begins(Tail(i[c]), From(s, "prev", c), Done(b + 1, p), Done(f, c))
      /\ f # TotalOf(args) => Holds(Tail(i[c]), From(s, "prev", c), Done(b + 1, p), Done(f, c))
      /\ Holds(Tail(o[c]), Virtual(s, c), Done(b + 1, p), Done(f, c))
      /\ Tail(OutGrads(s, c)) = <<>>
  BY <1>0, <1>1, <1>2, <1>3, PassedIs
<1>5. I = [i EXCEPT ![c] = Tail(i[c])] /\ O = [o EXCEPT ![c] = Tail(o[c])] /\ G = [g EXCEPT ![c] = <<>>]
  BY <1>0, <1>3, <1>4
<1>6. I \in [Chunks -> Seq(Tensors)] /\ O \in [Chunks -> Seq(Tensors)] /\ G \in [Chunks -> Seq(Tensors)]
  <2>1. PICK ti \in Seq(Tensors), to \in Seq(Tensors) : ti = Tail(i[c]) /\ to = Tail(o[c])
    BY <1>4
  <2>2. I = [i EXCEPT ![c] = ti] /\ O = [o EXCEPT ![c] = to] /\ G = [g EXCEPT ![c] = <<>>]
    BY <1>5, <2>1
  <2>3. PICK e \in Seq(Tensors) : e = <<>>
    <3>1. <<>> \in Seq(Tensors) OBVIOUS
    <3> QED BY <3>1
  <2>4. I \in [Chunks -> Seq(Tensors)] BY <2>2
  <2>5. O \in [Chunks -> Seq(Tensors)] BY <2>2
  <2>6. G = [g EXCEPT ![c] = e] BY <2>2, <2>3
  <2>7. G \in [Chunks -> Seq(Tensors)] BY <2>6
  <2> QED BY <2>4, <2>5, <2>7
<1>7. ASSUME NEW x \in Chunks
      PROVE  /\ Begins(I[x], From(s, "prev", x), Done(b + 1, V - 1 - x), Done(f, x))
             /\ f # TotalOf(args) => Holds(I[x], From(s, "prev", x), Done(b + 1, V - 1 - x), Done(f, x))
             /\ Holds(O[x], Virtual(s, x), Done(b + 1, V - 1 - x), Done(f, x))
             /\ G[x] = <<>>
  <2>1. CASE x = c
    <3>1. I[x] = Tail(i[c]) /\ O[x] = Tail(o[c]) /\ G[x] = <<>> BY <1>2, <1>5, <2>1
    <3> QED BY <1>2, <1>4, <2>1, <3>1
  <2>2. CASE x # c
    <3>1. PICK j \in Chunks : j = V - 1 - x /\ j # p
      <4>1. PICK cc \in Chunks : cc = c /\ cc = V - 1 - p /\ x # cc BY <1>2, <2>2
      <4>2. PICK xx \in Chunks : xx = x /\ xx # cc BY <4>1
      <4>3. V - 1 - xx \in Chunks BY VAssumption DEF Chunks
      <4>4. V - 1 - xx # p
        <5>1. cc = V - 1 - p /\ xx # cc BY <4>1, <4>2
        <5>2. xx \in Int /\ p \in Int /\ V \in Int BY VAssumption DEF Chunks
        <5> QED BY <5>1, <5>2
      <4> QED BY <4>2, <4>3, <4>4
    <3>2. PICK n \in Int : n = Done(b, j) /\ Done(b + 1, j) = n
      <4>1. Done(b + 1, j) = Done(b, j) + (IF j = Pos(b) THEN 1 ELSE 0) /\ Done(b, j) \in Int
        <5>1. b \in Int OBVIOUS
        <5> QED BY <3>1, <5>1, DoneNext
      <4> QED BY <1>2, <3>1, <4>1
    <3>3. /\ Begins(i[x], From(s, "prev", x), n, Done(f, x))
          /\ f # TotalOf(args) => Holds(i[x], From(s, "prev", x), n, Done(f, x))
          /\ Holds(o[x], Virtual(s, x), n, Done(f, x))
          /\ Holds(g[x], From(s, "next", x), n, n) \/ g[x] = <<>>
      BY <1>1, <1>3, <3>1, <3>2, BackwardFacts
    <3>4. g[x] = <<>>
      <4>1. ASSUME Holds(g[x], From(s, "next", x), n, n) PROVE g[x] = <<>>
        <5>1. Len(g[x]) = 0 /\ g[x] \in Seq(Tensors) BY <4>1 DEF Holds
        <5> QED BY <5>1, EmptySeq
      <4> QED BY <3>3, <4>1
    <3>5. I[x] = i[x] /\ O[x] = o[x] /\ G[x] = g[x] BY <1>5, <2>2
    <3> QED BY <3>1, <3>2, <3>3, <3>4, <3>5
  <2> QED BY <2>1, <2>2
<1> QED BY <1>1, <1>6, <1>7

\* The chunks the tensors of a steady iteration are for.
LEMMA SteadyChunks ==
  ASSUME NEW s \in Stages, NEW k \in Int
  PROVE  /\ (~(s = 0 /\ PrevChunk(s, k) = V)) <=> Receiving(Closes(s, "prev"), k + 1)
         /\ Receiving(Closes(s, "prev"), k + 1) => PrevChunk(s, k) = ChunkAt("prev", k + 1)
         /\ (~(s = P - 1 /\ NextChunk(s, k) = -1)) <=> Receiving(Closes(s, "next"), k + 1)
         /\ Receiving(Closes(s, "next"), k + 1) => NextChunk(s, k) = ChunkAt("next", k + 1)
<1>1. PICK l \in Int : l = k + 1 OBVIOUS
<1>2. PICK m \in Int : m = l - P /\ m = k - (P - 1) BY <1>1, PAssumption
<1>3. PICK p \in Chunks, r \in Chunks : p = Pos(l) /\ r = Pos(m) BY Places
<1>4. /\ p > 0 => r = p - 1
      /\ p = 0 => r = V - 1
  BY <1>2, <1>3, PlaceBefore
<1>5. /\ Chunk(l, TRUE) = p /\ Chunk(m, TRUE) = r
      /\ Chunk(l, FALSE) = V - p - 1 /\ Chunk(m, FALSE) = V - r - 1
  BY <1>3, Terms
<1>6. (Closes(s, "prev") <=> s = 0) /\ (Closes(s, "next") <=> s = P - 1)
  BY PeerFacts, DirFacts
<1>7. /\ Receiving(Closes(s, "prev"), l) <=> ~(s = 0 /\ p = 0)
      /\ Receiving(Closes(s, "next"), l) <=> ~(s = P - 1 /\ p = 0)
  BY <1>3, <1>6 DEF Receiving
<1>8. PICK c, d, e, g :
        c = Chunk(l, TRUE) /\ d = Chunk(m, TRUE) /\ e = Chunk(l, FALSE) /\ g = Chunk(m, FALSE)
  OBVIOUS
<1>9. PrevChunk(s, k) = (IF s = 0 THEN d + 1 ELSE c) /\ NextChunk(s, k) = (IF s = P - 1 THEN g - 1 ELSE e)
  BY <1>1, <1>2, <1>8 DEF PrevChunk, NextChunk
<1>10. c = p /\ d = r /\ e = V - p - 1 /\ g = V - r - 1 BY <1>5, <1>8
<1>11. /\ PrevChunk(s, k) = (IF s = 0 THEN IF p = 0 THEN V ELSE p ELSE p)
       /\ NextChunk(s, k) = (IF s = P - 1 THEN IF p = 0 THEN -1 ELSE V - 1 - p ELSE V - 1 - p)
  BY <1>4, <1>9, <1>10, VAssumption DEF Chunks
<1>12. /\ ~(s = 0 /\ PrevChunk(s, k) = V) <=> ~(s = 0 /\ p = 0)
       /\ ~(s = P - 1 /\ NextChunk(s, k) = -1) <=> ~(s = P - 1 /\ p = 0)
  BY <1>11, VAssumption DEF Chunks
<1>13. ChunkAt("prev", l) = p /\ ChunkAt("next", l) = V - 1 - p
  BY <1>3, DirFacts DEF ChunkAt
<1> QED BY <1>1, <1>7, <1>11, <1>12, <1>13

\* The inputs after a steady iteration.
LEMMA SteadyInputs ==
  ASSUME NEW a \in Calls, NEW s \in Stages, NEW w, w.f \in Nat, w.f <= TotalOf(a), ~a.forward_only,
         w.f # TotalOf(a) => w.label = "steady", RecvPosted(a, s, "prev", w),
         \A c \in Chunks :
           /\ Begins(w.inputs[c], From(s, "prev", c), Done(w.b, V - 1 - c), Done(w.f, c))
           /\ w.f # TotalOf(a) =>
                Holds(w.inputs[c], From(s, "prev", c), Done(w.b, V - 1 - c), Done(w.f, c))
  PROVE  InputOK(a, s, w)
<1>1. PICK f \in Nat, T \in Nat, m \in Nat \ {0} :
        f = w.f /\ T = TotalOf(a) /\ m = a.num_microbatches /\ m % P = 0 /\ T = m * V /\ f <= T
  BY CallFacts DEF TotalOf
<1>2. ASSUME NEW c \in Chunks PROVE Kept(a, w, c) = Done(w.b, V - 1 - c)
  BY DEF Kept
<1>3. CASE f = T
  <2>1. ASSUME NEW c \in Chunks PROVE Done(f, c) = m
    BY <1>1, <1>3, DoneAll
  <2> QED BY <1>1, <1>2, <1>3, <2>1 DEF InputOK
<1>4. CASE f # T
  <2>1. w.label = "steady" /\ Expects(a, s, "prev", w) /\ Passes("prev", w) = f
    BY <1>1, <1>4 DEF Expects, Passes
  <2>2. (Recv("prev") \in w.reqs) <=> Receiving(Closes(s, "prev"), f)
    BY <2>1 DEF RecvPosted
  <2>3. SUFFICES ASSUME NEW c \in Chunks
                 PROVE  \/ Holds(w.inputs[c], From(s, "prev", c), Kept(a, w, c), Done(Seen(a, s, "prev", w), c))
                        \/ /\ w.label = "steady" /\ FirstVirtual(s, c)
                           /\ Holds(w.inputs[c], From(s, "prev", c), Kept(a, w, c), Done(w.f, c))
    BY <1>1, <1>4 DEF InputOK
  <2>4. Holds(w.inputs[c], From(s, "prev", c), Kept(a, w, c), Done(w.f, c))
    BY <1>1, <1>2, <1>4
  <2>5. CASE Receiving(Closes(s, "prev"), f)
    <3>1. Seen(a, s, "prev", w) = w.f BY <1>1, <2>1, <2>2, <2>5 DEF Seen
    <3> QED BY <2>4, <3>1
  <2>6. CASE ~Receiving(Closes(s, "prev"), f)
    <3>1. Seen(a, s, "prev", w) = f + 1 BY <2>1, <2>2, <2>6 DEF Seen
    <3>2. s = 0 /\ Pos(f) = 0 BY <2>6, PeerFacts, DirFacts DEF Receiving
    <3>3. CASE c = 0 BY <2>1, <2>4, <3>2, <3>3 DEF FirstVirtual
    <3>4. CASE c # 0
      <4>1. f \in Int OBVIOUS
      <4>2. Done(f + 1, c) = Done(f, c) + (IF c = Pos(f) THEN 1 ELSE 0) /\ Done(f, c) \in Int
        BY <4>1, DoneNext
      <4>3. Done(f + 1, c) = Done(f, c) BY <3>2, <3>4, <4>2
      <4> QED BY <1>1, <2>4, <3>1, <4>3
    <3> QED BY <3>3, <3>4
  <2> QED BY <2>5, <2>6
<1> QED BY <1>3, <1>4

\* SteadyBackward preserves the invariant.
LEMMA SteadyBackwardOK ==
  ASSUME IInv, NEW s \in Stages, SteadyBackward(s)
  PROVE  StepOK(s)
<1>1. PICK v, w : v = View(s) /\ w = View(s)' OBVIOUS
<1>2. /\ args \in Calls /\ TypesOK(args, v) /\ CountOK(args, s, v)
      /\ OrderOK(v) /\ ReqOK(args, s, v) /\ ByStage /\ TotalOf(args) \in Nat
      /\ StageOK(args, s, v)
  BY <1>1, StageIs
<1>3. /\ v.label = "steady_backward" /\ v.reqs = {} /\ v.f = forward_k[s] /\ v.b = backward_k[s]
      /\ v.fwd = fwd[s] /\ v.send = send[s] /\ v.inputs = input_tensors[s]
      /\ v.outputs = output_tensors[s] /\ v.grads = output_tensor_grads[s]
      /\ pc[s] = "steady_backward" /\ reqs[s] = {}
  BY <1>1, ViewIs DEF SteadyBackward, At
<1>4. PICK T \in Nat, W \in Nat, f \in Nat, b \in Nat :
        /\ T = TotalOf(args) /\ T = Total /\ W = WarmupOf(args, s) /\ f = v.f /\ b = v.b
        /\ f = W + b + 1 /\ f <= T /\ f - 1 \in Nat /\ b + 1 < T /\ b + 1 \in 0 .. T
        /\ ~args.forward_only /\ ~AllWarmupOf(args)
  <2>1. WarmupOf(args, s) \in Nat /\ 1 < WarmupOf(args, s) /\ v.f \in Nat /\ v.b \in Nat
    BY <1>1, <1>2, CallFacts, StageIs
  <2>2. v.f = WarmupOf(args, s) + v.b + 1 /\ v.f \in 0 .. TotalOf(args) /\ ~args.forward_only /\ ~AllWarmupOf(args)
    BY <1>2, <1>3 DEF CountOK, TypesOK
  <2>3. PICK T \in Nat, W \in Nat, f \in Nat, b \in Nat :
        T = TotalOf(args) /\ W = WarmupOf(args, s) /\ f = v.f /\ b = v.b
    BY <1>2, <2>1
  <2>4. 1 < W /\ f = W + b + 1 /\ f <= T /\ f - 1 \in Nat /\ b + 1 < T /\ b + 1 \in 0 .. T
    BY <2>1, <2>2, <2>3
  <2> QED BY <2>2, <2>3, <2>4, Terms
<1>5. forward_k[s] = f /\ backward_k[s] = b BY <1>3, <1>4
<1>6. BackwardReady(s)
  <2>1. b < T BY <1>4
  <2> QED BY <1>1, <1>2, <1>3, <1>4, <1>5, <2>1 DEF BackwardReady
<1>7. PICK c, mb : c = Chunk(b, FALSE) /\ mb = Passed(s) OBVIOUS
<1>8. PICK r \in BOOLEAN : r = PrevSends(s, f - 1) /\ (r <=> Receiving(Closes(s, "prev"), f) /\ f # T)
  <2>1. f - 1 \in Int /\ f - 1 + 1 = f /\ (f - 1 # T - 1 <=> f # T) BY <1>4
  <2>2. (~(s = 0 /\ PrevChunk(s, f - 1) = V)) <=> Receiving(Closes(s, "prev"), f)
    BY <2>1, SteadyChunks
  <2>3. PrevSends(s, f - 1) \in BOOLEAN /\ (PrevSends(s, f - 1) <=> Receiving(Closes(s, "prev"), f) /\ f # T)
    BY <1>4, <2>1, <2>2 DEF PrevSends
  <2> QED BY <2>3
<1>9. PICK q \in BOOLEAN : /\ q = (~(s = P-1 /\ NextChunk(s, b) = -1))
                           /\ (q <=> Receiving(Closes(s, "next"), b + 1))
  <2>1. b \in Int OBVIOUS
  <2>2. (~(s = P-1 /\ NextChunk(s, b) = -1)) <=> Receiving(Closes(s, "next"), b + 1)
    BY <2>1, SteadyChunks
  <2>3. (~(s = P-1 /\ NextChunk(s, b) = -1)) \in BOOLEAN OBVIOUS
  <2> QED BY <2>2, <2>3, Zenon
<1>10. PICK next, prev : next = send[s]["next"] /\ prev = SentPrev(s, mb) OBVIOUS
<1>11. /\ w.label = (IF f = T THEN "cooldown" ELSE "steady") /\ w.f = f /\ w.b = b + 1
       /\ w.reqs = Sends(next, prev) \cup Recvs(r, q)
       /\ w.send = [next |-> next, prev |-> prev]
       /\ w.dest = [prev |-> PrevChunk(s, f - 1), next |-> NextChunk(s, b)]
       /\ w.inputs = [input_tensors[s] EXCEPT ![c] = Tail(input_tensors[s][c])]
       /\ w.outputs = [output_tensors[s] EXCEPT ![c] = Tail(output_tensors[s][c])]
       /\ w.grads = [output_tensor_grads[s] EXCEPT ![c] = Tail(OutGrads(s, c))]
       /\ w.fwd = v.fwd /\ w.synced = v.synced
  <2>1. LET x == View(s)'
        IN /\ x.label = (IF f = Total THEN "cooldown" ELSE "steady") /\ x.f = v.f /\ x.b = v.b + 1
           /\ x.reqs = Sends(send[s]["next"], SentPrev(s, Passed(s)))
                         \cup Recvs(PrevSends(s, f - 1), ~(s = P-1 /\ NextChunk(s, b) = -1))
           /\ x.send = [next |-> send[s]["next"], prev |-> SentPrev(s, Passed(s))]
           /\ x.dest = [prev |-> PrevChunk(s, f - 1), next |-> NextChunk(s, b)]
           /\ x.inputs = [v.inputs EXCEPT ![Chunk(b, FALSE)] = Tail(input_tensors[s][Chunk(b, FALSE)])]
           /\ x.outputs = [v.outputs EXCEPT ![Chunk(b, FALSE)] = Tail(output_tensors[s][Chunk(b, FALSE)])]
           /\ x.grads = [v.grads EXCEPT ![Chunk(b, FALSE)] = Tail(OutGrads(s, Chunk(b, FALSE)))]
           /\ x.fwd = v.fwd /\ x.synced = v.synced
    BY <1>1, <1>2, <1>5, SteadyBackwardFrame
  <2> QED BY <1>1, <1>3, <1>4, <1>7, <1>8, <1>9, <1>10, <2>1
<1>12. /\ mb = Mb(b) /\ prev \in Tensors /\ Product(s, "prev", b) # None
       /\ prev = IF Sending(Closes(s, "prev"), b) THEN Product(s, "prev", b) ELSE None
  BY <1>5, <1>6, <1>7, <1>10, PassedIs
<1>13. prev # None <=> Sending(Closes(s, "prev"), b) BY <1>12
<1>14. Typed(args, v) BY <1>2, TypesEach
<1>15. /\ next \in Tensors
       /\ next = IF Sending(Closes(s, "next"), f - 1) THEN Product(s, "next", f - 1) ELSE None
  <2>1. v.send \in [Dirs -> Tensors] /\ next = v.send["next"]
    BY <1>3, <1>10, <1>14 DEF Typed
  <2> QED BY <1>2, <1>3, <1>4, <2>1, DirFacts DEF ReqOK
<1>16. next # None <=> Sending(Closes(s, "next"), f - 1)
  <2>1. Product(s, "next", f - 1) # None
    <3>1. PICK k \in Nat : k = f - 1 BY <1>4
    <3>2. k \in Int OBVIOUS
    <3>3. Pos(k) \in Chunks BY <3>2, Places
    <3>4. Mb(k) \in Nat \ {0} BY <3>2, <3>3, DoneNext
    <3>5. Virtual(s, Pos(k)) \in 0 .. P * V - 1 BY <3>3, VirtualFacts
    <3>6. Product(s, "next", k) = Tensor(Virtual(s, Pos(k)), Mb(k))
      BY DirFacts DEF Product, ChunkAt
    <3>7. Tensor(Virtual(s, Pos(k)), Mb(k)) # None BY <3>4, <3>5, TensorTypes
    <3> QED BY <3>1, <3>6, <3>7
  <2> QED BY <1>15, <2>1
<1>17. /\ w.reqs \in SUBSET ({"send", "recv"} \X Dirs) /\ (Recv("prev") \in w.reqs <=> r)
       /\ (Recv("next") \in w.reqs <=> q) /\ (Send("next") \in w.reqs <=> next # None)
       /\ (Send("prev") \in w.reqs <=> prev # None)
  BY <1>11, RequestsAre
<1>18. w.send \in [Dirs -> Tensors] /\ w.send["next"] = next /\ w.send["prev"] = prev
  BY <1>11, <1>12, <1>15, SendIs
<1>19. /\ ~Expects(args, s, "prev", v) /\ Expects(args, s, "next", v)
       /\ Expects(args, s, "prev", w) <=> f # T
       /\ Expects(args, s, "next", w)
  <2>1. b < T /\ b + 1 < T /\ (f < T <=> f # T) BY <1>4
  <2> QED BY <1>3, <1>4, <1>11, <2>1, DirFacts DEF Expects
<1>20. /\ Passes("prev", v) = f /\ Passes("prev", w) = f /\ Passes("next", v) = b /\ Passes("next", w) = b + 1
  BY <1>4, <1>11, DirFacts DEF Passes
<1>21. RecvPosted(args, s, "prev", w)
  <2>1. w.dest["prev"] = PrevChunk(s, f - 1) BY <1>11
  <2>2. Receiving(Closes(s, "prev"), f) => PrevChunk(s, f - 1) = ChunkAt("prev", f)
    <3>1. f - 1 \in Int /\ f - 1 + 1 = f BY <1>4
    <3> QED BY <3>1, SteadyChunks
  <2> QED BY <1>8, <1>17, <1>19, <1>20, <2>1, <2>2 DEF RecvPosted
<1>22. RecvPosted(args, s, "next", w)
  <2>1. w.dest["next"] = NextChunk(s, b) BY <1>11
  <2>2. Receiving(Closes(s, "next"), b + 1) => NextChunk(s, b) = ChunkAt("next", b + 1)
    <3>1. b \in Int OBVIOUS
    <3> QED BY <3>1, SteadyChunks
  <2> QED BY <1>9, <1>17, <1>19, <1>20, <2>1, <2>2 DEF RecvPosted
<1>23. /\ RecvOK(args, s, "prev", w) /\ RecvOK(args, s, "next", w)
       /\ Got(args, s, "prev", w) = Got(args, s, "prev", v) /\ Got(args, s, "next", w) = Got(args, s, "next", v)
  <2>1. /\ RecvOK(args, s, "prev", w) /\ Got(args, s, "prev", w) = Ins(Closes(s, "prev"), f)
    <3>1. Passes("prev", w) \in Nat /\ "prev" \in Dirs BY <1>20, DirFacts
    <3> QED BY <1>20, <1>21, <3>1, RecvPostedOK
  <2>2. /\ RecvOK(args, s, "next", w) /\ Got(args, s, "next", w) = Ins(Closes(s, "next"), b + 1)
    <3>1. Passes("next", w) \in Nat /\ "next" \in Dirs BY <1>20, DirFacts
    <3> QED BY <1>20, <1>22, <3>1, RecvPostedOK
  <2>3. Got(args, s, "prev", v) = Ins(Closes(s, "prev"), f)
    BY <1>3, <1>19, <1>20, NoRecv
  <2>4. Got(args, s, "next", v) = Ins(Closes(s, "next"), b + 1)
    BY <1>3, <1>19, <1>20 DEF Got, Seen
  <2> QED BY <2>1, <2>2, <2>3, <2>4
<1>24. /\ SendOK(s, "next", w) /\ SendOK(s, "prev", w)
       /\ Put(s, "next", w) = Put(s, "next", v) /\ Put(s, "prev", w) = Put(s, "prev", v)
  <2>1. SendPosted(s, "next", w)
    <3>1. Passes(Opposite("next"), w) - 1 = f - 1 /\ f - 1 \in Nat /\ w.label # "steady_backward"
      BY <1>4, <1>11, <1>20, DirFacts
    <3> QED BY <1>15, <1>16, <1>17, <1>18, <3>1 DEF SendPosted
  <2>2. SendOK(s, "next", w) /\ Put(s, "next", w) = Outs(Closes(s, "next"), f - 1)
    <3>1. Passes(Opposite("next"), w) = f /\ Passes(Opposite("next"), w) \in Nat /\ "next" \in Dirs
      BY <1>4, <1>20, DirFacts
    <3> QED BY <2>1, <3>1, SendPostedOK
  <2>3. Put(s, "next", v) = Outs(Closes(s, "next"), f - 1)
    BY <1>3, <1>20, DirFacts DEF Put, Gone
  <2>4. SendPosted(s, "prev", w)
    <3>1. Passes(Opposite("prev"), w) - 1 = b /\ "prev" # "next"
      BY <1>4, <1>11, <1>20, DirFacts
    <3> QED BY <1>12, <1>13, <1>17, <1>18, <3>1 DEF SendPosted
  <2>5. SendOK(s, "prev", w) /\ Put(s, "prev", w) = Outs(Closes(s, "prev"), b)
    <3>1. Passes(Opposite("prev"), w) - 1 = b /\ Passes(Opposite("prev"), w) \in Nat /\ "prev" \in Dirs
      BY <1>4, <1>20, DirFacts
    <3> QED BY <2>4, <3>1, SendPostedOK
  <2>6. Put(s, "prev", v) = Outs(Closes(s, "prev"), b)
    BY <1>3, <1>20, DirFacts, NoSend
  <2> QED BY <2>2, <2>3, <2>5, <2>6
<1>25. ReqOK(args, s, w)
  <2>1. w.label \notin {"start", "steady_backward", "done"} BY <1>11
  <2> QED BY <1>23, <1>24, <2>1, DirFacts DEF ReqOK
<1>26. CountOK(args, s, w)
  <2>1. f = W + (b + 1) /\ (f # T => f < T) BY <1>4
  <2> QED BY <1>4, <1>11, <2>1 DEF CountOK
<1>27. /\ w.bwd \in [Chunks -> Seq(Nat)] /\ \A x \in Chunks : Upto(w.bwd[x], Done(w.b, V - 1 - x))
       /\ w.sync = FALSE /\ w.synchronized \in SUBSET Chunks /\ w.reductions \in [Chunks -> Seq(Nat)]
       /\ SyncOK(args, s, w)
  <2>1. BackwardStep(s, Passed(s)) /\ args' = args BY DEF SteadyBackward
  <2>2. pc'[s] # "done"
    <3>1. View(s)'.label = pc'[s] BY DEF View
    <3> QED BY <1>1, <1>11, <3>1
  <2> QED BY <1>1, <1>2, <1>6, <2>1, <2>2, BackwardStepOK
<1>28. OrderOK(w) BY <1>2, <1>4, <1>11, <1>27 DEF OrderOK
<1>29. /\ w.inputs \in [Chunks -> Seq(Tensors)] /\ w.outputs \in [Chunks -> Seq(Tensors)]
       /\ w.grads \in [Chunks -> Seq(Tensors)]
       /\ \A x \in Chunks :
            /\ Begins(w.inputs[x], From(s, "prev", x), Done(b + 1, V - 1 - x), Done(f, x))
            /\ f # TotalOf(args) => Holds(w.inputs[x], From(s, "prev", x), Done(b + 1, V - 1 - x), Done(f, x))
            /\ Holds(w.outputs[x], Virtual(s, x), Done(b + 1, V - 1 - x), Done(f, x))
            /\ w.grads[x] = <<>>
  <2>1. c = Chunk(backward_k[s], FALSE) BY <1>5, <1>7
  <2>2. PICK I, O, G : I = w.inputs /\ O = w.outputs /\ G = w.grads OBVIOUS
  <2>3. Shortened(s, c, I, O, G) BY <1>11, <2>1, <2>2 DEF Shortened
  <2>4. LET y == forward_k[s]
            z == backward_k[s]
        IN /\ I \in [Chunks -> Seq(Tensors)] /\ O \in [Chunks -> Seq(Tensors)] /\ G \in [Chunks -> Seq(Tensors)]
           /\ \A x \in Chunks :
                /\ Begins(I[x], From(s, "prev", x), Done(z + 1, V - 1 - x), Done(y, x))
                /\ y # TotalOf(args) => Holds(I[x], From(s, "prev", x), Done(z + 1, V - 1 - x), Done(y, x))
                /\ Holds(O[x], Virtual(s, x), Done(z + 1, V - 1 - x), Done(y, x))
                /\ G[x] = <<>>
    BY <1>6, <2>3, BackwardLists
  <2> QED BY <1>5, <2>2, <2>4
<1>30. InputOK(args, s, w)
  <2>1. w.f # TotalOf(args) => w.label = "steady" BY <1>4, <1>11
  <2>2. w.f \in Nat /\ w.f <= TotalOf(args) BY <1>4, <1>11
  <2>3. \A x \in Chunks :
          /\ Begins(w.inputs[x], From(s, "prev", x), Done(w.b, V - 1 - x), Done(w.f, x))
          /\ w.f # TotalOf(args) =>
               Holds(w.inputs[x], From(s, "prev", x), Done(w.b, V - 1 - x), Done(w.f, x))
    BY <1>11, <1>29
  <2> QED BY <1>2, <1>4, <1>21, <2>1, <2>2, <2>3, SteadyInputs
<1>31. OutputOK(args, s, w) BY <1>4, <1>11, <1>29 DEF OutputOK
<1>32. GradOK(args, s, w)
  <2>1. GradPosted(args, s, w) /\ w.b \in Nat BY <1>11, <1>29 DEF GradPosted
  <2> QED BY <1>2, <1>22, <2>1, GradPostedOK
<1>33. TypesOK(args, w)
  <2>1. w.f \in 0 .. TotalOf(args) /\ w.b \in 0 .. TotalOf(args) BY <1>4, <1>11
  <2>2. w.label \in Labels BY <1>11 DEF Labels
  <2>3. Typed(args, w)
    BY <1>11, <1>14, <1>17, <1>18, <1>27, <1>29, <2>1, <2>2 DEF Typed
  <2> QED BY <2>3, TypesEach
<1>34. StageOK(args, s, w)
  BY <1>25, <1>26, <1>27, <1>28, <1>30, <1>31, <1>32, <1>33 DEF StageOK
<1>35. ASSUME NEW d \in Dirs PROVE Got(args, s, d, w) = Got(args, s, d, v) /\ Put(s, d, w) = Put(s, d, v)
  BY <1>23, <1>24, DirFacts
<1> QED BY <1>1, <1>2, <1>34, <1>35, SteadyBackwardFrame DEF StepOK

\* Cooldown preserves the invariant.
LEMMA CooldownOK ==
  ASSUME IInv, NEW s \in Stages, Cooldown(s)
  PROVE  StepOK(s)
<1>1. PICK v, w : v = View(s) /\ w = View(s)' OBVIOUS
<1>2. /\ args \in Calls /\ TypesOK(args, v) /\ CountOK(args, s, v)
      /\ OrderOK(v) /\ ReqOK(args, s, v) /\ ByStage /\ TotalOf(args) \in Nat
      /\ StageOK(args, s, v)
  BY <1>1, StageIs
<1>3. /\ v.label = "cooldown" /\ v.reqs = {} /\ v.f = forward_k[s] /\ v.b = backward_k[s]
      /\ v.fwd = fwd[s] /\ v.inputs = input_tensors[s]
      /\ v.outputs = output_tensors[s] /\ v.grads = output_tensor_grads[s]
      /\ pc[s] = "cooldown" /\ reqs[s] = {}
  BY <1>1, ViewIs DEF Cooldown, At
<1>4. PICK T \in Nat, b \in Nat :
        /\ T = TotalOf(args) /\ T = Total /\ T = v.f /\ b = v.b
        /\ b < T /\ b + 1 \in Nat /\ b + 1 \in 0 .. T /\ ~args.forward_only
  <2>1. v.b \in Nat /\ v.b < TotalOf(args)
    BY <1>1, <1>2, <1>3, Terms, StageIs DEF Cooldown
  <2>2. v.f = TotalOf(args) /\ ~args.forward_only
    BY <1>2, <1>3 DEF CountOK, Cooldown
  <2>3. PICK T \in Nat, b \in Nat : T = TotalOf(args) /\ b = v.b BY <1>2, <2>1
  <2>4. b < T /\ b + 1 \in Nat /\ b + 1 \in 0 .. T BY <2>1, <2>3
  <2> QED BY <2>2, <2>3, <2>4, Terms
<1>5. forward_k[s] = T /\ backward_k[s] = b BY <1>3, <1>4
<1>6. BackwardReady(s) BY <1>1, <1>2, <1>3, <1>4, <1>5 DEF BackwardReady
<1>7. PICK c, mb : c = Chunk(b, FALSE) /\ mb = Passed(s) OBVIOUS
<1>8. PICK n \in Chunks : n = Chunk(b + 1, FALSE) /\ n = V - 1 - Pos(b + 1) /\ (n = V - 1 <=> Pos(b + 1) = 0)
  <2>1. PICK p \in Chunks : p = Pos(b + 1)
    <3>1. b + 1 \in Int OBVIOUS
    <3> QED BY <3>1, Places
  <2>2. V - 1 - p \in Chunks /\ V - p - 1 = V - 1 - p /\ (V - 1 - p = V - 1 <=> p = 0)
    BY VAssumption DEF Chunks
  <2>3. Chunk(b + 1, FALSE) = V - 1 - p BY <2>1, <2>2, Terms
  <2> QED BY <2>1, <2>2, <2>3
<1>9. PICK r \in BOOLEAN : /\ r = CooldownRecvNext(s)
                           /\ r <=> Receiving(Closes(s, "next"), b + 1) /\ b + 1 # T
  <2>1. b # T - 1 <=> b + 1 # T BY <1>4
  <2>2. CooldownRecvNext(s) <=> ~(s = P - 1 /\ n = V - 1) /\ b + 1 # T
    BY <1>4, <1>5, <1>8, <2>1 DEF CooldownRecvNext
  <2>3. (Closes(s, "next") <=> s = P - 1) /\ CooldownRecvNext(s) \in BOOLEAN
    BY PeerFacts, DirFacts DEF CooldownRecvNext
  <2>4. CooldownRecvNext(s) <=> Receiving(Closes(s, "next"), b + 1) /\ b + 1 # T
    BY <1>8, <2>2, <2>3 DEF Receiving
  <2> QED BY <2>3, <2>4
<1>10. PICK prev : prev = SentPrev(s, mb) OBVIOUS
<1>11. PICK G : G = [output_tensor_grads[s] EXCEPT ![c] = Tail(OutGrads(s, c))]
  OBVIOUS
<1>12. /\ w.label = "cooldown" /\ w.f = T /\ w.b = b + 1
       /\ w.reqs = Sends(None, prev) \cup Recvs(FALSE, r)
       /\ w.send = [next |-> None, prev |-> prev]
       /\ w.dest = [prev |-> 0, next |-> n]
       /\ w.inputs = [input_tensors[s] EXCEPT ![c] = Tail(input_tensors[s][c])]
       /\ w.outputs = [output_tensors[s] EXCEPT ![c] = Tail(output_tensors[s][c])]
       /\ w.grads = Appended(G, n, NoneUnless(r))
       /\ w.fwd = v.fwd /\ w.synced = v.synced
  <2>1. LET x == View(s)'
        IN /\ x.label = v.label /\ x.f = v.f /\ x.b = v.b + 1
           /\ x.reqs = Sends(None, SentPrev(s, Passed(s))) \cup Recvs(FALSE, CooldownRecvNext(s))
           /\ x.send = [next |-> None, prev |-> SentPrev(s, Passed(s))]
           /\ x.dest = [prev |-> 0, next |-> Chunk(b + 1, FALSE)]
           /\ x.inputs = [v.inputs EXCEPT ![Chunk(b, FALSE)] = Tail(input_tensors[s][Chunk(b, FALSE)])]
           /\ x.outputs = [v.outputs EXCEPT ![Chunk(b, FALSE)] = Tail(output_tensors[s][Chunk(b, FALSE)])]
           /\ x.grads = Appended([v.grads EXCEPT ![Chunk(b, FALSE)] = Tail(OutGrads(s, Chunk(b, FALSE)))],
                                 Chunk(b + 1, FALSE), NoneUnless(CooldownRecvNext(s)))
           /\ x.fwd = v.fwd /\ x.synced = v.synced
    BY <1>1, <1>2, <1>5, CooldownFrame
  <2> QED BY <1>1, <1>3, <1>4, <1>7, <1>8, <1>9, <1>10, <1>11, <2>1
<1>13. /\ mb = Mb(b) /\ prev \in Tensors /\ Product(s, "prev", b) # None
       /\ prev = IF Sending(Closes(s, "prev"), b) THEN Product(s, "prev", b) ELSE None
  BY <1>5, <1>6, <1>7, <1>10, PassedIs
<1>14. prev # None <=> Sending(Closes(s, "prev"), b) BY <1>13
<1>15. Typed(args, v) BY <1>2, TypesEach
<1>16. /\ w.reqs \in SUBSET ({"send", "recv"} \X Dirs) /\ Recv("prev") \notin w.reqs
       /\ (Recv("next") \in w.reqs <=> r) /\ Send("next") \notin w.reqs
       /\ (Send("prev") \in w.reqs <=> prev # None)
  BY <1>12, RequestsAre
<1>17. w.send \in [Dirs -> Tensors] /\ w.send["prev"] = prev
  BY <1>12, <1>13, SendIs, TensorTypes
<1>18. /\ ~Expects(args, s, "prev", v) /\ Expects(args, s, "next", v)
       /\ ~Expects(args, s, "prev", w)
       /\ Expects(args, s, "next", w) <=> b + 1 # T
  <2>1. b + 1 < T <=> b + 1 # T BY <1>4
  <2> QED BY <1>3, <1>4, <1>12, <2>1, DirFacts DEF Expects
<1>19. /\ Passes("prev", v) = T /\ Passes("prev", w) = T /\ Passes("next", v) = b /\ Passes("next", w) = b + 1
  BY <1>4, <1>12, DirFacts DEF Passes
<1>20. RecvPosted(args, s, "prev", w) BY <1>16, <1>18 DEF RecvPosted
<1>21. RecvPosted(args, s, "next", w)
  <2>1. w.dest["next"] = n BY <1>12
  <2> QED BY <1>8, <1>9, <1>16, <1>18, <1>19, <2>1, DirFacts DEF RecvPosted, ChunkAt
<1>22. /\ RecvOK(args, s, "prev", w) /\ RecvOK(args, s, "next", w)
       /\ Got(args, s, "prev", w) = Got(args, s, "prev", v) /\ Got(args, s, "next", w) = Got(args, s, "next", v)
  <2>1. /\ RecvOK(args, s, "prev", w) /\ Got(args, s, "prev", w) = Ins(Closes(s, "prev"), T)
    <3>1. Passes("prev", w) \in Nat /\ "prev" \in Dirs BY <1>19, DirFacts
    <3> QED BY <1>19, <1>20, <3>1, RecvPostedOK
  <2>2. /\ RecvOK(args, s, "next", w) /\ Got(args, s, "next", w) = Ins(Closes(s, "next"), b + 1)
    <3>1. Passes("next", w) \in Nat /\ "next" \in Dirs BY <1>19, DirFacts
    <3> QED BY <1>19, <1>21, <3>1, RecvPostedOK
  <2>3. Got(args, s, "prev", v) = Ins(Closes(s, "prev"), T)
    BY <1>3, <1>18, <1>19, NoRecv
  <2>4. Got(args, s, "next", v) = Ins(Closes(s, "next"), b + 1)
    BY <1>3, <1>18, <1>19 DEF Got, Seen
  <2> QED BY <2>1, <2>2, <2>3, <2>4
<1>23. /\ SendOK(s, "next", w) /\ SendOK(s, "prev", w)
       /\ Put(s, "next", w) = Put(s, "next", v) /\ Put(s, "prev", w) = Put(s, "prev", v)
  <2>1. v.label # "steady_backward" /\ w.label # "steady_backward" /\ Send("next") \notin v.reqs
        /\ Send("prev") \notin v.reqs
    BY <1>3, <1>12
  <2>2. SendOK(s, "next", w) /\ Put(s, "next", w) = Outs(Closes(s, "next"), T)
    BY <1>16, <1>19, <2>1, DirFacts, NoSend
  <2>3. Put(s, "next", v) = Outs(Closes(s, "next"), T)
    BY <1>19, <2>1, DirFacts, NoSend
  <2>4. SendPosted(s, "prev", w)
    <3>1. Passes(Opposite("prev"), w) - 1 = b /\ "prev" # "next"
      BY <1>4, <1>19, DirFacts
    <3> QED BY <1>13, <1>14, <1>16, <1>17, <3>1 DEF SendPosted
  <2>5. SendOK(s, "prev", w) /\ Put(s, "prev", w) = Outs(Closes(s, "prev"), b)
    <3>1. Passes(Opposite("prev"), w) - 1 = b /\ Passes(Opposite("prev"), w) \in Nat /\ "prev" \in Dirs
      BY <1>4, <1>19, DirFacts
    <3> QED BY <2>4, <3>1, SendPostedOK
  <2>6. Put(s, "prev", v) = Outs(Closes(s, "prev"), b)
    BY <1>19, <2>1, DirFacts, NoSend
  <2> QED BY <2>2, <2>3, <2>5, <2>6
<1>24. ReqOK(args, s, w)
  <2>1. w.label \notin {"start", "steady_backward", "done"} BY <1>12
  <2> QED BY <1>22, <1>23, <2>1, DirFacts DEF ReqOK
<1>25. CountOK(args, s, w) BY <1>4, <1>12 DEF CountOK
<1>26. /\ w.bwd \in [Chunks -> Seq(Nat)] /\ \A x \in Chunks : Upto(w.bwd[x], Done(w.b, V - 1 - x))
       /\ w.sync = FALSE /\ w.synchronized \in SUBSET Chunks /\ w.reductions \in [Chunks -> Seq(Nat)]
       /\ SyncOK(args, s, w)
  <2>1. BackwardStep(s, Passed(s)) /\ args' = args BY DEF Cooldown
  <2>2. pc'[s] # "done"
    <3>1. View(s)'.label = pc'[s] BY DEF View
    <3> QED BY <1>1, <1>12, <3>1
  <2> QED BY <1>1, <1>2, <1>6, <2>1, <2>2, BackwardStepOK
<1>27. OrderOK(w) BY <1>2, <1>4, <1>12, <1>26 DEF OrderOK
<1>28. /\ w.inputs \in [Chunks -> Seq(Tensors)] /\ w.outputs \in [Chunks -> Seq(Tensors)]
       /\ G \in [Chunks -> Seq(Tensors)]
       /\ \A x \in Chunks :
            /\ Begins(w.inputs[x], From(s, "prev", x), Done(b + 1, V - 1 - x), Done(T, x))
            /\ Holds(w.outputs[x], Virtual(s, x), Done(b + 1, V - 1 - x), Done(T, x))
            /\ G[x] = <<>>
  <2>1. c = Chunk(backward_k[s], FALSE) BY <1>5, <1>7
  <2>2. PICK I, O : I = w.inputs /\ O = w.outputs OBVIOUS
  <2>3. Shortened(s, c, I, O, G) BY <1>11, <1>12, <2>1, <2>2 DEF Shortened
  <2>4. LET y == forward_k[s]
            z == backward_k[s]
        IN /\ I \in [Chunks -> Seq(Tensors)] /\ O \in [Chunks -> Seq(Tensors)] /\ G \in [Chunks -> Seq(Tensors)]
           /\ \A x \in Chunks :
                /\ Begins(I[x], From(s, "prev", x), Done(z + 1, V - 1 - x), Done(y, x))
                /\ y # TotalOf(args) => Holds(I[x], From(s, "prev", x), Done(z + 1, V - 1 - x), Done(y, x))
                /\ Holds(O[x], Virtual(s, x), Done(z + 1, V - 1 - x), Done(y, x))
                /\ G[x] = <<>>
    BY <1>6, <2>3, BackwardLists
  <2> QED BY <1>5, <2>2, <2>4
<1>29. InputOK(args, s, w)
  <2>1. ASSUME NEW x \in Chunks PROVE Done(T, x) = args.num_microbatches
    BY <1>2, <1>4, CallFacts, DoneAll DEF TotalOf
  <2>2. ASSUME NEW x \in Chunks
        PROVE  Begins(w.inputs[x], From(s, "prev", x), Kept(args, w, x), args.num_microbatches)
    <3>1. Kept(args, w, x) = Done(b + 1, V - 1 - x) BY <1>4, <1>12 DEF Kept
    <3> QED BY <1>28, <2>1, <3>1
  <2> QED BY <1>4, <1>12, <2>2 DEF InputOK
<1>30. OutputOK(args, s, w) BY <1>4, <1>12, <1>28 DEF OutputOK
<1>31. w.grads \in [Chunks -> Seq(Tensors)] /\ GradOK(args, s, w)
  <2>1. /\ w.grads \in [Chunks -> Seq(Tensors)]
        /\ \A x \in Chunks : w.grads[x] = IF x = n /\ ~r THEN Append(G[x], None) ELSE G[x]
    <3>1. PICK H \in [Chunks -> Seq(Tensors)] : H = G BY <1>28
    <3>2. w.grads = Appended(H, n, NoneUnless(r)) BY <1>12, <3>1
    <3>3. /\ w.grads \in [Chunks -> Seq(Tensors)]
          /\ \A x \in Chunks : w.grads[x] = IF x = n /\ ~r THEN Append(H[x], None) ELSE H[x]
      BY <3>2, AppendedIs
    <3> QED BY <3>1, <3>3
  <2>2. Append(<<>>, None) = <<None>> OBVIOUS
  <2>3. ASSUME NEW x \in Chunks PROVE w.grads[x] = <<>> \/ (w.grads[x] = <<None>> /\ x = n /\ ~r)
    BY <1>28, <2>1, <2>2
  <2>4. w.b < TotalOf(args) => Expects(args, s, "next", w) BY <1>4, <1>12, <1>18
  <2>5. ~r => Recv("next") \notin w.reqs BY <1>16
  <2>6. n = V - 1 - Pos(w.b) BY <1>8, <1>12
  <2>7. GradPosted(args, s, w) /\ w.b \in Nat
    <3>1. ASSUME NEW x \in Chunks
          PROVE  \/ w.grads[x] = <<>>
                 \/ w.grads[x] = <<None>> /\ x = V - 1 - Pos(w.b) /\ Recv("next") \notin w.reqs
      BY <2>3, <2>5, <2>6
    <3> QED BY <1>4, <1>12, <2>4, <3>1 DEF GradPosted
  <2>8. GradOK(args, s, w) BY <1>2, <1>21, <2>7, GradPostedOK
  <2> QED BY <2>1, <2>8
<1>32. TypesOK(args, w)
  <2>1. w.f \in 0 .. TotalOf(args) /\ w.b \in 0 .. TotalOf(args) BY <1>4, <1>12
  <2>2. w.label \in Labels BY <1>12 DEF Labels
  <2>3. Typed(args, w)
    BY <1>12, <1>15, <1>16, <1>17, <1>26, <1>28, <1>31, <2>1, <2>2 DEF Typed
  <2> QED BY <2>3, TypesEach
<1>33. StageOK(args, s, w)
  BY <1>24, <1>25, <1>26, <1>27, <1>29, <1>30, <1>31, <1>32 DEF StageOK
<1>34. ASSUME NEW d \in Dirs PROVE Got(args, s, d, w) = Got(args, s, d, v) /\ Put(s, d, w) = Put(s, d, v)
  BY <1>22, <1>23, DirFacts
<1> QED BY <1>1, <1>2, <1>33, <1>34, CooldownFrame DEF StepOK

\* Finish preserves the invariant.
LEMMA FinishOK ==
  ASSUME IInv, NEW s \in Stages, Finish(s)
  PROVE  StepOK(s)
<1>1. PICK v, w : v = View(s) /\ w = View(s)' OBVIOUS
<1>2. /\ args \in Calls /\ TypesOK(args, v) /\ CountOK(args, s, v)
      /\ OrderOK(v) /\ ReqOK(args, s, v) /\ InputOK(args, s, v) /\ OutputOK(args, s, v)
      /\ GradOK(args, s, v) /\ SyncOK(args, s, v) /\ ByStage /\ TotalOf(args) \in Nat
  BY <1>1, StageIs
<1>3. /\ v.label = "cooldown" /\ v.reqs = {} /\ v.b = backward_k[s] /\ v.bwd = bwd[s]
      /\ v.synchronized = synchronized[s]
  BY <1>1, ViewIs DEF Finish, At
<1>4. PICK T \in Nat, m \in Nat \ {0} :
        /\ T = TotalOf(args) /\ m = args.num_microbatches /\ m % P = 0 /\ T = m * V /\ v.f = T
        /\ v.b = (IF args.forward_only THEN 0 ELSE T)
  <2>1. v.f = TotalOf(args) /\ (args.forward_only => v.b = 0)
    BY <1>2, <1>3 DEF CountOK
  <2>2. args.forward_only \/ v.b = TotalOf(args) BY <1>3, Terms DEF Finish
  <2> QED BY <1>2, <2>1, <2>2, CallFacts DEF TotalOf
<1>5. /\ w.label = "done" /\ w.f = T /\ w.b = v.b /\ w.reqs = {} /\ w.send = v.send /\ w.dest = v.dest
      /\ w.inputs = v.inputs /\ w.outputs = v.outputs /\ w.grads = v.grads
      /\ w.fwd = v.fwd /\ w.bwd = v.bwd /\ w.sync = TRUE
      /\ w.synchronized = (IF ~args.grad_sync_func THEN v.synchronized ELSE Chunks)
      /\ w.reductions = (IF ~args.grad_sync_func THEN v.reductions
                         ELSE [c \in Chunks |-> IF c \in v.synchronized THEN v.reductions[c]
                                                ELSE Append(v.reductions[c], Len(v.bwd[c]))])
      /\ w.synced = v.synced
  <2>1. LET x == View(s)'
        IN /\ x.label = "done" /\ x.f = v.f /\ x.b = v.b /\ x.reqs = v.reqs
           /\ x.send = v.send /\ x.dest = v.dest
           /\ x.inputs = v.inputs /\ x.outputs = v.outputs /\ x.grads = v.grads
           /\ x.fwd = v.fwd /\ x.bwd = v.bwd /\ x.sync = TRUE
           /\ x.synchronized = (IF ~args.grad_sync_func THEN v.synchronized ELSE Chunks)
           /\ x.reductions = (IF ~args.grad_sync_func THEN v.reductions
                              ELSE [c \in Chunks |-> IF c \in synchronized[s] THEN v.reductions[c]
                                                     ELSE Append(v.reductions[c], Len(bwd[s][c]))])
           /\ x.synced = v.synced
    BY ZenonT(60), <1>1, <1>2, FinishFrame
  <2> QED BY <1>1, <1>3, <1>4, <2>1
<1>6. Typed(args, v) BY <1>2, TypesEach
<1>7. ASSUME NEW d \in Dirs
      PROVE  /\ ~Expects(args, s, d, v) /\ ~Expects(args, s, d, w)
             /\ Passes(d, w) = Passes(d, v) /\ Passes(Opposite(d), w) = Passes(Opposite(d), v)
             /\ Recv(d) \notin v.reqs /\ Recv(d) \notin w.reqs /\ Send(d) \notin v.reqs /\ Send(d) \notin w.reqs
             /\ v.label # "steady_backward" /\ w.label # "steady_backward"
  <2>1. v.f = w.f /\ v.b = w.b /\ (~args.forward_only => ~(v.b < T)) BY <1>4, <1>5
  <2>2. ~Expects(args, s, d, v) /\ ~Expects(args, s, d, w)
    BY <1>3, <1>4, <1>5, <2>1 DEF Expects
  <2>3. Passes(d, w) = Passes(d, v) /\ Passes(Opposite(d), w) = Passes(Opposite(d), v)
    BY <2>1 DEF Passes
  <2> QED BY <1>3, <1>5, <2>2, <2>3
<1>8. ASSUME NEW d \in Dirs
      PROVE  /\ RecvOK(args, s, d, w) /\ SendOK(s, d, w)
             /\ Got(args, s, d, w) = Got(args, s, d, v) /\ Put(s, d, w) = Put(s, d, v)
  <2>1. /\ RecvOK(args, s, d, w) /\ Got(args, s, d, w) = Ins(Closes(s, d), Passes(d, w))
        /\ Got(args, s, d, v) = Ins(Closes(s, d), Passes(d, v))
    BY <1>7, NoRecv
  <2>2. /\ SendOK(s, d, w) /\ Put(s, d, w) = Outs(Closes(s, d), Passes(Opposite(d), w))
        /\ Put(s, d, v) = Outs(Closes(s, d), Passes(Opposite(d), v))
    BY <1>7, NoSend
  <2> QED BY <1>7, <2>1, <2>2
<1>9. ReqOK(args, s, w) BY <1>5, <1>8 DEF ReqOK
<1>10. CountOK(args, s, w) BY <1>4, <1>5 DEF CountOK
<1>11. OrderOK(w) BY <1>2, <1>4, <1>5 DEF OrderOK
<1>12. InputOK(args, s, w)
  <2>1. \A c \in Chunks : Kept(args, w, c) = Kept(args, v, c) BY <1>4, <1>5 DEF Kept
  <2> QED BY <1>2, <1>4, <1>5, <2>1 DEF InputOK
<1>13. OutputOK(args, s, w) BY <1>2, <1>4, <1>5 DEF OutputOK
<1>14. GradOK(args, s, w)
  <2>1. ~(~args.forward_only /\ w.b < TotalOf(args)) BY <1>4, <1>5
  <2> QED BY <2>1 DEF GradOK
<1>15. w.synchronized \in SUBSET Chunks /\ w.reductions \in [Chunks -> Seq(Nat)]
  <2>1. PICK R \in [Chunks -> Seq(Nat)], B \in [Chunks -> Seq(Nat)] : R = v.reductions /\ B = v.bwd
    BY <1>6 DEF Typed
  <2>2. ASSUME NEW c \in Chunks
        PROVE  (IF c \in v.synchronized THEN R[c] ELSE Append(R[c], Len(B[c]))) \in Seq(Nat)
    <3>1. PICK a \in Seq(Nat), b \in Seq(Nat) : a = R[c] /\ b = B[c] OBVIOUS
    <3>2. Len(b) \in Nat OBVIOUS
    <3>3. Append(a, Len(b)) \in Seq(Nat) BY <3>2
    <3> QED BY <3>1, <3>3
  <2>3. [c \in Chunks |-> IF c \in v.synchronized THEN R[c] ELSE Append(R[c], Len(B[c]))] \in [Chunks -> Seq(Nat)]
    BY <2>2
  <2>4. v.synchronized \in SUBSET Chunks BY <1>6 DEF Typed
  <2> QED BY <1>5, <2>1, <2>3, <2>4
<1>16. ASSUME NEW c \in Chunks PROVE V - 1 - c \in Chunks /\ Done(T, V - 1 - c) = m
  <2>1. PICK j \in Chunks : j = V - 1 - c
    <3>1. V - 1 - c \in Chunks BY VAssumption DEF Chunks
    <3> QED BY <3>1
  <2>2. Done(T, j) = m BY <1>4, DoneAll
  <2> QED BY <2>1, <2>2
<1>17. SyncOK(args, s, w)
  <2>1. CASE args.forward_only BY <1>5, <2>1 DEF SyncOK
  <2>2. CASE ~args.forward_only /\ ~args.grad_sync_func
    <3>1. Launched(args, s, w) = T /\ Launched(args, s, v) = T
      BY <1>4, <1>5, <2>2 DEF Launched
    <3>2. w.synchronized = v.synchronized /\ w.reductions = v.reductions
      BY <1>5, <2>2
    <3> QED BY <1>2, <1>5, <2>2, <3>1, <3>2 DEF SyncOK
  <2>3. CASE ~args.forward_only /\ args.grad_sync_func
    <3>1. Launched(args, s, w) = T BY <1>4, <1>5, <2>3 DEF Launched
    <3>2. w.synchronized = Chunks BY <1>5, <2>3
    <3>3. ASSUME NEW c \in Chunks PROVE w.reductions[c] = <<m>>
      <4>1. w.reductions[c] = IF c \in v.synchronized THEN v.reductions[c]
                              ELSE Append(v.reductions[c], Len(v.bwd[c]))
        BY <1>5, <2>3
      <4>2. v.reductions[c] = IF c \in v.synchronized THEN <<m>> ELSE <<>>
        BY <1>2, <1>4, <2>3 DEF SyncOK
      <4>3. Len(v.bwd[c]) = m
        <5>1. v.b = T BY <1>4, <2>3
        <5>2. Upto(v.bwd[c], Done(T, V - 1 - c)) BY <1>2, <5>1 DEF OrderOK
        <5> QED BY <1>16, <5>2 DEF Upto
      <4>4. Append(<<>>, m) = <<m>> OBVIOUS
      <4> QED BY <4>1, <4>2, <4>3, <4>4
    <3> QED BY ZenonT(60), <1>4, <1>5, <1>16, <3>1, <3>2, <3>3 DEF SyncOK
  <2> QED BY <2>1, <2>2, <2>3
<1>18. TypesOK(args, w)
  <2>1. w.f \in 0 .. TotalOf(args) /\ w.b \in 0 .. TotalOf(args) BY <1>4, <1>5
  <2>2. w.label \in Labels /\ w.reqs \in SUBSET ({"send", "recv"} \X Dirs) /\ w.sync \in BOOLEAN
    BY <1>5 DEF Labels
  <2>3. Typed(args, w) BY <1>5, <1>6, <1>15, <2>1, <2>2 DEF Typed
  <2> QED BY <2>3, TypesEach
<1>19. StageOK(args, s, w)
  BY <1>9, <1>10, <1>11, <1>12, <1>13, <1>14, <1>17, <1>18 DEF StageOK
<1> QED BY <1>1, <1>2, <1>8, <1>19, FinishFrame DEF StepOK

\* Every step of a stage preserves the invariant.
LEMMA StepsOK ==
  ASSUME IInv, NEW s \in Stages, Step(s)
  PROVE  IInv'
BY StartOK, WarmupOK, EndWarmupOK, SteadyForwardOK, SteadyBackwardOK, CooldownOK, FinishOK, StepPreserves DEF Step

-----------------------------------------------------------------------------
\* The completion of a request preserves it.

\* The completion of a request changes no more than the requests and a
\* list of what is received.
SameBut(v, w) ==
  /\ w.label = v.label /\ w.f = v.f /\ w.b = v.b /\ w.send = v.send /\ w.dest = v.dest
  /\ w.outputs = v.outputs /\ w.fwd = v.fwd /\ w.bwd = v.bwd
  /\ w.sync = v.sync /\ w.synchronized = v.synchronized /\ w.reductions = v.reductions
  /\ w.synced = v.synced
SameLists(v, w) == w.inputs = v.inputs /\ w.grads = v.grads

\* What the completion of a request leaves of the passes and counts.
LEMMA SamePasses ==
  ASSUME NEW a, NEW s, NEW v, NEW w, SameBut(v, w)
  PROVE  \A d : /\ Passes(d, w) = Passes(d, v) /\ (Expects(a, s, d, w) <=> Expects(a, s, d, v))
                /\ (Recv(d) \in w.reqs <=> Recv(d) \in v.reqs) => Seen(a, s, d, w) = Seen(a, s, d, v)
                /\ (Send(d) \in w.reqs <=> Send(d) \in v.reqs) => Gone(d, w) = Gone(d, v)
<1>1. ASSUME NEW d PROVE Passes(d, w) = Passes(d, v)
  BY DEF SameBut, Passes
<1>2. ASSUME NEW d PROVE Expects(a, s, d, w) <=> Expects(a, s, d, v)
  BY DEF SameBut, Expects
<1>3. ASSUME NEW d, Recv(d) \in w.reqs <=> Recv(d) \in v.reqs
      PROVE Seen(a, s, d, w) = Seen(a, s, d, v)
  BY <1>1, <1>2, <1>3 DEF Seen
<1>4. ASSUME NEW d, Send(d) \in w.reqs <=> Send(d) \in v.reqs PROVE Gone(d, w) = Gone(d, v)
  BY <1>1, <1>4 DEF Gone, SameBut
<1> QED BY <1>1, <1>2, <1>3, <1>4

\* Requests are told apart by their kind and direction.
LEMMA Distinct ==
  \A d \in Dirs, e \in Dirs : /\ Send(d) # Recv(e) /\ (Send(d) = Send(e) <=> d = e)
                              /\ (Recv(d) = Recv(e) <=> d = e)
BY DEF Send, Recv

\* w is v with fewer requests, and any lists of tensors.
Fewer(a, s, v, w) == StageOK(a, s, v) /\ SameBut(v, w) /\ w.reqs \in SUBSET v.reqs

\* What does not depend on the requests is kept.
LEMMA SameKept ==
  ASSUME NEW a, NEW s, NEW v, NEW w, Fewer(a, s, v, w)
  PROVE  /\ CountOK(a, s, w) /\ OrderOK(w) /\ OutputOK(a, s, w) /\ SyncOK(a, s, w)
         /\ \A c \in Chunks : Kept(a, w, c) = Kept(a, v, c)
         /\ (\A d \in Dirs : RecvOK(a, s, d, w)) => ReqOK(a, s, w)
         /\ w.inputs \in [Chunks -> Seq(Tensors)] /\ w.grads \in [Chunks -> Seq(Tensors)] => TypesOK(a, w)
<1>0. StageOK(a, s, v) /\ SameBut(v, w) /\ w.reqs \in SUBSET v.reqs BY DEF Fewer
<1>1. CountOK(a, s, w) BY <1>0 DEF SameBut, StageOK, CountOK
<1>2. OrderOK(w) BY <1>0 DEF SameBut, StageOK, OrderOK
<1>3. OutputOK(a, s, w) BY <1>0 DEF SameBut, StageOK, OutputOK
<1>4. SyncOK(a, s, w)
  <2>1. Launched(a, s, w) = Launched(a, s, v) BY <1>0 DEF SameBut, Launched
  <2> QED BY <1>0, <2>1 DEF SameBut, StageOK, SyncOK
<1>5. \A c \in Chunks : Kept(a, w, c) = Kept(a, v, c) BY <1>0 DEF SameBut, Kept
<1>6. ASSUME \A d \in Dirs : RecvOK(a, s, d, w) PROVE ReqOK(a, s, w)
  <2>1. ReqOK(a, s, v) BY <1>0 DEF StageOK
  <2>2. ASSUME NEW d \in Dirs PROVE SendOK(s, d, w)
    <3>1. SendOK(s, d, v) BY <1>0, <2>1 DEF ReqOK
    <3>2. Passes(Opposite(d), w) = Passes(Opposite(d), v) /\ w.send = v.send
      BY <1>0, SamePasses DEF SameBut
    <3> QED BY <1>0, <3>1, <3>2 DEF SendOK
  <2>3. w.label \in {"start", "steady_backward", "done"} => w.reqs = {}
    BY <1>0, <2>1 DEF ReqOK, SameBut
  <2>4. w.label = "steady_backward" =>
          w.send["next"] = IF Sending(Closes(s, "next"), w.f - 1)
                           THEN Product(s, "next", w.f - 1) ELSE None
    BY <1>0, <2>1 DEF ReqOK, SameBut
  <2> QED BY <1>6, <2>2, <2>3, <2>4 DEF ReqOK
<1>7. ASSUME w.inputs \in [Chunks -> Seq(Tensors)], w.grads \in [Chunks -> Seq(Tensors)]
      PROVE  TypesOK(a, w)
  <2>1. Typed(a, v) BY <1>0, TypesEach DEF StageOK
  <2>2. w.reqs \in SUBSET ({"send", "recv"} \X Dirs) BY <1>0, <2>1 DEF Typed
  <2>3. Typed(a, w) BY <1>0, <1>7, <2>1, <2>2 DEF Typed, SameBut
  <2> QED BY <2>3, TypesEach
<1> QED BY <1>1, <1>2, <1>3, <1>4, <1>5, <1>6, <1>7

\* A send of v completes in w.
Posted(a, s, d, v, w) ==
  /\ StageOK(a, s, v) /\ SameBut(v, w) /\ SameLists(v, w)
  /\ Send(d) \in v.reqs /\ w.reqs = v.reqs \ {Send(d)} /\ v.f \in Nat /\ v.b \in Nat

\* What that must leave: one more tensor has left, the next one.
SendDone(a, s, d, v, w) ==
  /\ StageOK(a, s, w)
  /\ \A e \in Dirs : Got(a, s, e, w) = Got(a, s, e, v)
  /\ \A e \in Dirs : e # d => Put(s, e, w) = Put(s, e, v)
  /\ Put(s, d, v) \in Int /\ Put(s, d, w) = Put(s, d, v) + 1
  /\ v.send[d] \in Tensors /\ v.send[d] = Sent(s, d, Put(s, d, v))

\* The completion of a send preserves the invariant of the stage.
LEMMA SentOK ==
  ASSUME NEW a, NEW s \in Stages, NEW d \in Dirs, NEW v, NEW w, Posted(a, s, d, v, w)
  PROVE  SendDone(a, s, d, v, w)
<1>0. /\ StageOK(a, s, v) /\ SameBut(v, w) /\ SameLists(v, w)
      /\ Send(d) \in v.reqs /\ w.reqs = v.reqs \ {Send(d)} /\ v.f \in Nat /\ v.b \in Nat
  BY DEF Posted
<1>1. Fewer(a, s, v, w) BY <1>0 DEF Fewer
<1>2. /\ TypesOK(a, v) /\ ReqOK(a, s, v) /\ InputOK(a, s, v) /\ GradOK(a, s, v)
  BY <1>0 DEF StageOK
<1>3. ASSUME NEW e \in Dirs
      PROVE  /\ Recv(e) \in w.reqs <=> Recv(e) \in v.reqs
             /\ e # d => (Send(e) \in w.reqs <=> Send(e) \in v.reqs)
  BY <1>0, Distinct
<1>4. ASSUME NEW e \in Dirs
      PROVE  Seen(a, s, e, w) = Seen(a, s, e, v) /\ Got(a, s, e, w) = Got(a, s, e, v)
  <2>1. Seen(a, s, e, w) = Seen(a, s, e, v) BY <1>0, <1>3, SamePasses
  <2> QED BY <2>1 DEF Got
<1>5. ASSUME NEW e \in Dirs PROVE RecvOK(a, s, e, w)
  <2>1. RecvOK(a, s, e, v) BY <1>0, <1>2 DEF ReqOK
  <2>2. /\ Passes(e, w) = Passes(e, v) /\ (Expects(a, s, e, w) <=> Expects(a, s, e, v))
        /\ w.dest = v.dest
    BY <1>0, SamePasses DEF SameBut
  <2> QED BY <1>3, <2>1, <2>2 DEF RecvOK
<1>6. w.inputs = v.inputs /\ w.grads = v.grads /\ w.f = v.f /\ w.b = v.b /\ w.label = v.label
  BY <1>0 DEF SameBut, SameLists
<1>7. StageOK(a, s, w)
  <2>1. /\ CountOK(a, s, w) /\ OrderOK(w) /\ OutputOK(a, s, w) /\ SyncOK(a, s, w)
        /\ ReqOK(a, s, w)
        /\ \A c \in Chunks : Kept(a, w, c) = Kept(a, v, c)
    <3>1. /\ CountOK(a, s, w) /\ OrderOK(w) /\ OutputOK(a, s, w) /\ SyncOK(a, s, w)
          /\ (\A e \in Dirs : RecvOK(a, s, e, w)) => ReqOK(a, s, w)
          /\ \A c \in Chunks : Kept(a, w, c) = Kept(a, v, c)
      BY <1>1, SameKept
    <3>2. \A e \in Dirs : RecvOK(a, s, e, w) BY <1>5
    <3> QED BY <3>1, <3>2
  <2>2. TypesOK(a, w)
    <3>1. Typed(a, v) BY <1>2, TypesEach
    <3>2. w.inputs \in [Chunks -> Seq(Tensors)] /\ w.grads \in [Chunks -> Seq(Tensors)]
      BY <1>6, <3>1 DEF Typed
    <3> QED BY <1>1, <3>2, SameKept
  <2>3. Seen(a, s, "prev", w) = Seen(a, s, "prev", v) /\ Seen(a, s, "next", w) = Seen(a, s, "next", v)
    BY <1>4, DirFacts
  <2>4. InputOK(a, s, w) BY <1>2, <1>6, <2>1, <2>3 DEF InputOK
  <2>5. GradOK(a, s, w) BY <1>2, <1>6, <2>3 DEF GradOK
  <2> QED BY <2>1, <2>2, <2>4, <2>5 DEF StageOK
<1>8. ASSUME NEW e \in Dirs, e # d PROVE Put(s, e, w) = Put(s, e, v)
  <2>1. Gone(e, w) = Gone(e, v) BY <1>0, <1>3, <1>8, SamePasses
  <2> QED BY <2>1 DEF Put
<1>9. PICK k \in Nat : k = Passes(Opposite(d), v) - 1 /\ Passes(Opposite(d), v) = k + 1
  <2>1. Passes(Opposite(d), v) \in Nat BY <1>0 DEF Passes
  <2>2. Passes(Opposite(d), v) - 1 >= 0 BY <1>0, <1>2 DEF ReqOK, SendOK
  <2> QED BY <2>1, <2>2
<1>10. Sending(Closes(s, d), k) /\ v.send[d] = Product(s, d, k)
  BY <1>0, <1>2, <1>9 DEF ReqOK, SendOK
<1>11. v.label # "steady_backward" BY <1>0, <1>2 DEF ReqOK
<1>12. Gone(d, v) = k /\ Gone(d, w) = k + 1
  <2>1. Passes(Opposite(d), w) = k + 1 BY <1>0, <1>9, SamePasses
  <2> QED BY <1>0, <1>6, <1>9, <1>11, <2>1 DEF Gone
<1>13. k \in Int /\ Closes(s, d) \in BOOLEAN BY PeerFacts
<1>14. Outs(Closes(s, d), k) \in Int /\ Outs(Closes(s, d), k + 1) = Outs(Closes(s, d), k) + 1
  <2>1. PICK z \in BOOLEAN : z = Closes(s, d) BY <1>13
  <2>2. Outs(z, k) \in Int /\ Outs(z, k + 1) = Outs(z, k) + (IF Sending(z, k) THEN 1 ELSE 0)
    BY <1>13, OutsNext
  <2> QED BY <1>10, <2>1, <2>2
<1>15. Sent(s, d, Outs(Closes(s, d), k)) = Product(s, d, k) BY <1>10, <1>13, SentIs
<1>16. v.send[d] \in Tensors BY <1>2 DEF TypesOK
<1> QED BY <1>4, <1>7, <1>8, <1>10, <1>12, <1>14, <1>15, <1>16 DEF Put, SendDone

\* x is put in the list of chunk c for tensors from d.
Filled(v, w, d, c, x) ==
  IF d = "prev" THEN w.inputs = [v.inputs EXCEPT ![c] = Append(@, x)] /\ w.grads = v.grads
  ELSE w.grads = [v.grads EXCEPT ![c] = Append(@, x)] /\ w.inputs = v.inputs

\* K is L with the tensor x of the k-th pass in the list of chunk c.
Extended(L, K, s, d, c, x, k, J, A) ==
  /\ L \in [Chunks -> Seq(Tensors)] /\ k \in Int /\ J \in [Chunks -> Chunks]
  /\ c \in Chunks /\ (\A y \in Chunks : J[y] = Pos(k) <=> y = c)
  /\ x \in Tensors /\ x = Of(From(s, d, c), Mb(k))
  /\ A \in [Chunks -> Int]
  /\ K = [L EXCEPT ![c] = Append(@, x)]
  /\ Holds(L[c], From(s, d, c), A[c], Done(k, J[c]))

\* Then that list holds one more and the others as many.
LEMMA ExtendedHolds ==
  ASSUME NEW L, NEW K, NEW s, NEW d, NEW c, NEW x, NEW k, NEW J, NEW A,
         Extended(L, K, s, d, c, x, k, J, A)
  PROVE  /\ K \in [Chunks -> Seq(Tensors)]
         /\ Holds(K[c], From(s, d, c), A[c], Done(k + 1, J[c]))
         /\ \A y \in Chunks : y # c => K[y] = L[y] /\ Done(k + 1, J[y]) = Done(k, J[y])
<1>1. /\ L \in [Chunks -> Seq(Tensors)] /\ k \in Int /\ J \in [Chunks -> Chunks]
      /\ c \in Chunks /\ (\A y \in Chunks : J[y] = Pos(k) <=> y = c)
      /\ x \in Tensors /\ x = Of(From(s, d, c), Mb(k))
      /\ A \in [Chunks -> Int]
      /\ K = [L EXCEPT ![c] = Append(@, x)]
      /\ Holds(L[c], From(s, d, c), A[c], Done(k, J[c]))
  BY DEF Extended
<1>2. PICK l \in Seq(Tensors), j \in Chunks, n \in Int, a \in Int, m \in Int :
        /\ l = L[c] /\ j = J[c] /\ j = Pos(k) /\ n = Done(k, j) /\ m = Mb(k) /\ a = A[c]
        /\ m = n + 1 /\ Done(k + 1, j) = m
  <2>1. PICK j \in Chunks : j = J[c] /\ j = Pos(k) BY <1>1
  <2>2. /\ Done(k, j) \in Int /\ Mb(k) = Done(k, j) + 1
        /\ Done(k + 1, j) = Done(k, j) + 1
    BY <1>1, <2>1, DoneNext
  <2>3. L[c] \in Seq(Tensors) /\ A[c] \in Int BY <1>1
  <2> QED BY <2>1, <2>2, <2>3
<1>8. PICK u : u = From(s, d, c) OBVIOUS
<1>3. Append(l, Of(u, m)) \in Seq(Tensors) /\ Holds(Append(l, Of(u, m)), u, a, m)
  <2>1. Holds(l, u, a, n) /\ Of(u, m) \in Tensors BY <1>1, <1>2, <1>8
  <2> QED BY <1>2, <2>1, HoldsAppend
<1>4. PICK z \in Seq(Tensors) : z = Append(l, Of(u, m)) BY <1>3
<1>5. K = [L EXCEPT ![c] = z] BY <1>1, <1>2, <1>4, <1>8
<1>6. K \in [Chunks -> Seq(Tensors)] /\ K[c] = z /\ \A y \in Chunks : y # c => K[y] = L[y]
  BY SMTT(60), <1>1, <1>5
<1>7. ASSUME NEW y \in Chunks, y # c PROVE Done(k + 1, J[y]) = Done(k, J[y])
  <2>1. PICK i \in Chunks : i = J[y] /\ i # Pos(k) BY <1>1, <1>7
  <2>2. Done(k + 1, i) = Done(k, i) + 0 /\ Done(k, i) \in Int
    BY <1>1, <2>1, DoneNext
  <2> QED BY <2>1, <2>2
<1> QED BY <1>2, <1>3, <1>4, <1>6, <1>7, <1>8

\* The tensor a posted receive gets is the one the next pass uses.
LEMMA Arriving ==
  ASSUME NEW a \in Calls, NEW s \in Stages, NEW d \in Dirs, NEW v, StageOK(a, s, v), Recv(d) \in v.reqs,
         v.f \in Nat, v.b \in Nat,
         NEW x, x = Sent(Peer(s, d), Opposite(d), Got(a, s, d, v))
  PROVE  LET k == Passes(d, v)
             c == v.dest[d]
         IN /\ k \in Nat /\ Expects(a, s, d, v) /\ Receiving(Closes(s, d), k)
            /\ c = ChunkAt(d, k) /\ c \in Chunks /\ Pos(k) \in Chunks
            /\ x \in Tensors /\ x = Of(From(s, d, c), Mb(k))
            /\ Seen(a, s, d, v) = k
            /\ Ins(Closes(s, d), k) \in Int /\ Ins(Closes(s, d), k + 1) = Ins(Closes(s, d), k) + 1
<1>1. PICK k \in Nat : k = Passes(d, v) BY DEF Passes
<1>2. RecvOK(a, s, d, v) BY DEF StageOK, ReqOK
<1>3. Expects(a, s, d, v) /\ Receiving(Closes(s, d), k) /\ v.dest[d] = ChunkAt(d, k)
  BY <1>1, <1>2 DEF RecvOK
<1>4. Seen(a, s, d, v) = k BY <1>1 DEF Seen
<1>5. k \in Int OBVIOUS
<1>6. PICK z \in BOOLEAN : z = Closes(s, d) BY PeerFacts
<1>7. Ins(z, k) \in Int /\ Ins(z, k + 1) = Ins(z, k) + 1
  <2>1. Ins(z, k) \in Int /\ Ins(z, k + 1) = Ins(z, k) + (IF Receiving(z, k) THEN 1 ELSE 0)
    BY <1>5, InsNext
  <2> QED BY <1>3, <1>6, <2>1
<1>8. PICK c \in Chunks : c = ChunkAt(d, k) /\ Sent(Peer(s, d), Opposite(d), Ins(z, k)) = Of(From(s, d, c), Mb(k))
  BY <1>3, <1>5, <1>6, Delivered
<1>9. x = Of(From(s, d, c), Mb(k)) BY <1>4, <1>6, <1>8 DEF Got
<1>10. Pos(k) \in Chunks BY <1>5, Places
<1>11. Mb(k) \in Nat BY <1>5, <1>10, DoneNext
<1>12. x \in Tensors BY <1>9, <1>11, FromTypes
<1> QED BY <1>1, <1>3, <1>4, <1>6, <1>7, <1>8, <1>9, <1>10, <1>12

\* A receive of v completes in w.
Received(a, s, d, v, w) ==
  /\ StageOK(a, s, v) /\ SameBut(v, w) /\ Recv(d) \in v.reqs /\ w.reqs = v.reqs \ {Recv(d)}
  /\ v.f \in Nat /\ v.b \in Nat
  /\ Filled(v, w, d, v.dest[d], Sent(Peer(s, d), Opposite(d), Got(a, s, d, v)))

\* One more has come from d; nothing else has come or left.
LEMMA ReceivedLinks ==
  ASSUME NEW a \in Calls, NEW s \in Stages, NEW d \in Dirs, NEW v, NEW w, Received(a, s, d, v, w)
  PROVE  /\ Fewer(a, s, v, w) /\ \A e \in Dirs : RecvOK(a, s, e, w)
         /\ \A e \in Dirs : Put(s, e, w) = Put(s, e, v)
         /\ \A e \in Dirs : e # d => Seen(a, s, e, w) = Seen(a, s, e, v) /\ Got(a, s, e, w) = Got(a, s, e, v)
         /\ Seen(a, s, d, v) = Passes(d, v) /\ Seen(a, s, d, w) = Passes(d, v) + 1
         /\ Got(a, s, d, v) \in Int /\ Got(a, s, d, w) = Got(a, s, d, v) + 1
<1>1. /\ StageOK(a, s, v) /\ SameBut(v, w) /\ Recv(d) \in v.reqs /\ w.reqs = v.reqs \ {Recv(d)}
      /\ v.f \in Nat /\ v.b \in Nat
  BY DEF Received
<1>2. Fewer(a, s, v, w) BY <1>1 DEF Fewer
<1>3. ASSUME NEW e \in Dirs
      PROVE  /\ (Recv(e) \in w.reqs <=> Recv(e) \in v.reqs /\ e # d)
             /\ (Send(e) \in w.reqs <=> Send(e) \in v.reqs)
  BY <1>1, Distinct
<1>4. ASSUME NEW e \in Dirs PROVE RecvOK(a, s, e, w)
  <2>1. RecvOK(a, s, e, v) BY <1>1 DEF StageOK, ReqOK
  <2>2. /\ Passes(e, w) = Passes(e, v) /\ (Expects(a, s, e, w) <=> Expects(a, s, e, v))
        /\ w.dest = v.dest
    BY <1>1, SamePasses DEF SameBut
  <2> QED BY <1>3, <2>1, <2>2 DEF RecvOK
<1>5. ASSUME NEW e \in Dirs PROVE Put(s, e, w) = Put(s, e, v)
  <2>1. Gone(e, w) = Gone(e, v) BY <1>1, <1>3, SamePasses
  <2> QED BY <2>1 DEF Put
<1>6. ASSUME NEW e \in Dirs, e # d
      PROVE  Seen(a, s, e, w) = Seen(a, s, e, v) /\ Got(a, s, e, w) = Got(a, s, e, v)
  <2>1. Seen(a, s, e, w) = Seen(a, s, e, v) BY <1>1, <1>3, <1>6, SamePasses
  <2> QED BY <2>1 DEF Got
<1>7. PICK k : k = Passes(d, v) OBVIOUS
<1>8. PICK x : x = Sent(Peer(s, d), Opposite(d), Got(a, s, d, v)) OBVIOUS
<1>9. /\ Expects(a, s, d, v) /\ Seen(a, s, d, v) = k
      /\ Ins(Closes(s, d), k) \in Int /\ Ins(Closes(s, d), k + 1) = Ins(Closes(s, d), k) + 1
  BY <1>1, <1>7, <1>8, Arriving
<1>10. Seen(a, s, d, w) = k + 1
  <2>1. Passes(d, w) = k /\ Expects(a, s, d, w) /\ Recv(d) \notin w.reqs
    BY <1>1, <1>3, <1>7, <1>9, SamePasses
  <2> QED BY <2>1 DEF Seen
<1> QED BY <1>2, <1>4, <1>5, <1>6, <1>7, <1>9, <1>10 DEF Got

\* The functions of the chunks that Extended is used with.
LEMMA KeptTypes ==
  ASSUME NEW a, NEW v, v.f \in Nat, v.b \in Nat
  PROVE  /\ [c \in Chunks |-> Kept(a, v, c)] \in [Chunks -> Int]
         /\ [c \in Chunks |-> Done(v.b, V - 1 - c)] \in [Chunks -> Int]
         /\ [c \in Chunks |-> c] \in [Chunks -> Chunks]
         /\ [c \in Chunks |-> V - 1 - c] \in [Chunks -> Chunks]
<1>1. PICK f \in Int, b \in Int : f = v.f /\ b = v.b OBVIOUS
<1>2. ASSUME NEW c \in Chunks PROVE V - 1 - c \in Chunks
  BY VAssumption DEF Chunks
<1>3. ASSUME NEW c \in Chunks PROVE Done(b, V - 1 - c) \in Int /\ Done(f, c) \in Int
  BY <1>2, DoneNext
<1>4. ASSUME NEW c \in Chunks PROVE Kept(a, v, c) \in Int
  BY <1>1, <1>3 DEF Kept
<1> QED BY <1>1, <1>2, <1>3, <1>4

\* The inputs after an activation has come.
LEMMA ReceivedPrev ==
  ASSUME NEW a \in Calls, NEW s \in Stages, NEW v, NEW w, Received(a, s, "prev", v, w)
  PROVE  w.inputs \in [Chunks -> Seq(Tensors)] /\ InputOK(a, s, w)
<1>0. "prev" \in Dirs BY DirFacts
<1>1. /\ StageOK(a, s, v) /\ SameBut(v, w) /\ Recv("prev") \in v.reqs
      /\ v.f \in Nat /\ v.b \in Nat /\ InputOK(a, s, v) /\ TypesOK(a, v)
  BY DEF Received, StageOK
<1>2. PICK x, c : /\ x = Sent(Peer(s, "prev"), Opposite("prev"), Got(a, s, "prev", v)) /\ c = v.dest["prev"]
                  /\ w.inputs = [v.inputs EXCEPT ![c] = Append(@, x)]
  BY DEF Received, Filled
<1>3. PICK k \in Nat : k = v.f /\ k \in Int BY <1>1
<1>4. Passes("prev", v) = k BY <1>3 DEF Passes
<1>5. /\ Expects(a, s, "prev", v) /\ c = ChunkAt("prev", k) /\ c \in Chunks /\ Pos(k) \in Chunks
      /\ x \in Tensors /\ x = Of(From(s, "prev", c), Mb(k))
  BY <1>0, <1>1, <1>2, <1>4, Arriving
<1>6. c = Pos(k) BY <1>5 DEF ChunkAt
<1>7. v.f # TotalOf(a) /\ w.f = v.f /\ w.f = k
  <2>1. v.f < TotalOf(a) /\ TotalOf(a) \in Nat BY <1>5, CallFacts DEF Expects
  <2> QED BY <1>1, <1>3, <2>1 DEF SameBut
<1>8. Seen(a, s, "prev", v) = k /\ Seen(a, s, "prev", w) = k + 1
  BY <1>0, <1>4, ReceivedLinks
<1>9. ASSUME NEW y \in Chunks
      PROVE  Holds(v.inputs[y], From(s, "prev", y), Kept(a, v, y), Done(k, y))
  BY <1>1, <1>3, <1>7, <1>8 DEF InputOK
<1>10. PICK L, K, J, A : /\ L = v.inputs /\ K = w.inputs /\ J = [y \in Chunks |-> y]
                         /\ A = [y \in Chunks |-> Kept(a, v, y)]
  OBVIOUS
<1>11. Extended(L, K, s, "prev", c, x, k, J, A)
  <2>1. L \in [Chunks -> Seq(Tensors)] BY <1>1, <1>10, TypesEach DEF Typed
  <2>2. J \in [Chunks -> Chunks] /\ A \in [Chunks -> Int] BY <1>1, <1>10, KeptTypes
  <2>3. \A y \in Chunks : J[y] = Pos(k) <=> y = c BY <1>6, <1>10
  <2>4. Holds(L[c], From(s, "prev", c), A[c], Done(k, J[c])) BY <1>5, <1>9, <1>10
  <2> QED BY <1>2, <1>3, <1>5, <1>10, <2>1, <2>2, <2>3, <2>4 DEF Extended
<1>12. /\ K \in [Chunks -> Seq(Tensors)]
       /\ Holds(K[c], From(s, "prev", c), A[c], Done(k + 1, J[c]))
       /\ \A y \in Chunks : y # c => K[y] = L[y] /\ Done(k + 1, J[y]) = Done(k, J[y])
  BY <1>11, ExtendedHolds
<1>13. ASSUME NEW y \in Chunks
       PROVE  Holds(w.inputs[y], From(s, "prev", y), Kept(a, w, y), Done(Seen(a, s, "prev", w), y))
  <2>1. Kept(a, w, y) = Kept(a, v, y) BY <1>1 DEF SameBut, Kept
  <2>2. CASE y = c BY <1>8, <1>10, <1>12, <2>1, <2>2
  <2>3. CASE y # c BY <1>8, <1>9, <1>10, <1>12, <2>1, <2>3
  <2> QED BY <2>2, <2>3
<1> QED BY <1>7, <1>10, <1>12, <1>13 DEF InputOK

\* The gradients after one has come.
LEMMA ReceivedNext ==
  ASSUME NEW a \in Calls, NEW s \in Stages, NEW v, NEW w, Received(a, s, "next", v, w)
  PROVE  w.grads \in [Chunks -> Seq(Tensors)] /\ GradOK(a, s, w)
<1>0. "next" \in Dirs /\ "next" # "prev" BY DirFacts
<1>1. /\ StageOK(a, s, v) /\ SameBut(v, w) /\ Recv("next") \in v.reqs
      /\ v.f \in Nat /\ v.b \in Nat /\ GradOK(a, s, v) /\ TypesOK(a, v)
  BY DEF Received, StageOK
<1>2. PICK x, c : /\ x = Sent(Peer(s, "next"), Opposite("next"), Got(a, s, "next", v)) /\ c = v.dest["next"]
                  /\ w.grads = [v.grads EXCEPT ![c] = Append(@, x)]
  BY <1>0 DEF Received, Filled
<1>3. PICK k \in Nat : k = v.b /\ k \in Int BY <1>1
<1>4. Passes("next", v) = k BY <1>0, <1>3 DEF Passes
<1>5. /\ Expects(a, s, "next", v) /\ Receiving(Closes(s, "next"), k)
      /\ c = ChunkAt("next", k) /\ c \in Chunks /\ Pos(k) \in Chunks
      /\ x \in Tensors /\ x = Of(From(s, "next", c), Mb(k))
  BY <1>0, <1>1, <1>2, <1>4, Arriving
<1>6. c = V - 1 - Pos(k) BY <1>0, <1>5 DEF ChunkAt
<1>7. ~a.forward_only /\ v.b < TotalOf(a) /\ w.b = v.b
  BY <1>0, <1>1, <1>5 DEF Expects, SameBut
<1>8. Seen(a, s, "next", v) = k /\ Seen(a, s, "next", w) = k + 1
  BY <1>0, <1>4, ReceivedLinks
<1>9. ASSUME NEW y \in Chunks
      PROVE  \/ Holds(v.grads[y], From(s, "next", y), Done(v.b, V - 1 - y), Done(k, V - 1 - y))
             \/ LastVirtual(s, y) /\ v.grads[y] = <<>>
  BY <1>1, <1>7, <1>8 DEF GradOK
<1>10. ~LastVirtual(s, c)
  <2>1. LastVirtual(s, c) <=> Closes(s, "next") /\ c = V - 1 BY <1>5, VirtualFacts
  <2>2. PICK p \in Chunks : p = Pos(k) /\ c = V - 1 - p BY <1>5, <1>6
  <2>3. c = V - 1 <=> p = 0 BY <2>2, VAssumption DEF Chunks
  <2> QED BY <1>5, <2>1, <2>2, <2>3 DEF Receiving
<1>11. PICK L, K, J, A : /\ L = v.grads /\ K = w.grads /\ J = [y \in Chunks |-> V - 1 - y]
                         /\ A = [y \in Chunks |-> Done(v.b, V - 1 - y)]
  OBVIOUS
<1>12. Extended(L, K, s, "next", c, x, k, J, A)
  <2>1. L \in [Chunks -> Seq(Tensors)] BY <1>1, <1>11, TypesEach DEF Typed
  <2>2. J \in [Chunks -> Chunks] /\ A \in [Chunks -> Int] BY <1>1, <1>11, KeptTypes
  <2>3. ASSUME NEW y \in Chunks PROVE J[y] = Pos(k) <=> y = c
    <3>1. PICK p \in Chunks : p = Pos(k) /\ c = V - 1 - p BY <1>5, <1>6
    <3>2. J[y] = V - 1 - y BY <1>11
    <3>3. V - 1 - y = p <=> y = V - 1 - p BY VAssumption DEF Chunks
    <3> QED BY <3>1, <3>2, <3>3
  <2>4. Holds(L[c], From(s, "next", c), A[c], Done(k, J[c]))
    BY <1>5, <1>9, <1>10, <1>11
  <2> QED BY <1>2, <1>3, <1>5, <1>11, <2>1, <2>2, <2>3, <2>4 DEF Extended
<1>13. /\ K \in [Chunks -> Seq(Tensors)]
       /\ Holds(K[c], From(s, "next", c), A[c], Done(k + 1, J[c]))
       /\ \A y \in Chunks : y # c => K[y] = L[y] /\ Done(k + 1, J[y]) = Done(k, J[y])
  BY <1>12, ExtendedHolds
<1>14. ASSUME NEW y \in Chunks
       PROVE  \/ Holds(w.grads[y], From(s, "next", y), Done(w.b, V - 1 - y), Done(Seen(a, s, "next", w), V - 1 - y))
              \/ LastVirtual(s, y) /\ w.grads[y] = <<>>
  <2>1. J[y] = V - 1 - y /\ A[y] = Done(w.b, V - 1 - y) BY <1>7, <1>11
  <2>2. CASE y = c BY <1>8, <1>11, <1>13, <2>1, <2>2
  <2>3. CASE y # c
    <3>1. w.grads[y] = v.grads[y] /\ Done(k + 1, V - 1 - y) = Done(k, V - 1 - y)
      BY <1>11, <1>13, <2>1, <2>3
    <3> QED BY <1>7, <1>8, <1>9, <3>1
  <2> QED BY <2>2, <2>3
<1> QED BY <1>11, <1>13, <1>14 DEF GradOK

\* The completion of a receive preserves the invariant of the stage.
LEMMA ReceivedOK ==
  ASSUME NEW a \in Calls, NEW s \in Stages, NEW d \in Dirs, NEW v, NEW w, Received(a, s, d, v, w)
  PROVE  StageOK(a, s, w)
<1>1. /\ StageOK(a, s, v) /\ SameBut(v, w) /\ InputOK(a, s, v) /\ GradOK(a, s, v) /\ Typed(a, v)
  BY TypesEach DEF Received, StageOK
<1>2. Fewer(a, s, v, w) /\ \A e \in Dirs : RecvOK(a, s, e, w) BY ReceivedLinks
<1>3. /\ CountOK(a, s, w) /\ OrderOK(w) /\ OutputOK(a, s, w) /\ SyncOK(a, s, w) /\ ReqOK(a, s, w)
      /\ \A c \in Chunks : Kept(a, w, c) = Kept(a, v, c)
      /\ w.inputs \in [Chunks -> Seq(Tensors)] /\ w.grads \in [Chunks -> Seq(Tensors)] => TypesOK(a, w)
  BY <1>2, SameKept
<1>4. /\ w.inputs \in [Chunks -> Seq(Tensors)] /\ InputOK(a, s, w)
      /\ w.grads \in [Chunks -> Seq(Tensors)] /\ GradOK(a, s, w)
  <2>1. CASE d = "prev"
    <3>1. w.inputs \in [Chunks -> Seq(Tensors)] /\ InputOK(a, s, w)
      BY <2>1, ReceivedPrev
    <3>2. w.grads = v.grads BY <2>1 DEF Received, Filled
    <3>3. Seen(a, s, "next", w) = Seen(a, s, "next", v)
      BY <2>1, DirFacts, ReceivedLinks
    <3>4. GradOK(a, s, w) BY <1>1, <3>2, <3>3 DEF GradOK, SameBut
    <3> QED BY <1>1, <3>1, <3>2, <3>4 DEF Typed
  <2>2. CASE d = "next"
    <3>1. w.grads \in [Chunks -> Seq(Tensors)] /\ GradOK(a, s, w)
      BY <2>2, ReceivedNext
    <3>2. w.inputs = v.inputs BY <2>2, DirFacts DEF Received, Filled
    <3>3. Seen(a, s, "prev", w) = Seen(a, s, "prev", v)
      BY <2>2, DirFacts, ReceivedLinks
    <3>4. InputOK(a, s, w) BY <1>1, <1>3, <3>2, <3>3 DEF InputOK, SameBut
    <3> QED BY <1>1, <3>1, <3>2, <3>4 DEF Typed
  <2> QED BY <2>1, <2>2, DirFacts
<1> QED BY <1>3, <1>4 DEF StageOK

\* The variables that the completion of a request leaves alone.
LEMMA ComputedFrame ==
  ASSUME ByStage, UNCHANGED Computed
  PROVE  /\ args' = args /\ pc' = pc /\ forward_k' = forward_k /\ backward_k' = backward_k
         /\ send' = send /\ dest' = dest /\ fwd' = fwd /\ bwd' = bwd /\ grad_sync' = grad_sync
         /\ synchronized' = synchronized /\ reductions' = reductions /\ param_synced' = param_synced
         /\ output_tensors' = output_tensors => \A t : SameBut(View(t), View(t)')
<1>1. /\ args' = args /\ pc' = pc /\ forward_k' = forward_k /\ backward_k' = backward_k
      /\ send' = send /\ dest' = dest /\ fwd' = fwd /\ bwd' = bwd /\ grad_sync' = grad_sync
      /\ synchronized' = synchronized /\ reductions' = reductions /\ param_synced' = param_synced
  BY DEF Computed, counters, sync
<1>2. ASSUME output_tensors' = output_tensors, NEW t PROVE SameBut(View(t), View(t)')
  BY <1>1, <1>2 DEF SameBut, View
<1> QED BY <1>1, <1>2

\* What Buffer does: a send completes into the link.
LEMMA BufferFrame ==
  ASSUME ByStage, NEW s \in Stages, NEW d \in Dirs, Buffer(s, d)
  PROVE  /\ ByStage' /\ args' = args /\ chan' = [chan EXCEPT ![s][d] = Append(@, send[s][d])]
         /\ \A t \in Stages : t # s => View(t)' = View(t)
         /\ SameBut(View(s), View(s)') /\ SameLists(View(s), View(s)')
         /\ Send(d) \in View(s).reqs /\ View(s)'.reqs = View(s).reqs \ {Send(d)}
         /\ send[s][d] = View(s).send[d]
<1>1. /\ chan' = [chan EXCEPT ![s][d] = Append(@, send[s][d])]
      /\ reqs' = [reqs EXCEPT ![s] = @ \ {Send(d)}] /\ Send(d) \in reqs[s] /\ UNCHANGED Computed
      /\ input_tensors' = input_tensors /\ output_tensors' = output_tensors
      /\ output_tensor_grads' = output_tensor_grads
  BY DEF Buffer, Ready, Send, lists
<1>2. ByStage' BY <1>1, ComputedFrame DEF ByStage
<1>3. ASSUME NEW t \in Stages, t # s PROVE View(t)' = View(t)
  BY <1>1, <1>3, ComputedFrame DEF ByStage, View
<1>4. reqs'[s] = reqs[s] \ {Send(d)} BY <1>1 DEF ByStage
<1> QED BY <1>1, <1>2, <1>3, <1>4, ComputedFrame, ViewIs DEF View, SameLists

\* What Receive does: the first tensor of the link arrives.
LEMMA ReceiveFrame ==
  ASSUME ByStage, NEW s \in Stages, NEW d \in Dirs, Receive(s, d)
  PROVE  LET from == Peer(s, d)
             link == chan[from][Opposite(d)]
         IN /\ ByStage' /\ args' = args /\ link # <<>>
            /\ chan' = [chan EXCEPT ![from][Opposite(d)] = Tail(@)]
            /\ \A t \in Stages : t # s => View(t)' = View(t)
            /\ SameBut(View(s), View(s)') /\ Filled(View(s), View(s)', d, View(s).dest[d], Head(link))
            /\ Recv(d) \in View(s).reqs /\ View(s)'.reqs = View(s).reqs \ {Recv(d)}
<1>1. PICK from, link : from = Peer(s, d) /\ link = chan[from][Opposite(d)] OBVIOUS
<1>2. /\ chan' = [chan EXCEPT ![from][Opposite(d)] = Tail(@)] /\ link # <<>> /\ Fill(s, d, Head(link))
      /\ reqs' = [reqs EXCEPT ![s] = @ \ {Recv(d)}] /\ Recv(d) \in reqs[s] /\ UNCHANGED Computed
  BY <1>1 DEF Receive, Ready, Recv
<1>3. output_tensors' = output_tensors BY <1>2 DEF Fill
<1>4. ByStage' BY <1>2, <1>3, ComputedFrame DEF ByStage, Fill
<1>5. ASSUME NEW t \in Stages, t # s PROVE View(t)' = View(t)
  BY <1>2, <1>3, <1>5, ComputedFrame DEF ByStage, View, Fill
<1>6. reqs'[s] = reqs[s] \ {Recv(d)} BY <1>2 DEF ByStage
<1>7. Filled(View(s), View(s)', d, View(s).dest[d], Head(link))
  BY ZenonT(60), <1>2, ComputedFrame, ViewIs DEF Filled, View, Fill, ByStage
<1> QED BY <1>1, <1>2, <1>3, <1>4, <1>5, <1>6, <1>7, ComputedFrame, ViewIs DEF View

\* What Handover does: a send and the peer's receive complete together.
LEMMA HandoverFrame ==
  ASSUME ByStage, NEW s \in Stages, NEW d \in Dirs, Handover(s, d)
  PROVE  LET to == Peer(s, d)
             o == Opposite(d)
         IN /\ ByStage' /\ args' = args /\ chan' = chan /\ chan[s][d] = <<>>
            /\ \A t \in Stages : t # s /\ t # to => View(t)' = View(t)
            /\ SameBut(View(s), View(s)') /\ SameLists(View(s), View(s)')
            /\ Send(d) \in View(s).reqs /\ View(s)'.reqs = View(s).reqs \ {Send(d)}
            /\ SameBut(View(to), View(to)') /\ Filled(View(to), View(to)', o, View(to).dest[o], View(s).send[d])
            /\ Recv(o) \in View(to).reqs /\ View(to)'.reqs = View(to).reqs \ {Recv(o)}
<1>1. PICK to \in Stages, o \in Dirs : to = Peer(s, d) /\ o = Opposite(d) /\ to # s
  BY PeerFacts, DirFacts
<1>2. /\ chan' = chan /\ chan[s][d] = <<>> /\ Fill(to, o, send[s][d])
      /\ reqs' = [reqs EXCEPT ![s] = @ \ {Send(d)}, ![to] = @ \ {Recv(o)}]
      /\ Send(d) \in reqs[s] /\ Recv(o) \in reqs[to] /\ UNCHANGED Computed
  BY <1>1 DEF Handover, Ready, Recv, Send
<1>3. output_tensors' = output_tensors BY <1>2 DEF Fill
<1>4. ByStage' BY <1>2, <1>3, ComputedFrame DEF ByStage, Fill
<1>5. ASSUME NEW t \in Stages, t # s, t # to PROVE View(t)' = View(t)
  BY <1>2, <1>3, <1>5, ComputedFrame DEF ByStage, View, Fill
<1>6. reqs'[s] = reqs[s] \ {Send(d)} /\ reqs'[to] = reqs[to] \ {Recv(o)}
  BY <1>1, <1>2 DEF ByStage
<1>7. Filled(View(to), View(to)', o, View(to).dest[o], View(s).send[d])
  BY ZenonT(60), <1>2, ComputedFrame, ViewIs DEF Filled, View, Fill, ByStage
<1>8. SameLists(View(s), View(s)')
  BY <1>1, <1>2, ComputedFrame, ViewIs DEF SameLists, View, Fill, ByStage
<1> QED BY ZenonT(60), <1>1, <1>2, <1>3, <1>4, <1>5, <1>6, <1>7, <1>8, ComputedFrame, ViewIs DEF View

\* The counts of a link are numbers.
LEMMA GotTypes ==
  ASSUME IInv, NEW q \in Stages, NEW o \in Dirs
  PROVE  Got(args, q, o, View(q)) \in Int /\ Put(q, o, View(q)) \in Int
<1>1. PICK v : v = View(q) /\ v.f \in Nat /\ v.b \in Nat BY StageIs
<1>2. PICK z \in BOOLEAN : z = Closes(q, o) BY PeerFacts
<1>3. Seen(args, q, o, v) \in Int /\ Gone(o, v) \in Int
  BY <1>1 DEF Seen, Passes, Gone
<1>4. PICK k \in Int, l \in Int : k = Seen(args, q, o, v) /\ l = Gone(o, v) BY <1>3
<1>5. Ins(z, k) \in Int /\ Outs(z, l) \in Int BY InsNext, OutsNext
<1> QED BY <1>1, <1>2, <1>4, <1>5 DEF Got, Put

\* Buffer preserves the invariant.
LEMMA BufferOK ==
  ASSUME IInv, NEW s \in Stages, NEW d \in Dirs, Buffer(s, d)
  PROVE  IInv'
<1>1. PICK v, w : v = View(s) /\ w = View(s)' OBVIOUS
<1>2. /\ args \in Calls /\ StageOK(args, s, v) /\ ByStage /\ v.f \in Nat /\ v.b \in Nat
  BY <1>1, StageIs
<1>3. /\ ByStage' /\ args' = args /\ chan' = [chan EXCEPT ![s][d] = Append(@, send[s][d])]
      /\ \A t \in Stages : t # s => View(t)' = View(t)
      /\ SameBut(v, w) /\ SameLists(v, w)
      /\ Send(d) \in v.reqs /\ w.reqs = v.reqs \ {Send(d)} /\ send[s][d] = v.send[d]
  BY <1>1, <1>2, BufferFrame
<1>4. /\ StageOK(args, s, w)
      /\ \A e \in Dirs : Got(args, s, e, w) = Got(args, s, e, v)
      /\ \A e \in Dirs : e # d => Put(s, e, w) = Put(s, e, v)
      /\ Put(s, d, v) \in Int /\ Put(s, d, w) = Put(s, d, v) + 1
      /\ v.send[d] \in Tensors /\ v.send[d] = Sent(s, d, Put(s, d, v))
  <2>1. Posted(args, s, d, v, w) BY <1>2, <1>3 DEF Posted
  <2>2. SendDone(args, s, d, v, w) BY <2>1, SentOK
  <2> QED BY <2>2 DEF SendDone
<1>5. ASSUME NEW t \in Stages PROVE StageOK(args', t, View(t)')
  BY <1>1, <1>3, <1>4, <1>5 DEF IInv
<1>6. chan \in [Stages -> [Dirs -> Seq(Tensors)]] BY DEF IInv
<1>7. PICK l \in Seq(Tensors), x \in Tensors : l = chan[s][d] /\ x = send[s][d]
  BY <1>3, <1>4, <1>6
<1>8. PICK z \in Seq(Tensors) : z = Append(l, x)
  <2>1. Append(l, x) \in Seq(Tensors) OBVIOUS
  <2> QED BY <2>1
<1>9. chan' = [chan EXCEPT ![s][d] = z] BY <1>3, <1>7, <1>8
<1>10. /\ chan' \in [Stages -> [Dirs -> Seq(Tensors)]] /\ chan'[s][d] = z
       /\ \A t \in Stages, e \in Dirs : ~(t = s /\ e = d) => chan'[t][e] = chan[t][e]
  BY <1>6, <1>9
<1>11. ASSUME NEW t \in Stages, NEW e \in Dirs
       PROVE  Got(args', t, e, View(t)') = Got(args, t, e, View(t))
  BY <1>1, <1>3, <1>4, <1>11
<1>12. ASSUME NEW t \in Stages, NEW e \in Dirs PROVE LinkOK(t, e)'
  <2>1. Peer(t, e) \in Stages /\ Opposite(e) \in Dirs BY PeerFacts, DirFacts
  <2>2. LinkOK(t, e) BY DEF IInv
  <2>3. CASE t = s /\ e = d
    <3>1. PICK a \in Int, b \in Int :
            /\ a = Got(args, Peer(s, d), Opposite(d), View(Peer(s, d))) /\ b = Put(s, d, v)
            /\ Transit(l, s, d, a, b)
      <4>1. PICK a : a = Got(args, Peer(s, d), Opposite(d), View(Peer(s, d)))
        OBVIOUS
      <4>2. Transit(l, s, d, a, Put(s, d, v))
        BY <1>1, <1>7, <2>2, <2>3, <4>1 DEF LinkOK
      <4>3. a \in Int BY <2>1, <2>3, <4>1, GotTypes
      <4> QED BY <1>4, <4>1, <4>2, <4>3
    <3>2. x = Sent(s, d, b) BY <1>3, <1>4, <1>7, <3>1
    <3>3. Transit(Append(l, x), s, d, a, b + 1) BY <3>1, <3>2, TransitAppend
    <3>4. /\ chan'[t][e] = Append(l, x) /\ Put(t, e, View(t)') = b + 1
          /\ Got(args', Peer(t, e), Opposite(e), View(Peer(t, e))') = a
      BY <1>1, <1>4, <1>8, <1>10, <1>11, <2>1, <2>3, <3>1
    <3> QED BY <2>3, <3>3, <3>4 DEF LinkOK
  <2>4. CASE ~(t = s /\ e = d)
    <3>1. Put(t, e, View(t)') = Put(t, e, View(t))
      <4>1. CASE t = s BY <1>1, <1>4, <2>4, <4>1
      <4>2. CASE t # s BY <1>3, <4>2
      <4> QED BY <4>1, <4>2
    <3>2. chan'[t][e] = chan[t][e] BY <1>10, <2>4
    <3>3. Got(args', Peer(t, e), Opposite(e), View(Peer(t, e))')
            = Got(args, Peer(t, e), Opposite(e), View(Peer(t, e)))
      BY <1>11, <2>1
    <3> QED BY <2>2, <3>1, <3>2, <3>3 DEF LinkOK
  <2> QED BY <2>3, <2>4
<1> QED BY <1>2, <1>3, <1>5, <1>10, <1>12 DEF IInv

\* Receive preserves the invariant.
LEMMA ReceiveOK ==
  ASSUME IInv, NEW s \in Stages, NEW d \in Dirs, Receive(s, d)
  PROVE  IInv'
<1>1. PICK v, w : v = View(s) /\ w = View(s)' OBVIOUS
<1>2. /\ args \in Calls /\ StageOK(args, s, v) /\ ByStage /\ v.f \in Nat /\ v.b \in Nat
  BY <1>1, StageIs
<1>3. PICK from \in Stages, o \in Dirs :
        from = Peer(s, d) /\ o = Opposite(d) /\ Peer(from, o) = s /\ Opposite(o) = d /\ from # s
  BY PeerFacts, DirFacts
<1>4. chan \in [Stages -> [Dirs -> Seq(Tensors)]] BY DEF IInv
<1>5. PICK l \in Seq(Tensors) : l = chan[from][o] BY <1>4
<1>6. /\ ByStage' /\ args' = args /\ l # <<>> /\ chan' = [chan EXCEPT ![from][o] = Tail(@)]
      /\ \A t \in Stages : t # s => View(t)' = View(t)
      /\ SameBut(v, w) /\ Filled(v, w, d, v.dest[d], Head(l))
      /\ Recv(d) \in v.reqs /\ w.reqs = v.reqs \ {Recv(d)}
  BY <1>1, <1>2, <1>3, <1>5, ReceiveFrame
<1>7. PICK a \in Int, b \in Int : a = Got(args, s, d, v) /\ b = Put(from, o, View(from))
  BY <1>1, GotTypes
<1>8. Transit(l, from, o, a, b)
  <2>1. LinkOK(from, o) BY DEF IInv
  <2> QED BY <1>1, <1>3, <1>5, <1>7, <2>1 DEF LinkOK
<1>9. /\ Head(l) = Sent(from, o, a) /\ Tail(l) \in Seq(Tensors) /\ Transit(Tail(l), from, o, a + 1, b)
  BY <1>6, <1>8, TransitTail
<1>10. Received(args, s, d, v, w) BY <1>2, <1>3, <1>6, <1>7, <1>9 DEF Received
<1>11. StageOK(args, s, w) BY <1>2, <1>10, ReceivedOK
<1>12. /\ \A e \in Dirs : Put(s, e, w) = Put(s, e, v)
       /\ \A e \in Dirs : e # d => Got(args, s, e, w) = Got(args, s, e, v)
       /\ Got(args, s, d, w) = a + 1
  <2>1. \A e \in Dirs : Put(s, e, w) = Put(s, e, v) BY <1>2, <1>10, ReceivedLinks
  <2>2. \A e \in Dirs : e # d => Got(args, s, e, w) = Got(args, s, e, v)
    BY <1>2, <1>10, ReceivedLinks
  <2>3. Got(args, s, d, w) = Got(args, s, d, v) + 1 BY <1>2, <1>10, ReceivedLinks
  <2> QED BY <1>7, <2>1, <2>2, <2>3
<1>13. ASSUME NEW t \in Stages PROVE StageOK(args', t, View(t)')
  BY <1>1, <1>6, <1>11, <1>13 DEF IInv
<1>14. PICK z \in Seq(Tensors) : z = Tail(l) BY <1>9
<1>15. chan' = [chan EXCEPT ![from][o] = z] BY <1>5, <1>6, <1>14
<1>16. /\ chan' \in [Stages -> [Dirs -> Seq(Tensors)]] /\ chan'[from][o] = z
       /\ \A t \in Stages, e \in Dirs : ~(t = from /\ e = o) => chan'[t][e] = chan[t][e]
  BY <1>4, <1>15
<1>17. ASSUME NEW t \in Stages, NEW e \in Dirs PROVE Put(t, e, View(t)') = Put(t, e, View(t))
  BY <1>1, <1>6, <1>12, <1>17
<1>18. ASSUME NEW t \in Stages, NEW e \in Dirs, ~(t = s /\ e = d)
       PROVE  Got(args', t, e, View(t)') = Got(args, t, e, View(t))
  BY <1>1, <1>6, <1>12, <1>18
<1>19. ASSUME NEW t \in Stages, NEW e \in Dirs PROVE LinkOK(t, e)'
  <2>1. PICK q \in Stages, u \in Dirs :
          q = Peer(t, e) /\ u = Opposite(e) /\ t = Peer(q, u) /\ e = Opposite(u)
    BY PeerFacts, DirFacts
  <2>2. LinkOK(t, e) BY DEF IInv
  <2>3. CASE t = from /\ e = o
    <3>1. q = s /\ u = d BY <1>3, <2>1, <2>3
    <3>2. /\ chan'[t][e] = Tail(l) /\ Put(t, e, View(t)') = b
          /\ Got(args', Peer(t, e), Opposite(e), View(Peer(t, e))') = a + 1
      BY <1>1, <1>6, <1>7, <1>12, <1>14, <1>16, <1>17, <2>1, <2>3, <3>1
    <3> QED BY <1>9, <2>3, <3>2 DEF LinkOK
  <2>4. CASE ~(t = from /\ e = o)
    <3>1. ~(q = s /\ u = d) BY <1>3, <2>1, <2>4
    <3>2. Got(args', Peer(t, e), Opposite(e), View(Peer(t, e))')
            = Got(args, Peer(t, e), Opposite(e), View(Peer(t, e)))
      BY <1>18, <2>1, <3>1
    <3>3. chan'[t][e] = chan[t][e] /\ Put(t, e, View(t)') = Put(t, e, View(t))
      BY <1>16, <1>17, <2>4
    <3> QED BY <2>2, <3>2, <3>3 DEF LinkOK
  <2> QED BY <2>3, <2>4
<1> QED BY <1>2, <1>6, <1>13, <1>16, <1>19 DEF IInv

\* Handover preserves the invariant.
LEMMA HandoverOK ==
  ASSUME IInv, NEW s \in Stages, NEW d \in Dirs, Handover(s, d)
  PROVE  IInv'
<1>1. PICK to \in Stages, o \in Dirs :
        to = Peer(s, d) /\ o = Opposite(d) /\ Peer(to, o) = s /\ Opposite(o) = d /\ to # s
  BY PeerFacts, DirFacts
<1>2. PICK v, w, x, y : v = View(s) /\ w = View(s)' /\ x = View(to) /\ y = View(to)'
  OBVIOUS
<1>3. /\ args \in Calls /\ ByStage /\ StageOK(args, s, v) /\ v.f \in Nat /\ v.b \in Nat
      /\ StageOK(args, to, x) /\ x.f \in Nat /\ x.b \in Nat
  BY <1>2, StageIs
<1>4. chan \in [Stages -> [Dirs -> Seq(Tensors)]] BY DEF IInv
<1>5. /\ ByStage' /\ args' = args /\ chan' = chan /\ chan[s][d] = <<>>
      /\ \A t \in Stages : t # s /\ t # to => View(t)' = View(t)
      /\ SameBut(v, w) /\ SameLists(v, w) /\ Send(d) \in v.reqs /\ w.reqs = v.reqs \ {Send(d)}
      /\ SameBut(x, y) /\ Filled(x, y, o, x.dest[o], v.send[d])
      /\ Recv(o) \in x.reqs /\ y.reqs = x.reqs \ {Recv(o)}
  BY <1>1, <1>2, <1>3, HandoverFrame
<1>6. Posted(args, s, d, v, w) BY <1>3, <1>5 DEF Posted
<1>7. PICK a \in Int : a = Put(s, d, v) BY <1>2, GotTypes
<1>8. PICK g \in Int : g = Got(args, to, o, x) BY <1>2, GotTypes
<1>9. g = a
  <2>1. LinkOK(s, d) BY DEF IInv
  <2>2. Transit(<<>>, s, d, g, a) BY <1>1, <1>2, <1>5, <1>7, <1>8, <2>1 DEF LinkOK
  <2>3. Len(<<>>) = a - g BY <2>2 DEF Transit
  <2> QED BY <2>3
<1>10. /\ StageOK(args, s, w) /\ v.send[d] = Sent(s, d, a)
       /\ \A e \in Dirs : Got(args, s, e, w) = Got(args, s, e, v)
       /\ \A e \in Dirs : e # d => Put(s, e, w) = Put(s, e, v)
       /\ Put(s, d, w) = a + 1
  <2>1. SendDone(args, s, d, v, w) BY <1>6, SentOK
  <2> QED BY <1>7, <2>1 DEF SendDone
<1>11. v.send[d] = Sent(Peer(to, o), Opposite(o), Got(args, to, o, x))
  BY <1>1, <1>7, <1>8, <1>9, <1>10
<1>12. Received(args, to, o, x, y) BY <1>3, <1>5, <1>11 DEF Received
<1>13. StageOK(args, to, y) BY <1>3, <1>12, ReceivedOK
<1>14. /\ \A e \in Dirs : Put(to, e, y) = Put(to, e, x)
       /\ \A e \in Dirs : e # o => Got(args, to, e, y) = Got(args, to, e, x)
       /\ Got(args, to, o, y) = a + 1
  <2>1. \A e \in Dirs : Put(to, e, y) = Put(to, e, x) BY <1>3, <1>12, ReceivedLinks
  <2>2. \A e \in Dirs : e # o => Got(args, to, e, y) = Got(args, to, e, x)
    BY <1>3, <1>12, ReceivedLinks
  <2>3. Got(args, to, o, y) = Got(args, to, o, x) + 1 BY <1>3, <1>12, ReceivedLinks
  <2> QED BY <1>8, <1>9, <2>1, <2>2, <2>3
<1>15. ASSUME NEW t \in Stages PROVE StageOK(args', t, View(t)')
  BY <1>2, <1>5, <1>10, <1>13, <1>15 DEF IInv
<1>16. ASSUME NEW t \in Stages, NEW e \in Dirs, ~(t = s /\ e = d)
       PROVE  Put(t, e, View(t)') = Put(t, e, View(t))
  BY <1>2, <1>5, <1>10, <1>14, <1>16
<1>17. ASSUME NEW t \in Stages, NEW e \in Dirs, ~(t = to /\ e = o)
       PROVE  Got(args', t, e, View(t)') = Got(args, t, e, View(t))
  BY <1>2, <1>5, <1>10, <1>14, <1>17
<1>18. ASSUME NEW t \in Stages, NEW e \in Dirs PROVE LinkOK(t, e)'
  <2>1. PICK q \in Stages, u \in Dirs :
          q = Peer(t, e) /\ u = Opposite(e) /\ t = Peer(q, u) /\ e = Opposite(u)
    BY PeerFacts, DirFacts
  <2>2. LinkOK(t, e) BY DEF IInv
  <2>3. CASE t = s /\ e = d
    <3>1. q = to /\ u = o BY <1>1, <2>1, <2>3
    <3>2. /\ chan'[t][e] = <<>> /\ Put(t, e, View(t)') = a + 1
          /\ Got(args', Peer(t, e), Opposite(e), View(Peer(t, e))') = a + 1
      BY <1>2, <1>5, <1>10, <1>14, <2>1, <2>3, <3>1
    <3>3. Transit(<<>>, t, e, a + 1, a + 1) BY DEF Transit
    <3> QED BY <3>2, <3>3 DEF LinkOK
  <2>4. CASE ~(t = s /\ e = d)
    <3>1. ~(q = to /\ u = o) BY <1>1, <2>1, <2>4
    <3>2. Got(args', Peer(t, e), Opposite(e), View(Peer(t, e))')
            = Got(args, Peer(t, e), Opposite(e), View(Peer(t, e)))
      BY <1>17, <2>1, <3>1
    <3>3. chan'[t][e] = chan[t][e] /\ Put(t, e, View(t)') = Put(t, e, View(t))
      BY <1>5, <1>16, <2>4
    <3> QED BY <2>2, <3>2, <3>3 DEF LinkOK
  <2> QED BY <2>3, <2>4
<1> QED BY <1>3, <1>4, <1>5, <1>15, <1>18 DEF IInv

-----------------------------------------------------------------------------
\* The theorems.

\* The invariant holds at first, ...
LEMMA InitOK == Init => IInv
<1> SUFFICES ASSUME Init PROVE IInv
  OBVIOUS
<1>1. args \in Calls BY DEF Init
<1>2. ByStage BY DEF Init, ByStage
<1>3. chan \in [Stages -> [Dirs -> Seq(Tensors)]]
  <2>1. PICK e \in Seq(Tensors) : e = <<>>
    <3>1. <<>> \in Seq(Tensors) OBVIOUS
    <3> QED BY <3>1
  <2>2. chan = [s \in Stages |-> [d \in Dirs |-> e]] BY <2>1 DEF Init
  <2> QED BY <2>2
<1>4. ASSUME NEW s \in Stages, NEW v, v = View(s)
      PROVE  StageOK(args, s, v) /\ \A d \in Dirs : Got(args, s, d, v) = 0 /\ Put(s, d, v) = 0
  <2>1. /\ v.label = "start" /\ v.f = 0 /\ v.b = 0 /\ v.reqs = {} /\ v.send = [d \in Dirs |-> None]
        /\ v.inputs = [c \in Chunks |-> <<>>] /\ v.outputs = [c \in Chunks |-> <<>>]
        /\ v.grads = [c \in Chunks |-> <<>>] /\ v.fwd = [c \in Chunks |-> <<>>]
        /\ v.bwd = [c \in Chunks |-> <<>>] /\ v.sync = FALSE /\ v.synchronized = {}
        /\ v.reductions = [c \in Chunks |-> <<>>] /\ v.synced = {}
    BY <1>4, ViewIs DEF Init
  <2>2. PICK T \in Nat, m \in Nat \ {0} : T = TotalOf(args) /\ m = args.num_microbatches /\ T > 1
    <3>1. PICK T \in Nat, W \in Nat : T = TotalOf(args) /\ W = WarmupOf(args, s) /\ 1 < W /\ W <= T
      BY <1>1, CallFacts
    <3> QED BY <1>1, <3>1, CallFacts
  <2>3. TypesOK(args, v)
    <3>1. v.send \in [Dirs -> Tensors] BY <2>1, TensorTypes
    <3>2. [c \in Chunks |-> <<>>] \in [Chunks -> Seq(Tensors)] /\ [c \in Chunks |-> <<>>] \in [Chunks -> Seq(Nat)]
      <4>1. <<>> \in Seq(Tensors) /\ <<>> \in Seq(Nat) OBVIOUS
      <4>2. PICK e \in Seq(Tensors), g \in Seq(Nat) : e = <<>> /\ g = <<>> BY <4>1
      <4>3. [c \in Chunks |-> e] \in [Chunks -> Seq(Tensors)] /\ [c \in Chunks |-> g] \in [Chunks -> Seq(Nat)]
        OBVIOUS
      <4> QED BY <4>2, <4>3
    <3>3. v.f \in 0 .. TotalOf(args) /\ v.b \in 0 .. TotalOf(args) BY <2>1, <2>2
    <3>4. Typed(args, v) BY <2>1, <3>1, <3>2, <3>3 DEF Typed, Labels
    <3> QED BY <3>4, TypesEach
  <2>4. CountOK(args, s, v) BY <2>1 DEF CountOK
  <2>5. ASSUME NEW c \in Chunks PROVE Done(0, c) = 0 /\ Done(0, V - 1 - c) = 0 /\ V - 1 - c \in Chunks
    <3>1. PICK j \in Chunks : j = V - 1 - c
      <4>1. V - 1 - c \in Chunks BY VAssumption DEF Chunks
      <4> QED BY <4>1
    <3> QED BY <3>1, DoneZero
  <2>6. OrderOK(v)
    <3>1. Upto(<<>>, 0) BY DEF Upto
    <3> QED BY <2>1, <2>5, <3>1 DEF OrderOK
  <2>7. ReqOK(args, s, v) BY <2>1 DEF ReqOK, RecvOK, SendOK
  <2>8. ASSUME NEW d \in Dirs
        PROVE  ~Expects(args, s, d, v) /\ Seen(args, s, d, v) = 0 /\ Passes(d, v) = 0 /\ Passes(Opposite(d), v) = 0
    <3>1. ~Expects(args, s, d, v) /\ Passes(d, v) = 0 /\ Passes(Opposite(d), v) = 0
      BY <2>1 DEF Expects, Passes
    <3> QED BY <3>1 DEF Seen
  <2>9. ASSUME NEW u PROVE Holds(<<>>, u, 0, 0)
    BY HoldsNothing
  <2>10. InputOK(args, s, v)
    <3>1. Seen(args, s, "prev", v) = 0 BY <2>8, DirFacts
    <3>2. v.f # TotalOf(args) BY <2>1, <2>2
    <3>3. ASSUME NEW c \in Chunks
          PROVE  Holds(v.inputs[c], From(s, "prev", c), Kept(args, v, c), Done(Seen(args, s, "prev", v), c))
      <4>1. Kept(args, v, c) = 0 /\ Done(Seen(args, s, "prev", v), c) = 0 /\ v.inputs[c] = <<>>
        BY <2>1, <2>5, <3>1 DEF Kept
      <4> QED BY <2>9, <4>1
    <3> QED BY <3>2, <3>3 DEF InputOK
  <2>11. OutputOK(args, s, v) BY <2>1, <2>5, <2>9 DEF OutputOK
  <2>12. GradOK(args, s, v)
    <3>1. Seen(args, s, "next", v) = 0 BY <2>8, DirFacts
    <3> QED BY <2>1, <2>5, <2>9, <3>1 DEF GradOK
  <2>13. SyncOK(args, s, v)
    <3>1. Launched(args, s, v) = 0
      <4>1. s \in Nat BY PeerFacts, DirFacts
      <4>2. v.b >= s => v.b - s = 0 BY <2>1, <4>1
      <4> QED BY <2>1, <4>2 DEF Launched
    <3>2. args.num_microbatches # 0 BY <2>2
    <3> QED BY <2>1, <2>5, <3>1, <3>2 DEF SyncOK
  <2>14. StageOK(args, s, v)
    BY <2>3, <2>4, <2>6, <2>7, <2>10, <2>11, <2>12, <2>13 DEF StageOK
  <2>15. ASSUME NEW d \in Dirs PROVE Got(args, s, d, v) = 0 /\ Put(s, d, v) = 0
    <3>1. PICK z \in BOOLEAN : z = Closes(s, d) BY PeerFacts
    <3>2. Ins(z, 0) = 0 /\ Outs(z, 0) = 0 BY NothingYet
    <3>3. Gone(d, v) = 0 BY <2>1, <2>8 DEF Gone
    <3> QED BY <2>8, <3>1, <3>2, <3>3 DEF Got, Put
  <2> QED BY <2>14, <2>15
<1>5. ASSUME NEW s \in Stages PROVE StageOK(args, s, View(s))
  BY <1>4
<1>6. ASSUME NEW s \in Stages, NEW d \in Dirs PROVE LinkOK(s, d)
  <2>1. Peer(s, d) \in Stages /\ Opposite(d) \in Dirs BY PeerFacts, DirFacts
  <2>2. Got(args, Peer(s, d), Opposite(d), View(Peer(s, d))) = 0 /\ Put(s, d, View(s)) = 0
    BY <1>4, <2>1
  <2>3. chan[s][d] = <<>> BY DEF Init
  <2>4. Transit(<<>>, s, d, 0, 0) BY DEF Transit
  <2> QED BY <2>2, <2>3, <2>4 DEF LinkOK
<1> QED BY <1>1, <1>2, <1>3, <1>5, <1>6 DEF IInv

\* ... every step preserves it, ...
LEMMA NextOK == IInv /\ [Next]_vars => IInv'
<1> SUFFICES ASSUME IInv, [Next]_vars PROVE IInv'
  OBVIOUS
<1>1. CASE Transfer BY <1>1, BufferOK, ReceiveOK, HandoverOK DEF Transfer
<1>2. CASE \E s \in Stages : Step(s) BY <1>2, StepsOK
<1>3. CASE UNCHANGED vars
  <2>1. args' = args /\ chan' = chan /\ (ByStage => ByStage')
    BY <1>3 DEF vars, counters, requests, lists, sync, ByStage
  <2>2. ASSUME NEW s \in Stages PROVE View(s)' = View(s)
    BY <1>3 DEF vars, counters, requests, lists, sync, View
  <2>3. ASSUME NEW s \in Stages, NEW d \in Dirs PROVE LinkOK(s, d)'
    <3>1. Peer(s, d) \in Stages /\ LinkOK(s, d) BY PeerFacts DEF IInv
    <3> QED BY <2>1, <2>2, <3>1 DEF LinkOK
  <2> QED BY <2>1, <2>2, <2>3 DEF IInv
<1>4. CASE Returned BY <1>3, <1>4 DEF Returned
<1> QED BY <1>1, <1>2, <1>3, <1>4 DEF Next

\* ... and so it always holds.
LEMMA Invariant == Spec => []IInv
BY InitOK, NextOK, PTL DEF Spec

\* The invariant has the types, ...
LEMMA TypesImplied == IInv => TypeOK
<1> SUFFICES ASSUME IInv PROVE TypeOK
  OBVIOUS
<1>1. args \in Calls /\ ByStage /\ chan \in [Stages -> [Dirs -> Seq(Tensors)]]
  BY DEF IInv
<1>2. ASSUME NEW s \in Stages PROVE Typed(args, View(s)) /\ ReqOK(args, s, View(s))
  BY TypesEach, StageIs
<1>3. TotalOf(args) = Total BY Terms
<1>4. ASSUME NEW s \in Stages
      PROVE  /\ pc[s] \in Labels /\ forward_k[s] \in 0 .. Total /\ backward_k[s] \in 0 .. Total
             /\ reqs[s] \in SUBSET ({"send", "recv"} \X Dirs) /\ send[s] \in [Dirs -> Tensors]
             /\ input_tensors[s] \in [Chunks -> Seq(Tensors)] /\ output_tensors[s] \in [Chunks -> Seq(Tensors)]
             /\ output_tensor_grads[s] \in [Chunks -> Seq(Tensors)]
             /\ fwd[s] \in [Chunks -> Seq(Nat)] /\ bwd[s] \in [Chunks -> Seq(Nat)]
             /\ reductions[s] \in [Chunks -> Seq(Nat)]
             /\ grad_sync[s] \in BOOLEAN /\ synchronized[s] \in SUBSET Chunks /\ param_synced[s] \in SUBSET Chunks
  BY <1>2, <1>3, ViewIs DEF Typed
<1>5. ASSUME NEW s \in Stages, NEW d \in Dirs, <<"recv", d>> \in reqs[s] PROVE dest[s][d] \in Chunks
  <2>1. PICK v : v = View(s) OBVIOUS
  <2>2. Recv(d) \in v.reqs /\ v.dest = dest[s] /\ v.f \in Nat /\ v.b \in Nat
    BY <1>5, <2>1, ViewIs, StageIs DEF Recv
  <2>3. RecvOK(args, s, d, v) BY <1>2, <2>1 DEF ReqOK
  <2>4. PICK k \in Int : k = Passes(d, v) /\ v.dest[d] = ChunkAt(d, k)
    BY <2>2, <2>3 DEF RecvOK, Passes
  <2>5. ChunkAt(d, k) \in Chunks BY Delivered
  <2> QED BY <2>2, <2>4, <2>5
<1>6. /\ pc \in [Stages -> Labels] /\ forward_k \in [Stages -> 0 .. Total] /\ backward_k \in [Stages -> 0 .. Total]
      /\ reqs \in [Stages -> SUBSET ({"send", "recv"} \X Dirs)] /\ send \in [Stages -> [Dirs -> Tensors]]
  BY <1>1, <1>4 DEF ByStage
<1>7. /\ input_tensors \in [Stages -> [Chunks -> Seq(Tensors)]]
      /\ output_tensors \in [Stages -> [Chunks -> Seq(Tensors)]]
      /\ output_tensor_grads \in [Stages -> [Chunks -> Seq(Tensors)]]
  BY <1>1, <1>4 DEF ByStage
<1>8. /\ fwd \in [Stages -> [Chunks -> Seq(Nat)]] /\ bwd \in [Stages -> [Chunks -> Seq(Nat)]]
      /\ reductions \in [Stages -> [Chunks -> Seq(Nat)]]
  BY <1>1, <1>4 DEF ByStage
<1>9. /\ grad_sync \in [Stages -> BOOLEAN] /\ synchronized \in [Stages -> SUBSET Chunks]
      /\ param_synced \in [Stages -> SUBSET Chunks]
  BY <1>1, <1>4 DEF ByStage
<1>10. /\ {forward_k, backward_k} \subseteq [Stages -> 0 .. Total]
       /\ {input_tensors, output_tensors, output_tensor_grads} \subseteq [Stages -> [Chunks -> Seq(Tensors)]]
       /\ {fwd, bwd, reductions} \subseteq [Stages -> [Chunks -> Seq(Nat)]]
       /\ {synchronized, param_synced} \subseteq [Stages -> SUBSET Chunks]
  <2> HIDE DEF Labels
  <2> QED BY <1>6, <1>7, <1>8, <1>9, Zenon
<1> QED BY <1>1, <1>5, <1>6, <1>9, <1>10 DEF TypeOK, Labels

\* ... so every variable always has its type: schedules.py never indexes a
\* chunk, a list or a link that is not there.
THEOREM TypeCorrect == Spec => []TypeOK
BY Invariant, TypesImplied, PTL

\* The invariant has the passes in order, ...
LEMMA OrderImplied == IInv => PassesInOrder
<1> SUFFICES ASSUME IInv, NEW s \in Stages, NEW c \in Chunks
             PROVE  /\ \A k \in 1 .. Len(fwd[s][c]) : fwd[s][c][k] = k
                    /\ \A k \in 1 .. Len(bwd[s][c]) : bwd[s][c][k] = k
  BY DEF PassesInOrder
<1>1. OrderOK(View(s)) BY StageIs
<1>2. Upto(fwd[s][c], Done(forward_k[s], c)) /\ Upto(bwd[s][c], Done(backward_k[s], V - 1 - c))
  BY <1>1, ViewIs DEF OrderOK
<1> QED BY <1>2 DEF Upto

\* ... so every chunk of every stage always makes its forward and its
\* backward passes for the microbatches in their order, from the first,
\* however the transfers between the stages interleave.
THEOREM PassesAlwaysInOrder == Spec => []PassesInOrder
BY Invariant, OrderImplied, PTL

\* The invariant has one complete reduction for each chunk, ...
LEMMA ReducedImplied == IInv => GradsReduced
<1> SUFFICES ASSUME IInv, NEW s \in Stages, pc[s] = "done", ~args.forward_only, NEW c \in Chunks
             PROVE  reductions[s][c] = <<M>>
  BY DEF GradsReduced
<1>1. PICK v : v = View(s) OBVIOUS
<1>2. /\ SyncOK(args, s, v) /\ CountOK(args, s, v) /\ args \in Calls
      /\ v.label = "done" /\ v.reductions = reductions[s]
  BY <1>1, StageIs, ViewIs
<1>3. Launched(args, s, v) = TotalOf(args) BY <1>2 DEF CountOK, Launched
<1>4. PICK j \in Chunks : j = V - 1 - c
  <2>1. V - 1 - c \in Chunks BY VAssumption DEF Chunks
  <2> QED BY <2>1
<1>5. Done(TotalOf(args), j) = args.num_microbatches
  BY <1>2, CallFacts, DoneAll DEF TotalOf
<1>6. c \in v.synchronized BY <1>2, <1>3, <1>4, <1>5 DEF SyncOK
<1> QED BY <1>2, <1>6, Terms DEF SyncOK

\* ... so a call that trains always ends with each chunk's gradients
\* reduced once, and by then they are those of all the microbatches.
THEOREM GradsAlwaysReduced == Spec => []GradsReduced
BY Invariant, ReducedImplied, PTL

-----------------------------------------------------------------------------
\* The refinement of PipelineFlush.

\* More iterations have sent more.
LEMMA OutsGrows ==
  ASSUME NEW w \in BOOLEAN, NEW k \in Int, NEW l \in Int, k <= l
  PROVE  Outs(w, k) <= Outs(w, l)
<1> DEFINE T == {d \in Nat : Outs(w, k) <= Outs(w, k + d)}
<1>1. 0 \in T BY OutsNext
<1>2. ASSUME NEW d \in T PROVE d + 1 \in T
  <2>1. PICK x \in Int : x = k + d /\ k + (d + 1) = x + 1 OBVIOUS
  <2>2. Outs(w, x + 1) >= Outs(w, x) /\ Outs(w, x) \in Int /\ Outs(w, x + 1) \in Int /\ Outs(w, k) \in Int
    BY OutsNext
  <2> QED BY <2>1, <2>2
<1>3. T = Nat
  <2>1. T \in SUBSET Nat OBVIOUS
  <2> HIDE DEF T
  <2> QED BY <1>1, <1>2, <2>1, SetInduction
<1>4. PICK d \in Nat : k + d = l
  <2>1. l - k \in Nat /\ k + (l - k) = l OBVIOUS
  <2> QED BY <2>1
<1>5. d \in T BY <1>3
<1> QED BY <1>4, <1>5

\* Stage s is to run a pass whose tensor from d has come.
Supplied(s, d) ==
  LET v == View(s)
  IN Expects(args, s, d, v) /\ Recv(d) \notin v.reqs /\ Passes(d, v) \in Nat

\* Then the virtual stage the tensor is from has run its pass of the same
\* microbatch already: what has arrived was sent, and sent in this order.
LEMMA PeerAhead ==
  ASSUME IInv, NEW s \in Stages, NEW d \in Dirs, Supplied(s, d),
         Receiving(Closes(s, d), Passes(d, View(s)))
  PROVE  LET k == Passes(d, View(s))
             l == Source(Closes(s, d), k)
         IN /\ Passes(d, View(Peer(s, d))) >= l + 1
            /\ l \in Int /\ Mb(l) = Mb(k) /\ Mb(k) \in Int
            /\ Done(Passes(d, View(Peer(s, d))), Pos(l)) >= Mb(k)
            /\ Done(Passes(d, View(Peer(s, d))), Pos(l)) \in Int
<1>1. PICK t \in Stages, o \in Dirs, w \in BOOLEAN :
        /\ t = Peer(s, d) /\ o = Opposite(d) /\ w = Closes(s, d)
        /\ Peer(t, o) = s /\ Opposite(o) = d /\ Closes(t, o) = w
  BY PeerFacts, DirFacts
<1>2. PICK k \in Nat, n \in Nat : k = Passes(d, View(s)) /\ n = Passes(d, View(t))
  <2>1. View(t).f \in Nat /\ View(t).b \in Nat BY StageIs
  <2> QED BY <2>1 DEF Supplied, Passes
<1>3. k \in Int /\ Receiving(w, k) BY <1>1, <1>2
<1>4. PICK l \in Int : l = Source(w, k) /\ Mb(l) = Mb(k) /\ Sending(w, l) /\ Ins(w, k) = Outs(w, l)
  BY <1>3, InsNext, SourceIs
<1>5. Got(args, s, d, View(s)) = Ins(w, k + 1) /\ Ins(w, k + 1) = Outs(w, l) + 1 /\ Outs(w, l) \in Int
  <2>1. Seen(args, s, d, View(s)) = k + 1 BY <1>2 DEF Seen, Supplied
  <2>2. Ins(w, k + 1) = Ins(w, k) + 1 BY <1>3, InsNext
  <2>3. Outs(w, l) \in Int BY <1>4, OutsNext
  <2> QED BY <1>1, <1>4, <2>1, <2>2, <2>3 DEF Got
<1>6. Got(args, s, d, View(s)) <= Put(t, o, View(t))
  <2>1. LinkOK(t, o) /\ chan[t][o] \in Seq(Tensors) BY <1>1 DEF IInv
  <2>2. Len(chan[t][o]) = Put(t, o, View(t)) - Got(args, s, d, View(s)) /\ Len(chan[t][o]) \in Nat
    BY <1>1, <2>1 DEF LinkOK, Transit
  <2>3. Put(t, o, View(t)) \in Int /\ Got(args, s, d, View(s)) \in Int BY GotTypes
  <2> QED BY <2>2, <2>3
<1>7. PICK g \in Int : g = Gone(o, View(t)) /\ g <= n BY <1>1, <1>2 DEF Gone
<1>8. Put(t, o, View(t)) = Outs(w, g) /\ Outs(w, g) \in Int
  BY <1>1, <1>7, OutsNext DEF Put
<1>9. Outs(w, l) + 1 <= Outs(w, g) BY <1>5, <1>6, <1>8
<1>10. l + 1 <= g
  <2>1. CASE g <= l
    <3>1. Outs(w, g) <= Outs(w, l) BY <2>1, OutsGrows
    <3> QED BY <1>5, <1>8, <1>9, <3>1
  <2> QED BY <2>1
<1>11. l + 1 <= n BY <1>7, <1>10
<1>12. Pos(l) \in Chunks BY <1>4, Places
<1>13. PICK j \in Chunks : j = Pos(l) BY <1>12
<1>14. Done(l + 1, j) = Mb(l) /\ Mb(l) \in Int
  <2>1. Done(l + 1, j) = Done(l, j) + 1 /\ Mb(l) = Done(l, j) + 1 /\ Mb(l) \in Int
    BY <1>13, DoneNext
  <2> QED BY <2>1
<1>15. l \in Nat
  <2>1. CASE ~w BY <1>4, <2>1 DEF Source
  <2>2. CASE w
    <3>1. Pos(k) \in Chunks /\ Pos(k) # 0 /\ l = k - P
      BY <1>3, <1>4, <2>2, Places DEF Receiving, Source
    <3>2. Pos(k) > 0 BY <3>1, Sizes DEF Chunks
    <3>3. PICK g2 \in Nat, c \in Nat, i \in Nat : g2 = Group(k) /\ c = Pos(l) /\ i = Off(l)
      <4>1. Group(k) \in Nat /\ Pos(l) \in Chunks /\ Off(l) \in 0 .. P - 1
        BY <1>3, Places
      <4> QED BY <4>1, Sizes DEF Chunks
    <3>4. Group(l) = g2 BY <1>3, <3>1, <3>2, <3>3, PlaceBefore
    <3>5. l = (g2 * V + c) * P + i BY <3>3, <3>4, Places
    <3>6. (g2 * V + c) * P + i \in Nat BY <3>3, PAssumption, VAssumption
    <3> QED BY <3>5, <3>6
  <2> QED BY <2>1, <2>2
<1>16. Done(n, j) >= Mb(l) /\ Done(n, j) \in Int
  <2>1. Done(n, j) \in Int BY DoneNext
  <2>2. l + 1 \in Nat BY <1>15
  <2> QED BY <1>11, <1>14, <2>1, <2>2, DoneGrows
<1> QED BY <1>1, <1>2, <1>4, <1>11, <1>13, <1>14, <1>16

\* A chunk that is at an iteration has done those before.
LEMMA Reached ==
  ASSUME NEW b \in Nat, NEW q \in Int, NEW j \in Chunks, NEW i \in 0 .. P - 1,
         NEW k \in Int, k = (q * V + j) * P + i, k + 1 <= b
  PROVE  Done(b, j) \in Nat /\ Done(b, j) >= q * P + i + 1
<1>1. Group(k) = q /\ Pos(k) = j /\ Off(k) = i BY PlaceUnique
<1>2. Done(b, j) \in Nat BY DoneNext
<1>3. PICK x \in Int : x = q * P BY PAssumption
<1>4. CASE k \in Nat
  <2>1. Mb(k) = x + i + 1 BY <1>1, <1>3 DEF Mb
  <2>2. Done(k + 1, j) = Done(k, j) + 1 /\ Mb(k) = Done(k, j) + 1 BY <1>1, DoneNext
  <2>3. Done(k + 1, j) <= Done(b, j)
    <3>1. k + 1 \in Nat BY <1>4
    <3> QED BY <3>1, DoneGrows
  <2> QED BY <1>2, <1>3, <2>1, <2>2, <2>3
<1>5. CASE k \notin Nat
  <2>1. q < 0
    <3>1. CASE q >= 0
      <4>1. q \in Nat /\ j \in Nat /\ i \in Nat BY <3>1, Sizes DEF Chunks
      <4>2. (q * V + j) * P + i \in Nat BY <4>1, PAssumption, VAssumption
      <4> QED BY <1>5, <4>2
    <3> QED BY <3>1
  <2>2. q * P + P <= 0 * P BY <2>1, PAssumption, NextMultiple
  <2>3. x + i + 1 <= 0 BY <1>1, <1>3, <2>2, PAssumption
  <2> QED BY <1>2, <1>3, <2>3
<1> QED BY <1>4, <1>5

\* Before its forward pass a chunk holds fewer activations than its limit,
\* as no stage is further ahead of its backward passes than its warmup.
LEMMA Window ==
  ASSUME NEW s \in Stages, NEW k \in Nat, NEW b \in Nat, NEW p \in Chunks, p = Pos(k),
         k <= b + (P - s - 1) * 2 + (V - 1) * P
  PROVE  /\ Done(k, p) \in Nat /\ Done(b, V - 1 - p) \in Nat /\ ActivationLimit(s, p) \in Nat
         /\ Done(k, p) < Done(b, V - 1 - p) + ActivationLimit(s, p)
<1>1. PICK g \in Nat, i \in 0 .. P - 1 : g = Group(k) /\ i = Off(k) /\ k = (g * V + p) * P + i
  <2>1. k \in Int OBVIOUS
  <2> QED BY <2>1, Places
<1>2. PICK j \in Chunks : j = V - 1 - p /\ p = V - 1 - j BY VAssumption DEF Chunks
<1>3. PICK e \in Nat : e = (P - s - 1) * 2 /\ e <= 2 * P - 2
  <2>1. s \in 0 .. P - 1 BY DEF Stages
  <2>2. (P - s - 1) * 2 \in Nat /\ (P - s - 1) * 2 <= 2 * P - 2 BY <2>1, PAssumption
  <2> QED BY <2>2
<1>4. PICK R \in Nat, A \in Nat, x \in Nat, y \in Nat, a \in Nat :
        /\ R = V * P /\ A = g * R /\ x = p * P /\ y = j * P /\ a = g * P
        /\ R >= 2 * P /\ (V - 1) * P = R - P /\ y = R - P - x
        /\ k = A + x + i
  <2>1. V * P \in Nat /\ p * P \in Nat /\ j * P \in Nat /\ g * P \in Nat
    BY PAssumption, VAssumption DEF Chunks
  <2>2. PICK R \in Nat : R = V * P BY <2>1
  <2>3. g * R \in Nat BY <2>2
  <2>4. 1 * P + P <= V * P BY Sizes, NextMultiple
  <2>5. R >= 2 * P BY <2>2, <2>4, PAssumption
  <2>6. (V - 1) * P = R - P BY <2>2, Sizes
  <2>7. (V - 1 - p) * P = (V - 1) * P - p * P
    <3>1. PICK z \in Int : z = V - 1 BY VAssumption
    <3>2. (z - p) * P = z * P - p * P BY <3>1, PAssumption DEF Chunks
    <3> QED BY <3>1, <3>2
  <2>8. (g * V + p) * P = g * R + p * P
    <3>1. (g * V + p) * P = (g * V) * P + p * P
      BY PAssumption, VAssumption DEF Chunks
    <3>2. (g * V) * P = g * (V * P) BY PAssumption, VAssumption
    <3> QED BY <2>2, <3>1, <3>2
  <2>9. PICK A \in Nat : A = g * R BY <2>3
  <2>10. PICK x \in Nat : x = p * P BY <2>1
  <2>11. PICK y \in Nat : y = j * P BY <2>1
  <2>12. PICK a \in Nat : a = g * P BY <2>1
  <2>13. y = R - P - x BY <1>2, <2>6, <2>7, <2>10, <2>11
  <2>14. k = A + x + i BY <1>1, <2>8, <2>9, <2>10
  <2> QED BY ZenonT(60), <2>2, <2>5, <2>6, <2>9, <2>10, <2>11, <2>12, <2>13, <2>14
<1>5. Done(k, p) = a + i
  <2>1. p = Pos(k) /\ Group(k) * P = a /\ Off(k) = i /\ a \in Nat BY <1>1, <1>4
  <2>2. p \in Nat BY DEF Chunks
  <2> QED BY <2>1, <2>2 DEF Done
<1>6. b >= A + x + i - e - R + P BY <1>3, <1>4, PAssumption
<1>7. Done(b, j) \in Nat BY DoneNext
<1>8. PICK L \in Nat : L = ActivationLimit(s, p) /\ L >= P
                       /\ L >= (IF 2 * P <= e + y + 1 THEN 2 * P ELSE e + y + 1)
  <2>1. ActivationLimit(s, p) = Max2(P, Min2(2 * P, e + y + 1))
    <3>1. V - p - 1 = j BY <1>2, VAssumption DEF Chunks
    <3> QED BY <1>3, <1>4, <3>1 DEF ActivationLimit
  <2>2. PICK n \in Nat : n = e + y + 1 BY <1>3, <1>4
  <2>3. ActivationLimit(s, p) = Max2(P, Min2(2 * P, n)) BY <2>1, <2>2
  <2>4. /\ Max2(P, Min2(2 * P, n)) \in Nat /\ Max2(P, Min2(2 * P, n)) >= P
        /\ Max2(P, Min2(2 * P, n)) >= (IF 2 * P <= n THEN 2 * P ELSE n)
    BY <2>2, PAssumption DEF Max2, Min2
  <2> QED BY <2>2, <2>3, <2>4
\* The k-th pass that is needed, q groups and o passes from the first.
<1>9. ASSUME NEW q \in Int, NEW o \in 0 .. P - 1, q * R + y + o + 1 <= b, a + i < q * P + o + 1 + L
      PROVE  Done(k, p) < Done(b, j) + L
  <2>1. (q * V + j) * P + o = q * R + y + o
    <3>1. (q * V + j) * P = (q * V) * P + j * P
      BY PAssumption, VAssumption DEF Chunks
    <3>2. (q * V) * P = q * (V * P) BY PAssumption, VAssumption
    <3>3. PICK z \in Int, u \in Int : z = q * R /\ u = (q * V + j) * P
      BY <1>4, PAssumption, VAssumption DEF Chunks
    <3>4. u = z + y BY <1>4, <3>1, <3>2, <3>3
    <3> QED BY <3>3, <3>4
  <2>2. PICK l \in Int : l = (q * V + j) * P + o /\ l + 1 <= b
    <3>1. q * R \in Int BY <1>4
    <3>2. q * R + y + o \in Int BY <1>4, <3>1
    <3> QED BY <1>9, <2>1, <3>2
  <2>3. Done(b, j) >= q * P + o + 1 BY <2>2, Reached
  <2>4. q * P \in Int BY PAssumption
  <2> QED BY <1>5, <1>7, <1>9, <2>3, <2>4, <1>4, <1>8
<1>10. ASSUME L >= 2 * P
       PROVE  Done(k, p) < Done(b, j) + L
  <2>1. PICK q \in Int : q = g - 2 /\ q * R = A - 2 * R /\ q * P = a - 2 * P
    BY <1>4, PAssumption
  <2>2. q * R + y + i + 1 <= b
    <3>1. A - 2 * R + y + i + 1 <= b BY <1>1, <1>3, <1>4, <1>6, PAssumption
    <3> QED BY <2>1, <3>1
  <2>3. a + i < q * P + i + 1 + L BY <1>1, <1>4, <1>8, <1>10, <2>1, PAssumption
  <2> QED BY <1>9, <2>2, <2>3
<1>11. ASSUME y = 0
       PROVE  Done(k, p) < Done(b, j) + L
  <2>1. PICK q \in Int : q = g - 1 /\ q * R = A - R /\ q * P = a - P
    BY <1>4, PAssumption
  <2>2. q * R + y + i + 1 <= b
    <3>1. A - R + y + i + 1 <= b BY <1>1, <1>3, <1>4, <1>6, <1>11, PAssumption
    <3> QED BY <2>1, <3>1
  <2>3. a + i < q * P + i + 1 + L BY <1>1, <1>4, <1>8, <2>1, PAssumption
  <2> QED BY <1>9, <2>2, <2>3
<1>12. ASSUME y = P, L < 2 * P
       PROVE  Done(k, p) < Done(b, j) + L
  <2>1. e + P + 1 < 2 * P /\ L >= e + P + 1 BY <1>3, <1>8, <1>12, PAssumption
  <2>4. b >= A + i - e - P
    <3>1. x = R - 2 * P /\ R \in Nat /\ A \in Nat BY <1>4, <1>12, PAssumption
    <3> QED BY <1>1, <1>3, <1>6, <3>1, PAssumption
  <2>5. A \in Nat /\ R \in Nat /\ a \in Nat /\ R >= 2 * P BY <1>4
  <2>6. i \in Int /\ e \in Int /\ L \in Nat BY <1>1, <1>3, <1>8, PAssumption
  <2>2. CASE i > e
    <3>1. PICK q \in Int : q = g - 1 /\ q * R = A - R /\ q * P = a - P
      BY <1>4, PAssumption
    <3>2. PICK o \in 0 .. P - 1 : o = i - e - 1
      <4>1. i - e - 1 \in 0 .. P - 1 BY <1>1, <1>3, <2>2, PAssumption
      <4> QED BY <4>1
    <3>3. q * R + y + o + 1 <= b
      <4>1. A - R + y + o + 1 <= b BY <1>12, <2>4, <2>5, <2>6, <3>2, PAssumption
      <4> QED BY <3>1, <4>1
    <3>4. a + i < q * P + o + 1 + L BY <2>1, <2>5, <2>6, <3>1, <3>2, PAssumption
    <3> QED BY <1>9, <3>3, <3>4
  <2>3. CASE i <= e
    <3>1. PICK q \in Int : q = g - 2 /\ q * R = A - 2 * R /\ q * P = a - 2 * P
      BY <1>4, PAssumption
    <3>2. PICK o \in 0 .. P - 1 : o = P + i - e - 1
      <4>1. P + i - e - 1 \in 0 .. P - 1 BY <1>1, <1>3, <2>1, <2>3, PAssumption
      <4> QED BY <4>1
    <3>3. q * R + y + o + 1 <= b
      <4>1. A - 2 * R + y + o + 1 <= b BY <1>12, <2>4, <2>5, <2>6, <3>2, PAssumption
      <4> QED BY <3>1, <4>1
    <3>4. a + i < q * P + o + 1 + L BY <2>1, <2>5, <2>6, <3>1, <3>2, PAssumption
    <3> QED BY <1>9, <3>3, <3>4
  <2> QED BY <1>1, <1>3, <2>2, <2>3
<1>13. y = 0 \/ y = P \/ y >= 2 * P
  <2>1. CASE j = 0 BY <1>4, <2>1, PAssumption
  <2>2. CASE j = 1 BY <1>4, <2>2, PAssumption
  <2>3. CASE j > 1
    <3>1. 1 * P + P <= j * P
      BY <2>3, PAssumption, VAssumption, NextMultiple DEF Chunks
    <3> QED BY <1>4, <3>1, PAssumption
  <2> QED BY <2>1, <2>2, <2>3, VAssumption DEF Chunks
<1>14. y >= 2 * P => L >= 2 * P BY <1>3, <1>4, <1>8, PAssumption
<1>15. Done(k, p) < Done(b, j) + L
  <2>1. L < 2 * P \/ L >= 2 * P BY <1>8, PAssumption
  <2> QED BY <1>10, <1>11, <1>12, <1>13, <1>14, <2>1
<1>16. Done(k, p) \in Nat BY <1>1, <1>4, <1>5, PAssumption
<1> QED BY <1>2, <1>7, <1>8, <1>15, <1>16

\* The variables of the abstract flush.
FlushFwd == OfVirtual(fwd)
FlushBwd == OfVirtual(bwd)

\* A virtual stage is a stage and a chunk, and each of them one.
LEMMA VirtualIs ==
  /\ \A s \in Stages, c \in Chunks :
       Virtual(s, c) \in 0 .. P * V - 1 /\ Virtual(s, c) % P = s /\ Virtual(s, c) \div P = c
  /\ \A v \in 0 .. P * V - 1 :
       v % P \in Stages /\ v \div P \in Chunks /\ v = Virtual(v % P, v \div P)
<1>1. ASSUME NEW s \in Stages, NEW c \in Chunks
      PROVE  Virtual(s, c) \in 0 .. P * V - 1 /\ Virtual(s, c) % P = s /\ Virtual(s, c) \div P = c
  <2>1. Virtual(s, c) \in 0 .. P * V - 1 BY VirtualFacts
  <2>2. c \in Int /\ s \in 0 .. P - 1 /\ P \in Nat \ {0} BY Sizes DEF Chunks, Stages
  <2>3. (c * P + s) \div P = c /\ (c * P + s) % P = s BY <2>2, ExactQuotient
  <2> QED BY <2>1, <2>3 DEF Virtual
<1>2. ASSUME NEW v \in 0 .. P * V - 1
      PROVE  v % P \in Stages /\ v \div P \in Chunks /\ v = Virtual(v % P, v \div P)
  <2>1. P \in Nat \ {0} /\ V \in Nat \ {0} /\ v \in 0 .. V * P - 1
    <3>1. P * V = V * P BY PAssumption, VAssumption
    <3> QED BY <3>1, Sizes
  <2>2. /\ v \div P \in 0 .. V - 1
        /\ v % P \in 0 .. P - 1
        /\ v = (v \div P) * P + (v % P)
    BY <2>1, Digits
  <2> QED BY <2>2 DEF Stages, Chunks, Virtual
<1> QED BY <1>1, <1>2

\* The first n microbatches, passed in order, are the set 1 .. n.
LEMMA UptoSet ==
  ASSUME NEW q, NEW n \in Nat, Upto(q, n)
  PROVE  ToSet(q) = 1 .. n
<1>1. Len(q) = n /\ \A k \in 1 .. n : q[k] = k BY DEF Upto
<1> QED BY <1>1 DEF ToSet

\* A pass adds its microbatch to the set.
LEMMA AppendSet ==
  ASSUME NEW q \in Seq(Nat), NEW m \in Nat
  PROVE  ToSet(Append(q, m)) = ToSet(q) \cup {m}
<1>1. Len(q) \in Nat /\ Len(Append(q, m)) = Len(q) + 1 /\ Append(q, m)[Len(q) + 1] = m
  OBVIOUS
<1>2. \A k \in 1 .. Len(q) : Append(q, m)[k] = q[k] OBVIOUS
<1>3. PICK n \in Nat : n = Len(q) BY <1>1
<1>4. PICK r \in Seq(Nat) : r = Append(q, m)
  <2>1. Append(q, m) \in Seq(Nat) OBVIOUS
  <2> QED BY <2>1
<1>5. 1 .. n + 1 = (1 .. n) \cup {n + 1} OBVIOUS
<1>6. Len(r) = n + 1 /\ r[n + 1] = m /\ \A k \in 1 .. n : r[k] = q[k]
  BY <1>1, <1>2, <1>3, <1>4
<1>7. ToSet(r) = {r[k] : k \in (1 .. n) \cup {n + 1}} BY <1>5, <1>6 DEF ToSet
<1>8. {r[k] : k \in (1 .. n) \cup {n + 1}} = {q[k] : k \in 1 .. n} \cup {m} BY <1>6
<1> QED BY <1>3, <1>4, <1>7, <1>8 DEF ToSet

\* What the abstract flush sees of a chunk.
LEMMA FlushSets ==
  ASSUME IInv, NEW s \in Stages, NEW c \in Chunks
  PROVE  /\ forward_k[s] \in Nat /\ backward_k[s] \in Nat
         /\ ToSet(fwd[s][c]) = 1 .. Done(forward_k[s], c) /\ Done(forward_k[s], c) \in Nat
         /\ ToSet(bwd[s][c]) = 1 .. Done(backward_k[s], V - 1 - c) /\ Done(backward_k[s], V - 1 - c) \in Nat
         /\ Virtual(s, c) \in 0 .. P * V - 1
         /\ FlushFwd[Virtual(s, c)] = ToSet(fwd[s][c]) /\ FlushBwd[Virtual(s, c)] = ToSet(bwd[s][c])
<1>1. OrderOK(View(s)) /\ forward_k[s] \in Nat /\ backward_k[s] \in Nat
  BY StageIs, ViewIs
<1>2. Upto(fwd[s][c], Done(forward_k[s], c)) /\ Upto(bwd[s][c], Done(backward_k[s], V - 1 - c))
  BY <1>1, ViewIs DEF OrderOK
<1>3. V - 1 - c \in Chunks BY VAssumption DEF Chunks
<1>4. Done(forward_k[s], c) \in Nat BY <1>1, DoneNext
<1>5. Done(backward_k[s], V - 1 - c) \in Nat
  <2>1. PICK j \in Chunks : j = V - 1 - c BY <1>3
  <2>2. Done(backward_k[s], j) \in Nat BY <1>1, DoneNext
  <2> QED BY <2>1, <2>2
<1>6. ToSet(fwd[s][c]) = 1 .. Done(forward_k[s], c) BY <1>2, <1>4, UptoSet
<1>7. ToSet(bwd[s][c]) = 1 .. Done(backward_k[s], V - 1 - c) BY <1>2, <1>5, UptoSet
<1>8. Virtual(s, c) \in 0 .. P * V - 1 /\ Virtual(s, c) % P = s /\ Virtual(s, c) \div P = c
  BY VirtualIs
<1>9. FlushFwd[Virtual(s, c)] = ToSet(fwd[s][c]) /\ FlushBwd[Virtual(s, c)] = ToSet(bwd[s][c])
  BY <1>8 DEF FlushFwd, FlushBwd, OfVirtual
<1> QED BY <1>1, <1>4, <1>5, <1>6, <1>7, <1>8, <1>9

\* F becomes G by a pass of microbatch m on chunk c of stage s ...
OnePass(F, G, s, c, m) ==
  \A t \in Stages, x \in Chunks :
    ToSet(G[t][x]) = IF t = s /\ x = c THEN ToSet(F[t][x]) \cup {m} ELSE ToSet(F[t][x])

\* ... which is a pass on one virtual stage.
LEMMA OneVirtual ==
  ASSUME NEW F, NEW G, NEW s \in Stages, NEW c \in Chunks, NEW m, OnePass(F, G, s, c, m)
  PROVE  OfVirtual(G) = [OfVirtual(F) EXCEPT ![Virtual(s, c)] = @ \cup {m}]
<1> DEFINE A == OfVirtual(F)
           B == OfVirtual(G)
           u == Virtual(s, c)
<1>1. /\ A = [v \in 0 .. P * V - 1 |-> ToSet(F[v % P][v \div P])]
      /\ B = [v \in 0 .. P * V - 1 |-> ToSet(G[v % P][v \div P])]
  BY DEF OfVirtual
<1>2. u \in 0 .. P * V - 1 /\ u % P = s /\ u \div P = c BY VirtualIs
<1>3. ASSUME NEW v \in 0 .. P * V - 1
      PROVE  ToSet(G[v % P][v \div P]) = IF v = u THEN ToSet(F[v % P][v \div P]) \cup {m}
                                         ELSE ToSet(F[v % P][v \div P])
  <2>1. v % P \in Stages /\ v \div P \in Chunks /\ v = Virtual(v % P, v \div P)
    BY VirtualIs
  <2>2. PICK t \in Stages : t = v % P BY <2>1
  <2>3. PICK x \in Chunks : x = v \div P BY <2>1
  <2>4. v = u <=> t = s /\ x = c BY <1>2, <2>1, <2>2, <2>3
  <2>5. ToSet(G[t][x]) = IF t = s /\ x = c THEN ToSet(F[t][x]) \cup {m} ELSE ToSet(F[t][x])
    BY DEF OnePass
  <2> QED BY <2>2, <2>3, <2>4, <2>5
<1> HIDE DEF u
<1>4. B = [v \in 0 .. P * V - 1 |-> IF v = u THEN A[v] \cup {m} ELSE A[v]]
  BY ZenonT(60), <1>1, <1>3
<1>5. A = [v \in 0 .. P * V - 1 |-> A[v]] BY <1>1
<1> HIDE DEF A, B
<1>6. B = [A EXCEPT ![u] = @ \cup {m}] BY <1>2, <1>4, <1>5
<1> QED BY <1>6 DEF A, B, u

\* A pass whose tensor has come is one the neighbouring virtual stage has
\* done.
LEMMA NeighbourDone ==
  ASSUME IInv, NEW s \in Stages, NEW d \in Dirs, Supplied(s, d),
         NEW k, k = Passes(d, View(s)), From(s, d, ChunkAt(d, k)) # -1
  PROVE  LET u == From(s, d, ChunkAt(d, k))
         IN IF d = "prev" THEN Mb(k) \in FlushFwd[u] ELSE Mb(k) \in FlushBwd[u]
<1> DEFINE w == Closes(s, d)
           l == Source(w, k)
<1>1. k \in Int /\ k \in Nat BY DEF Supplied
<1>2. Receiving(w, k) BY <1>1, Delivered
<1>3. PICK t \in Stages : t = Peer(s, d) BY PeerFacts
<1>4. PICK n : n = Passes(d, View(t)) /\ n = (IF d = "prev" THEN forward_k[t] ELSE backward_k[t])
  BY ViewIs DEF Passes
<1>5. Receiving(Closes(s, d), Passes(d, View(s))) BY <1>2
<1>6. /\ l \in Int /\ Mb(l) = Mb(k) /\ Mb(k) \in Int
      /\ Done(n, Pos(l)) >= Mb(k) /\ Done(n, Pos(l)) \in Int
  <2> HIDE DEF Supplied
  <2>1. LET y == Passes(d, View(s))
            z == Source(Closes(s, d), y)
        IN /\ z \in Int /\ Mb(z) = Mb(y) /\ Mb(y) \in Int
           /\ Done(Passes(d, View(Peer(s, d))), Pos(z)) >= Mb(y)
           /\ Done(Passes(d, View(Peer(s, d))), Pos(z)) \in Int
    BY <1>5, PeerAhead
  <2> QED BY <2>1, <1>3, <1>4
<1>7. From(s, d, ChunkAt(d, k)) = Virtual(t, ChunkAt(d, l)) /\ ChunkAt(d, l) \in Chunks
  BY <1>1, <1>2, <1>3, FromPeer
<1>8. PICK x \in Chunks : x = ChunkAt(d, l) BY <1>7
<1>9. Mb(k) >= 1
  <2>1. PICK j \in Chunks : j = Pos(k) BY <1>1, Places
  <2>2. Mb(k) \in Nat \ {0} BY <1>1, DoneNext
  <2> QED BY <2>2
<1>10. Pos(l) \in Chunks BY <1>6, Places
<1> HIDE DEF l, w
<1>11. CASE d = "prev"
  <2>1. x = Pos(l) BY <1>8, <1>11 DEF ChunkAt
  <2>2. FlushFwd[Virtual(t, x)] = 1 .. Done(n, x) BY <1>4, <1>11, FlushSets
  <2>3. Mb(k) \in 1 .. Done(n, x) BY <1>6, <1>9, <2>1
  <2> QED BY <1>7, <1>8, <1>11, <2>2, <2>3
<1>12. CASE d # "prev"
  <2>1. x = V - 1 - Pos(l) /\ V - 1 - x = Pos(l)
    BY <1>8, <1>10, <1>12, VAssumption DEF ChunkAt, Chunks
  <2>2. FlushBwd[Virtual(t, x)] = 1 .. Done(n, V - 1 - x) BY <1>4, <1>12, FlushSets
  <2>3. Mb(k) \in 1 .. Done(n, V - 1 - x) BY <1>6, <1>9, <2>1
  <2> QED BY <1>7, <1>8, <1>12, <2>2, <2>3
<1> QED BY <1>11, <1>12

\* An iteration is on one of the call's microbatches.
LEMMA WithinCall ==
  ASSUME args \in Calls, NEW k \in Nat, k < Total, NEW j \in Chunks, j = Pos(k)
  PROVE  Mb(k) \in 1 .. M /\ Mb(k) = Done(k, j) + 1 /\ Done(k, j) \in Nat
<1>1. M \in Nat \ {0} /\ M % P = 0
  <2>1. PICK s \in Stages : TRUE BY PAssumption DEF Stages
  <2> QED BY <2>1, CallFacts DEF M
<1>2. k + 1 \in Nat /\ M * V \in Nat /\ k + 1 <= M * V
  BY <1>1, VAssumption DEF Total
<1>3. Done(k + 1, j) <= Done(M * V, j) /\ Done(M * V, j) = M
  BY <1>1, <1>2, DoneGrows, DoneAll
<1>4. Done(k + 1, j) = Done(k, j) + 1 /\ Mb(k) = Done(k, j) + 1 /\ Mb(k) \in Nat \ {0} /\ Done(k, j) \in Nat
  BY DoneNext
<1> QED BY <1>1, <1>3, <1>4

\* The chunk a forward pass is to run has room for its activations.
Room(s) ==
  LET p == Pos(forward_k[s])
  IN Done(forward_k[s], p) < Done(backward_k[s], V - 1 - p) + ActivationLimit(s, p)

\* It has in both loops, and with all microbatches in the warmup.
LEMMA RoomFor ==
  ASSUME IInv, NEW s \in Stages, forward_k[s] < Total,
         \/ AllWarmup
         \/ forward_k[s] <= backward_k[s] + (P - s - 1) * 2 + (V - 1) * P
  PROVE  Room(s) /\ \A c \in Chunks : ActivationLimit(s, c) \in Nat \ {0}
<1>1. forward_k[s] \in Nat /\ backward_k[s] \in Nat /\ args \in Calls
  BY StageIs, ViewIs
<1>2. \A c \in Chunks : ActivationLimit(s, c) \in Nat /\ ActivationLimit(s, c) >= P
  <2>1. ASSUME NEW c \in Chunks PROVE ActivationLimit(s, c) \in Nat /\ ActivationLimit(s, c) >= P
    <3>1. PICK n \in Nat : n = (P - s - 1) * 2 + (V - c - 1) * P + 1
      <4>1. P - s - 1 \in Nat /\ V - c - 1 \in Nat
        BY PAssumption, VAssumption DEF Stages, Chunks
      <4>2. (V - c - 1) * P \in Nat /\ (P - s - 1) * 2 \in Nat BY <4>1, PAssumption
      <4> QED BY <4>2
    <3>2. Max2(P, Min2(2 * P, n)) \in Nat /\ Max2(P, Min2(2 * P, n)) >= P
      BY <3>1, PAssumption DEF Max2, Min2
    <3> QED BY <3>1, <3>2 DEF ActivationLimit
  <2> QED BY <2>1
<1>3. PICK p \in Chunks : p = Pos(forward_k[s]) BY <1>1, Places
<1>4. PICK L \in Nat : L = ActivationLimit(s, p) /\ L >= P BY <1>2
<1>5. Done(forward_k[s], p) < Done(backward_k[s], V - 1 - p) + L
  <2>1. CASE AllWarmup
    <3>1. M = P BY <2>1 DEF AllWarmup
    <3>2. Mb(forward_k[s]) \in 1 .. M /\ Mb(forward_k[s]) = Done(forward_k[s], p) + 1 /\ Done(forward_k[s], p) \in Nat
      BY <1>1, <1>3, WithinCall
    <3>3. Done(backward_k[s], V - 1 - p) \in Nat BY FlushSets
    <3> QED BY <1>4, <3>1, <3>2, <3>3, PAssumption
  <2>2. CASE forward_k[s] <= backward_k[s] + (P - s - 1) * 2 + (V - 1) * P
    <3>1. PICK k \in Nat : k = forward_k[s] BY <1>1
    <3>2. PICK b \in Nat : b = backward_k[s] BY <1>1
    <3>3. p = Pos(k) /\ k <= b + (P - s - 1) * 2 + (V - 1) * P
      BY <1>3, <2>2, <3>1, <3>2
    <3>4. Done(k, p) < Done(b, V - 1 - p) + ActivationLimit(s, p) BY <3>3, Window
    <3> QED BY <1>4, <3>1, <3>2, <3>4
  <2> QED BY <2>1, <2>2
<1>6. Room(s) BY <1>3, <1>4, <1>5 DEF Room
<1>7. \A c \in Chunks : ActivationLimit(s, c) \in Nat \ {0} BY <1>2, PAssumption
<1> QED BY <1>6, <1>7

\* A stage that is a passes forward and b backward holds a - b.
LEMMA Between ==
  ASSUME NEW a \in Nat, NEW b \in Nat, NEW L \in Nat \ {0}, a < b + L
  PROVE  Cardinality((1 .. a) \ (1 .. b)) < L
<1>1. (1 .. a) \ (1 .. b) = b + 1 .. a OBVIOUS
<1>2. Cardinality(b + 1 .. a) = IF b + 1 > a THEN 0 ELSE a - (b + 1) + 1
  BY FS_Interval
<1>3. (IF b + 1 > a THEN 0 ELSE a - (b + 1) + 1) < L OBVIOUS
<1>4. Cardinality(b + 1 .. a) < L BY <1>2, <1>3
<1> QED BY <1>1, <1>4

\* The Cardinality of the instance is that of FiniteSets.
LEMMA FlushCardinality == \A S : Flush!Cardinality(S) = Cardinality(S)
BY DEF Flush!Cardinality, Cardinality

\* The forward pass of a stage is one of the abstract flush.
LEMMA ForwardFlush ==
  ASSUME IInv, NEW s \in Stages, ForwardReady(s), args' = args,
         ~args.forward_only => AllWarmup \/ forward_k[s] <= backward_k[s] + (P - s - 1) * 2 + (V - 1) * P,
         \A t \in Stages : bwd'[t] = bwd[t] /\ (t # s => fwd'[t] = fwd[t]),
         fwd'[s] = [fwd[s] EXCEPT ![Chunk(forward_k[s], TRUE)] = Append(@, Output(s).mb)]
  PROVE  Flush!Next
<1>1. PICK k \in Nat : k = forward_k[s] /\ k < Total /\ args \in Calls
  BY ForwardFacts DEF ForwardReady
<1>2. PICK p \in Chunks : p = Pos(k) /\ p = Chunk(k, TRUE)
  <2>1. k \in Int BY <1>1
  <2>2. Pos(k) \in Chunks BY <2>1, Places
  <2>3. Chunk(k, TRUE) = Pos(k) BY Terms
  <2> QED BY <2>2, <2>3
<1>3. PICK m \in 1 .. M : m = Mb(k) /\ m = Done(k, p) + 1 /\ m = Output(s).mb
  BY <1>1, <1>2, WithinCall, OutputIs
<1>4. m \in Nat /\ m >= 1
  <2>1. M \in Nat BY <1>1, CallFacts DEF M
  <2> QED BY <1>3, <2>1
<1>5. PICK v \in 0 .. P * V - 1 : v = Virtual(s, p) /\ v % P = s /\ v \div P = p
  BY VirtualIs
<1>6. /\ FlushFwd[v] = 1 .. Done(k, p) /\ Done(k, p) \in Nat
      /\ FlushBwd[v] = 1 .. Done(backward_k[s], V - 1 - p) /\ Done(backward_k[s], V - 1 - p) \in Nat
  BY <1>1, <1>5, FlushSets
<1>7. m \notin FlushFwd[v] BY <1>3, <1>4, <1>6
<1>8. v > 0 => m \in FlushFwd[v - 1]
  <2> SUFFICES ASSUME v > 0 PROVE m \in FlushFwd[v - 1]
    OBVIOUS
  <2>1. Supplied(s, "prev") /\ Passes("prev", View(s)) = k
    BY <1>1, ViewIs, Terms DEF Supplied, Passes, Expects, ForwardReady, Recv
  <2>4. v \in Nat /\ v - 1 # -1 BY <1>5, Sizes
  <2>2. ChunkAt("prev", k) = p /\ From(s, "prev", p) = v - 1 /\ v - 1 # -1
    <3>1. ChunkAt("prev", k) = p BY <1>2 DEF ChunkAt
    <3>2. From(s, "prev", p) = v - 1 BY <1>5 DEF From
    <3> QED BY <2>4, <3>1, <3>2
  <2>3. IF "prev" = "prev" THEN Mb(k) \in FlushFwd[From(s, "prev", ChunkAt("prev", k))]
        ELSE Mb(k) \in FlushBwd[From(s, "prev", ChunkAt("prev", k))]
    BY <2>1, <2>2, NeighbourDone, DirFacts
  <2> QED BY <1>3, <2>2, <2>3
<1>9. ~args.forward_only => Cardinality(FlushFwd[v] \ FlushBwd[v]) < ActivationLimit(v % P, v \div P)
  <2> SUFFICES ASSUME ~args.forward_only
               PROVE  Cardinality(FlushFwd[v] \ FlushBwd[v]) < ActivationLimit(v % P, v \div P)
    OBVIOUS
  <2>1. Room(s) /\ ActivationLimit(s, p) \in Nat \ {0} BY <1>1, RoomFor
  <2>2. Done(k, p) < Done(backward_k[s], V - 1 - p) + ActivationLimit(s, p)
    BY <1>1, <1>2, <2>1 DEF Room
  <2>3. Cardinality((1 .. Done(k, p)) \ (1 .. Done(backward_k[s], V - 1 - p))) < ActivationLimit(s, p)
    BY <1>6, <2>1, <2>2, Between
  <2> QED BY <1>5, <1>6, <2>3
<1>10. FlushFwd' = [FlushFwd EXCEPT ![v] = @ \cup {m}]
  <2>1. OnePass(fwd, fwd', s, p, m)
    <3>1. fwd[s] \in [Chunks -> Seq(Nat)] BY ForwardFacts
    <3>2. fwd'[s] = [fwd[s] EXCEPT ![p] = Append(@, m)] BY <1>1, <1>2, <1>3
    <3>3. fwd'[s][p] = Append(fwd[s][p], m) /\ \A x \in Chunks : x # p => fwd'[s][x] = fwd[s][x]
      BY <3>1, <3>2
    <3>4. ToSet(Append(fwd[s][p], m)) = ToSet(fwd[s][p]) \cup {m}
      BY <1>4, <3>1, AppendSet
    <3> QED BY <3>3, <3>4 DEF OnePass
  <2>2. OfVirtual(fwd') = [OfVirtual(fwd) EXCEPT ![Virtual(s, p)] = @ \cup {m}]
    BY <2>1, OneVirtual
  <2>3. FlushFwd' = OfVirtual(fwd') BY DEF FlushFwd, OfVirtual, ToSet
  <2> QED BY <1>5, <2>2, <2>3 DEF FlushFwd
<1>11. FlushBwd' = FlushBwd
  <2>1. \A u \in 0 .. P * V - 1 : u % P \in Stages BY VirtualIs
  <2> QED BY <2>1 DEF FlushBwd, OfVirtual, ToSet
<1>12. M' = M BY DEF M
<1>13. Flush!Forward(v, m)
  <2>1. [u \in 0 .. P * V - 1 |-> ActivationLimit(u % P, u \div P)][v] = ActivationLimit(v % P, v \div P)
    OBVIOUS
  <2>2. ~args.forward_only =>
          Flush!Cardinality(FlushFwd[v] \ FlushBwd[v])
            < [u \in 0 .. P * V - 1 |-> ActivationLimit(u % P, u \div P)][v]
    BY <1>9, <2>1, FlushCardinality
  <2>3. UNCHANGED <<M, args.forward_only, FlushBwd>> BY <1>11, <1>12
  <2> QED BY <1>7, <1>8, <1>10, <2>2, <2>3 DEF Flush!Forward, FlushFwd, FlushBwd
<1>14. v \in Flush!Stages /\ m \in Flush!Microbatches
  BY DEF Flush!Stages, Flush!Microbatches
<1> QED BY <1>13, <1>14 DEF Flush!Next

\* And so is its backward pass.
LEMMA BackwardFlush ==
  ASSUME IInv, NEW s \in Stages, BackwardReady(s), args' = args,
         \A t \in Stages : fwd'[t] = fwd[t] /\ (t # s => bwd'[t] = bwd[t]),
         bwd'[s] = [bwd[s] EXCEPT ![Chunk(backward_k[s], FALSE)] = Append(@, Passed(s))]
  PROVE  Flush!Next
<1>1. PICK k \in Nat : k = backward_k[s] /\ k < Total /\ args \in Calls
  BY BackwardFacts DEF BackwardReady
<1>2. PICK p \in Chunks : p = Chunk(k, FALSE) /\ p = V - 1 - Pos(k) /\ V - 1 - p = Pos(k)
  BY <1>1, PassedIs
<1>3. PICK j \in Chunks : j = Pos(k) BY <1>1, Places
<1>4. PICK m \in 1 .. M : m = Mb(k) /\ m = Done(k, j) + 1 /\ m = Passed(s)
  BY <1>3, <1>1, WithinCall, PassedIs
<1>5. m \in Nat /\ m >= 1
  <2>1. M \in Nat BY <1>1, CallFacts DEF M
  <2> QED BY <1>4, <2>1
<1>6. PICK v \in 0 .. P * V - 1 : v = Virtual(s, p) /\ v % P = s /\ v \div P = p
  BY VirtualIs
<1>7. /\ FlushFwd[v] = 1 .. Done(forward_k[s], p) /\ Done(forward_k[s], p) \in Nat
      /\ FlushBwd[v] = 1 .. Done(k, V - 1 - p) /\ Done(k, V - 1 - p) \in Nat
  BY <1>1, <1>6, FlushSets
<1>8. m \in FlushFwd[v] \ FlushBwd[v]
  <2>1. Done(k, j) < Done(forward_k[s], p) BY <1>3, <1>1, <1>2, BackwardFacts
  <2>2. FlushBwd[v] = 1 .. Done(k, j) /\ Done(k, j) \in Nat BY <1>3, <1>2, <1>7
  <2> QED BY <1>4, <1>5, <1>7, <2>1, <2>2
<1>9. v < P * V - 1 => m \in FlushBwd[v + 1]
  <2> SUFFICES ASSUME v < P * V - 1 PROVE m \in FlushBwd[v + 1]
    OBVIOUS
  <2>1. Supplied(s, "next") /\ Passes("next", View(s)) = k
    BY <1>1, ViewIs, Terms, DirFacts DEF Supplied, Passes, Expects, BackwardReady, Recv
  <2>2. ~LastVirtual(s, p) BY <1>6, VirtualFacts, Sizes
  <2>5. v + 1 # -1 BY SMTT(60), <1>6, Sizes
  <2>3. ChunkAt("next", k) = p /\ From(s, "next", p) = v + 1 /\ v + 1 # -1
    <3>1. ChunkAt("next", k) = p BY <1>2, DirFacts DEF ChunkAt
    <3>2. From(s, "next", p) = v + 1 BY <1>6, <2>2, DirFacts DEF From
    <3> QED BY <2>5, <3>1, <3>2
  <2>4. IF "next" = "prev" THEN Mb(k) \in FlushFwd[From(s, "next", ChunkAt("next", k))]
        ELSE Mb(k) \in FlushBwd[From(s, "next", ChunkAt("next", k))]
    BY <2>1, <2>3, NeighbourDone, DirFacts
  <2> QED BY <1>4, <2>3, <2>4, DirFacts
<1>10. FlushBwd' = [FlushBwd EXCEPT ![v] = @ \cup {m}]
  <2>1. OnePass(bwd, bwd', s, p, m)
    <3>1. bwd[s] \in [Chunks -> Seq(Nat)] BY BackwardFacts
    <3>2. bwd'[s] = [bwd[s] EXCEPT ![p] = Append(@, m)] BY <1>1, <1>2, <1>4
    <3>3. bwd'[s][p] = Append(bwd[s][p], m) /\ \A x \in Chunks : x # p => bwd'[s][x] = bwd[s][x]
      BY <3>1, <3>2
    <3>4. ToSet(Append(bwd[s][p], m)) = ToSet(bwd[s][p]) \cup {m}
      BY <1>5, <3>1, AppendSet
    <3> QED BY <3>3, <3>4 DEF OnePass
  <2>2. OfVirtual(bwd') = [OfVirtual(bwd) EXCEPT ![Virtual(s, p)] = @ \cup {m}]
    BY <2>1, OneVirtual
  <2>3. FlushBwd' = OfVirtual(bwd') BY DEF FlushBwd, OfVirtual, ToSet
  <2> QED BY <1>6, <2>2, <2>3 DEF FlushBwd
<1>11. FlushFwd' = FlushFwd
  <2>1. \A u \in 0 .. P * V - 1 : u % P \in Stages BY VirtualIs
  <2> QED BY <2>1 DEF FlushFwd, OfVirtual, ToSet
<1>12. M' = M BY DEF M
<1>13. ~args.forward_only BY DEF BackwardReady
<1>14. Flush!Backward(v, m)
  BY <1>8, <1>9, <1>10, <1>11, <1>12, <1>13 DEF Flush!Backward, FlushFwd, FlushBwd
<1>15. v \in Flush!Stages /\ m \in Flush!Microbatches
  BY DEF Flush!Stages, Flush!Microbatches
<1> QED BY <1>14, <1>15 DEF Flush!Next

\* A step without a pass is a stutter of the abstract flush.
LEMMA FlushStutter ==
  ASSUME args' = args, \A t \in Stages : fwd'[t] = fwd[t] /\ bwd'[t] = bwd[t]
  PROVE  UNCHANGED Flush!vars
<1>1. \A u \in 0 .. P * V - 1 : u % P \in Stages BY VirtualIs
<1>2. OfVirtual(fwd)' = OfVirtual(fwd) /\ OfVirtual(bwd)' = OfVirtual(bwd)
  BY <1>1 DEF OfVirtual, ToSet
<1>3. M' = M BY DEF M
<1> QED BY <1>2, <1>3 DEF Flush!vars

\* What the other stages have passed does not change.
LEMMA SameViews ==
  ASSUME NEW t, View(t)' = View(t)
  PROVE  fwd'[t] = fwd[t] /\ bwd'[t] = bwd[t]
BY DEF View

\* Every forward and backward pass of a stage is a step of the flush.
LEMMA PassFlush ==
  ASSUME IInv, NEW s \in Stages,
         Warmup(s) \/ SteadyForward(s) \/ SteadyBackward(s) \/ Cooldown(s)
  PROVE  Flush!Next
<1>1. /\ args \in Calls /\ StageOK(args, s, View(s)) /\ CountOK(args, s, View(s)) /\ ByStage
      /\ forward_k[s] \in Nat /\ backward_k[s] \in Nat
      /\ View(s).label = pc[s] /\ View(s).f = forward_k[s] /\ View(s).b = backward_k[s]
      /\ View(s).fwd = fwd[s] /\ View(s).bwd = bwd[s]
  BY StageIs, ViewIs
<1>2. /\ View(s)'.fwd = fwd'[s] /\ View(s)'.bwd = bwd'[s] BY DEF View
<1>3. Total = TotalOf(args) /\ NumWarmup(s) = WarmupOf(args, s) /\ AllWarmup = AllWarmupOf(args)
  BY Terms
<1>4. CASE Warmup(s)
  <2>1. /\ pc[s] = "warmup" /\ reqs[s] = {} /\ forward_k[s] < NumWarmup(s)
    BY <1>4 DEF Warmup, At
  <2>2. /\ WarmupOf(args, s) \in Nat /\ TotalOf(args) \in Nat /\ WarmupOf(args, s) <= TotalOf(args)
        /\ ~args.forward_only /\ ~AllWarmupOf(args) => WarmupOf(args, s) = (P - s - 1) * 2 + (V - 1) * P
    BY <1>1, CallFacts
  <2>3. forward_k[s] < Total BY <1>1, <1>3, <2>1, <2>2
  <2>4. ForwardReady(s) BY <1>1, <2>1, <2>3 DEF ForwardReady
  <2>5. backward_k[s] = 0 BY <1>1, <2>1 DEF CountOK
  <2>6. ~args.forward_only =>
          AllWarmup \/ forward_k[s] <= backward_k[s] + (P - s - 1) * 2 + (V - 1) * P
    <3>1. ASSUME ~args.forward_only, ~AllWarmup
          PROVE  forward_k[s] <= backward_k[s] + (P - s - 1) * 2 + (V - 1) * P
      <4>1. PICK W \in Nat : W = WarmupOf(args, s) /\ W = (P - s - 1) * 2 + (V - 1) * P
        BY <1>3, <2>2, <3>1
      <4>2. forward_k[s] < W BY <1>3, <2>1, <4>1
      <4>3. forward_k[s] <= backward_k[s] + W BY <1>1, <2>5, <4>1, <4>2
      <4>4. PICK x \in Int, y \in Int : x = (P - s - 1) * 2 /\ y = (V - 1) * P
        BY PAssumption, VAssumption DEF Stages
      <4>5. PICK f \in Nat, b \in Nat : f = forward_k[s] /\ b = backward_k[s]
        BY <1>1
      <4>6. f <= b + x + y BY <4>1, <4>3, <4>4, <4>5
      <4> QED BY <4>4, <4>5, <4>6
    <3> QED BY <3>1
  <2>7. /\ args' = args /\ \A t \in Stages : t # s => View(t)' = View(t)
        /\ View(s)'.fwd = [View(s).fwd EXCEPT ![Chunk(forward_k[s], TRUE)] = Append(@, Output(s).mb)]
        /\ View(s)'.bwd = View(s).bwd
    BY <1>1, <1>4, WarmupFrame
  <2>8. fwd'[s] = [fwd[s] EXCEPT ![Chunk(forward_k[s], TRUE)] = Append(@, Output(s).mb)] /\ bwd'[s] = bwd[s]
    BY <1>1, <1>2, <2>7
  <2>9. \A t \in Stages : bwd'[t] = bwd[t] /\ (t # s => fwd'[t] = fwd[t])
    BY <2>7, <2>8, SameViews
  <2> QED BY <2>4, <2>6, <2>7, <2>8, <2>9, ForwardFlush
<1>5. CASE SteadyForward(s)
  <2>1. pc[s] = "steady" /\ reqs[s] = {} BY <1>5 DEF SteadyForward, At
  <2>2. /\ forward_k[s] = WarmupOf(args, s) + backward_k[s] /\ forward_k[s] < TotalOf(args)
        /\ ~args.forward_only /\ ~AllWarmupOf(args)
    BY <1>1, <2>1 DEF CountOK
  <2>3. ForwardReady(s) BY <1>1, <1>3, <2>1, <2>2 DEF ForwardReady
  <2>4. forward_k[s] <= backward_k[s] + (P - s - 1) * 2 + (V - 1) * P
    <3>1. WarmupOf(args, s) = (P - s - 1) * 2 + (V - 1) * P BY <1>1, <2>2, CallFacts
    <3>2. PICK x \in Int, y \in Int : x = (P - s - 1) * 2 /\ y = (V - 1) * P
      BY PAssumption, VAssumption DEF Stages
    <3>3. PICK f \in Nat, b \in Nat : f = forward_k[s] /\ b = backward_k[s] BY <1>1
    <3>4. f <= b + x + y BY <2>2, <3>1, <3>2, <3>3
    <3> QED BY <3>2, <3>3, <3>4
  <2>7. /\ args' = args /\ \A t \in Stages : t # s => View(t)' = View(t)
        /\ View(s)'.fwd = [View(s).fwd EXCEPT ![Chunk(forward_k[s], TRUE)] = Append(@, Output(s).mb)]
        /\ View(s)'.bwd = View(s).bwd
    BY <1>1, <1>5, SteadyForwardFrame
  <2>8. fwd'[s] = [fwd[s] EXCEPT ![Chunk(forward_k[s], TRUE)] = Append(@, Output(s).mb)] /\ bwd'[s] = bwd[s]
    BY <1>1, <1>2, <2>7
  <2>9. \A t \in Stages : bwd'[t] = bwd[t] /\ (t # s => fwd'[t] = fwd[t])
    BY <2>7, <2>8, SameViews
  <2> QED BY <2>3, <2>4, <2>7, <2>8, <2>9, ForwardFlush
<1>6. CASE SteadyBackward(s)
  <2>1. pc[s] = "steady_backward" /\ reqs[s] = {} /\ BackwardStep(s, Passed(s))
    BY <1>6 DEF SteadyBackward, At
  <2>2. /\ forward_k[s] = WarmupOf(args, s) + backward_k[s] + 1 /\ ~args.forward_only
    BY <1>1, <2>1 DEF CountOK
  <2>3. backward_k[s] < Total
    <3>1. forward_k[s] <= TotalOf(args) /\ TotalOf(args) \in Nat
      BY <1>1, StageIs DEF TypesOK
    <3>2. WarmupOf(args, s) \in Nat BY <1>1, CallFacts
    <3> QED BY <1>1, <1>3, <2>2, <3>1, <3>2
  <2>4. BackwardReady(s) BY <1>1, <2>1, <2>2, <2>3 DEF BackwardReady
  <2>5. /\ args' = args /\ (\A t \in Stages : t # s => View(t)' = View(t))
        /\ View(s)'.fwd = View(s).fwd
    BY <1>1, <1>6, SteadyBackwardFrame
  <2>6. bwd'[s] = [bwd[s] EXCEPT ![Chunk(backward_k[s], FALSE)] = Append(@, Passed(s))]
    BY <1>1, <2>1 DEF BackwardStep, ByStage
  <2>7. \A t \in Stages : fwd'[t] = fwd[t] /\ (t # s => bwd'[t] = bwd[t])
    BY <1>1, <1>2, <2>5, SameViews
  <2> QED BY <2>4, <2>5, <2>6, <2>7, BackwardFlush
<1>7. CASE Cooldown(s)
  <2>1. /\ pc[s] = "cooldown" /\ reqs[s] = {} /\ BackwardStep(s, Passed(s))
        /\ ~args.forward_only /\ backward_k[s] < Total
    BY <1>7 DEF Cooldown, At
  <2>4. BackwardReady(s) BY <1>1, <2>1 DEF BackwardReady
  <2>5. /\ args' = args /\ (\A t \in Stages : t # s => View(t)' = View(t))
        /\ View(s)'.fwd = View(s).fwd
    BY <1>1, <1>7, CooldownFrame
  <2>6. bwd'[s] = [bwd[s] EXCEPT ![Chunk(backward_k[s], FALSE)] = Append(@, Passed(s))]
    BY <1>1, <2>1 DEF BackwardStep, ByStage
  <2>7. \A t \in Stages : fwd'[t] = fwd[t] /\ (t # s => bwd'[t] = bwd[t])
    BY <1>1, <1>2, <2>5, SameViews
  <2> QED BY <2>4, <2>5, <2>6, <2>7, BackwardFlush
<1> QED BY <1>4, <1>5, <1>6, <1>7

\* Every step of the schedule is one of the abstract flush, or a stutter.
LEMMA FlushStep ==
  ASSUME IInv, [Next]_vars
  PROVE  [Flush!Next]_Flush!vars
<1>1. ASSUME Transfer PROVE UNCHANGED Flush!vars
  <2>1. args' = args /\ fwd' = fwd /\ bwd' = bwd
    BY <1>1 DEF Transfer, Buffer, Receive, Handover, Computed
  <2> QED BY <2>1, FlushStutter
<1>2. ASSUME NEW s \in Stages, Step(s) PROVE Flush!Next \/ UNCHANGED Flush!vars
  <2>1. CASE Warmup(s) \/ SteadyForward(s) \/ SteadyBackward(s) \/ Cooldown(s)
    BY <2>1, PassFlush
  <2>2. CASE Start(s) \/ EndWarmup(s) \/ Finish(s)
    <3>1. args' = args /\ fwd' = fwd /\ bwd' = bwd
      BY <2>2 DEF Start, EndWarmup, Finish
    <3> QED BY <3>1, FlushStutter
  <2> QED BY <1>2, <2>1, <2>2 DEF Step
<1>3. ASSUME UNCHANGED vars PROVE UNCHANGED Flush!vars
  <2>1. args' = args /\ fwd' = fwd /\ bwd' = bwd BY <1>3 DEF vars
  <2> QED BY <2>1, FlushStutter
<1> QED BY <1>1, <1>2, <1>3 DEF Next, Returned

\* The schedule starts where the abstract flush does.
LEMMA FlushInit == Init => Flush!Init
<1> SUFFICES ASSUME Init PROVE Flush!Init
  OBVIOUS
<1>1. M \in Nat \ {0} /\ args.forward_only \in BOOLEAN
  <2>1. args \in Calls BY DEF Init
  <2>2. PICK s \in Stages : TRUE BY PAssumption DEF Stages
  <2> QED BY <2>1, <2>2, CallFacts DEF M
<1>2. \A v \in 0 .. P * V - 1 :
        ToSet(fwd[v % P][v \div P]) = {} /\ ToSet(bwd[v % P][v \div P]) = {}
  <2>1. ASSUME NEW s \in Stages, NEW c \in Chunks PROVE ToSet(fwd[s][c]) = {} /\ ToSet(bwd[s][c]) = {}
    <3>1. fwd[s][c] = <<>> /\ bwd[s][c] = <<>> BY DEF Init
    <3>2. ToSet(<<>>) = {} BY DEF ToSet
    <3> QED BY <3>1, <3>2
  <2> QED BY <2>1, VirtualIs
<1>3. OfVirtual(fwd) = [v \in 0 .. P * V - 1 |-> {}] /\ OfVirtual(bwd) = [v \in 0 .. P * V - 1 |-> {}]
  BY <1>2 DEF OfVirtual
<1> QED BY <1>1, <1>3 DEF Flush!Init, Flush!Stages

\* The safety part of ImplementsFlush: every behaviour of the interleaved
\* schedule is one of the abstract flush over the P * V virtual stages: a
\* microbatch's forward pass on chunk c of stage s follows the one on the
\* virtual stage before, its backward pass the one on the virtual stage
\* after, and the chunk never holds more than ActivationLimit(s, c)
\* activations.
THEOREM ImplementsFlushSafety == Spec => Flush!Init /\ [][Flush!Next]_Flush!vars
<1> QED BY FlushInit, FlushStep, Invariant, PTL DEF Spec
=============================================================================
