------------------------ MODULE ErasureCodingProofs ------------------------
(***************************************************************************)
(* Proofs about ErasureCoding, for every alphabet, length of the prefix,   *)
(* object and number of lost shards.                                       *)
(*                                                                         *)
(* RoundTrip is about what the operators compute: the length prefix is     *)
(* read back (repeated division against Horner's rule), the shards cut     *)
(* and joined again are the padded bytes, and the first ones of these are  *)
(* the object.  RoundInv adds that shards are lost whole.                  *)
(*                                                                         *)
(* GivenUpNotServed compares a count of nodes (is_recoverable) with what   *)
(* get_chunks reads.  ServedInv says what a served object tells of the     *)
(* shards; the rest is counting.                                           *)
(***************************************************************************)
EXTENDS ErasureCoding, FiniteSetTheorems, SequenceTheorems, NaturalsInduction,
        WellFoundedInduction, TLAPS

\* The shards are those of the policy, and the lost ones are missing.
ShardsInv ==
    /\ policy \in Policy
    /\ DOMAIN shards = 0..(erasure_coding(policy).data + erasure_coding(policy).parity - 1)
    /\ lost \subseteq DOMAIN shards
    /\ \A i \in lost : shards[i] = Missing

\* An object that was served had all its data shards.
ServedWhole ==
    result \notin {NotRead, Error} =>
        \A i \in 0..(erasure_coding(policy).data - 1) : shards[i] # Missing

ServedInv == ShardsInv /\ ServedWhole

\* The two policy tables and the threshold of is_recoverable agree: as many shards
\* are needed as put_chunks makes data shards.
LEMMA TablesAgree ==
  ASSUME NEW p \in Policy
  PROVE  /\ erasure_coding(p).data = Needed(p)
         /\ erasure_coding(p).data \in Nat /\ erasure_coding(p).parity \in Nat
         /\ get_chunks_policy(p) = erasure_coding(p)
<1>1. p \in {"hot", "warm", "cold", "archive"}
  BY DEF Policy
<1>2. CASE p = "hot"
  BY <1>2 DEF erasure_coding, get_chunks_policy, Needed
<1>3. CASE p = "warm"
  BY <1>3 DEF erasure_coding, get_chunks_policy, Needed
<1>4. CASE p = "cold"
  BY <1>4 DEF erasure_coding, get_chunks_policy, Needed
<1>5. CASE p = "archive"
  BY <1>5 DEF erasure_coding, get_chunks_policy, Needed
<1> QED BY <1>1, <1>2, <1>3, <1>4, <1>5

\* Every policy has a data shard.
LEMMA PolicyNumbers ==
  ASSUME NEW p \in Policy
  PROVE  /\ erasure_coding(p).data \in Nat \ {0}
         /\ erasure_coding(p).parity \in Nat /\ erasure_coding(p).level \in Nat
<1>1. p \in {"hot", "warm", "cold", "archive"}
  BY DEF Policy
<1>2. CASE p = "hot"
  BY <1>2 DEF erasure_coding
<1>3. CASE p = "warm"
  BY <1>3 DEF erasure_coding
<1>4. CASE p = "cold"
  BY <1>4 DEF erasure_coding
<1>5. CASE p = "archive"
  BY <1>5 DEF erasure_coding
<1> QED BY <1>1, <1>2, <1>3, <1>4, <1>5

\* put_chunks writes every shard of its policy.
LEMMA ServedInit == Init => ServedInv
<1>1. SUFFICES ASSUME Init PROVE ServedInv
  OBVIOUS
<1>2. policy \in Policy /\ lost = {} /\ result = NotRead
  BY <1>1 DEF Init
<1>3. shards = encode_erasure(compress(data, erasure_coding(policy).level),
                              erasure_coding(policy).data, erasure_coding(policy).parity)
  BY <1>1 DEF Init
<1>4. \A bytes, k, m : DOMAIN encode_erasure(bytes, k, m) = 0..(k + m - 1)
  BY DEF encode_erasure
<1> QED BY <1>2, <1>3, <1>4 DEF ServedInv, ShardsInv, ServedWhole

\* Shards are lost only before the read; the read finds a missing data shard.
LEMMA ServedStep ==
  ASSUME ServedInv, [Next]_vars
  PROVE  ServedInv'
<1>1. ASSUME NEW i \in DOMAIN shards, Lose(i) PROVE ServedInv'
  <2>1. /\ result = NotRead /\ result' = result /\ policy' = policy
        /\ shards' = [shards EXCEPT ![i] = Missing] /\ lost' = lost \cup {i}
    BY <1>1 DEF Lose
  <2>2. DOMAIN shards' = DOMAIN shards
    BY <2>1
  <2>3. \A j \in lost' : shards'[j] = Missing
    BY <1>1, <2>1 DEF ServedInv, ShardsInv
  <2> QED BY <1>1, <2>1, <2>2, <2>3 DEF ServedInv, ShardsInv, ServedWhole
<1>2. CASE Get
  <2>1. /\ result' = get_chunks(shards, policy, data)
        /\ policy' = policy /\ shards' = shards /\ lost' = lost
    BY <1>2 DEF Get
  <2>2. policy \in Policy
    BY DEF ServedInv, ShardsInv
  <2>3. (\E i \in 0..(get_chunks_policy(policy).data - 1) : shards[i] = Missing)
          => get_chunks(shards, policy, data) = Error
    BY DEF get_chunks
  <2>4. result' # Error =>
          \A i \in 0..(erasure_coding(policy).data - 1) : shards[i] # Missing
    BY <2>1, <2>2, <2>3, TablesAgree
  <2> QED BY <2>1, <2>4 DEF ServedInv, ShardsInv, ServedWhole
<1>3. CASE UNCHANGED vars
  BY <1>3 DEF vars, ServedInv, ShardsInv, ServedWhole
<1> QED BY <1>1, <1>2, <1>3 DEF Next

\* put_chunks and get_chunks: a served object had every data shard.
THEOREM ServedKept == Spec => []ServedInv
BY ServedInit, ServedStep, PTL DEF Spec

\* is_recoverable and get_chunks: what the one gives up the other never serves,
\* whichever shards are lost.
THEOREM GivenUpStays == Spec => []GivenUpNotServed
<1>1. ASSUME ServedInv, result \notin {NotRead, Error}
      PROVE  is_recoverable(DOMAIN shards, policy, lost)
  <2> DEFINE k == erasure_coding(policy).data
             m == erasure_coding(policy).parity
  <2>1. k \in Nat /\ m \in Nat /\ k = Needed(policy)
    BY <1>1, TablesAgree DEF ServedInv, ShardsInv
  <2>2. DOMAIN shards = 0..(k + m - 1) /\ \A i \in lost : shards[i] = Missing
    BY <1>1 DEF ServedInv, ShardsInv
  <2>3. \A i \in 0..(k - 1) : shards[i] # Missing
    BY <1>1 DEF ServedInv, ServedWhole
  <2> HIDE DEF k, m
  <2>4. 0..(k - 1) \subseteq DOMAIN shards \ lost
    BY <2>1, <2>2, <2>3
  <2>5. IsFiniteSet(DOMAIN shards) /\ IsFiniteSet(DOMAIN shards \ lost)
    <3>1. IsFiniteSet(0..(k + m - 1))
      BY <2>1, FS_Interval
    <3> QED BY <2>2, <3>1, FS_Subset
  <2>6. Cardinality(0..(k - 1)) = k
    BY <2>1, FS_Interval
  <2>7. Cardinality(0..(k - 1)) <= Cardinality(DOMAIN shards \ lost)
    BY <2>4, <2>5, FS_Subset
  <2>8. Cardinality(DOMAIN shards \ lost) \in Nat
    BY <2>5, FS_CardinalityType
  <2> QED BY <2>1, <2>6, <2>7, <2>8 DEF is_recoverable
<1>2. ServedInv => GivenUpNotServed
  BY <1>1 DEF GivenUpNotServed
<1> QED BY <1>2, ServedKept, PTL
-----------------------------------------------------------------------------
(* Recursive functions *)

\* Induction, for a set of numbers.
LEMMA Induction ==
  ASSUME NEW T, 0 \in T, \A i \in Nat : i \in T => i + 1 \in T
  PROVE  \A i \in Nat : i \in T
<1> DEFINE R == {ss \in Nat \X Nat : ss[1] < ss[2]}
           F == Nat \ T
<1>1. SUFFICES ASSUME F # {} PROVE FALSE
  OBVIOUS
<1>2. IsWellFoundedOn(R, Nat)
  BY NatLessThanWellFounded DEF OpToRel
<1>3. F \subseteq Nat
  OBVIOUS
<1> HIDE DEF R, F
<1>4. PICK x \in F : \A y \in F : ~ (<<y, x>> \in R)
  BY <1>1, <1>2, <1>3, WFMin
<1>5. x \in Nat /\ x # 0
  BY <1>4, <1>3 DEF F
<1>6. x - 1 \in Nat /\ x - 1 \notin F
  <2>1. x - 1 \in Nat /\ x - 1 < x
    BY <1>5
  <2>2. <<x - 1, x>> \in R
    BY <1>5, <2>1 DEF R
  <2> QED BY <1>4, <2>1, <2>2
<1>7. x - 1 \in T /\ (x - 1) + 1 = x
  BY <1>5, <1>6 DEF F
<1>8. x \in T
  BY <1>6, <1>7
<1> QED BY <1>4, <1>8 DEF F

\* The same for the first n numbers.
LEMMA InductionUpTo ==
  ASSUME NEW T, NEW n \in Nat, 0 \in T, \A i \in 1..n : i - 1 \in T => i \in T
  PROVE  \A i \in 0..n : i \in T
<1> DEFINE U == {i \in Nat : i <= n => i \in T}
<1>1. 0 \in U
  OBVIOUS
<1>2. ASSUME NEW i \in Nat, i \in U PROVE i + 1 \in U
  <2>1. SUFFICES ASSUME i + 1 <= n PROVE i + 1 \in T
    OBVIOUS
  <2>2. i \in T /\ i + 1 \in 1..n /\ (i + 1) - 1 = i
    BY <1>2, <2>1
  <2> QED BY <2>2
<1> HIDE DEF U
<1>3. \A i \in Nat : i \in U
  BY <1>1, <1>2, Induction
<1> QED BY <1>3 DEF U

\* f is defined on 0..n from its value at 0 and a step.
Steps(f, c, step, n) == f[0] = c /\ \A i \in 1..n : f[i] = step[<<i, f[i - 1]>>]

\* There is such a function, whatever the step.
LEMMA Recursion ==
  ASSUME NEW S, NEW c \in S, NEW n \in Nat, NEW step \in [(1..n) \X S -> S]
  PROVE  \E f \in [0..n -> S] : Steps(f, c, step, n)
<1> DEFINE T == {m \in 0..n : \E f \in [0..m -> S] : Steps(f, c, step, m)}
<1>1. 0 \in T
  <2> DEFINE z == [i \in 0..0 |-> c]
  <2>1. z \in [0..0 -> S] /\ Steps(z, c, step, 0)
    BY DEF Steps
  <2> HIDE DEF z
  <2> QED BY <2>1
<1>2. ASSUME NEW m \in 1..n, m - 1 \in T PROVE m \in T
  <2>1. PICK f \in [0..(m - 1) -> S] : Steps(f, c, step, m - 1)
    BY <1>2
  <2> HIDE DEF T
  <2> DEFINE last == step[<<m, f[m - 1]>>]
             g == [i \in 0..m |-> IF i = m THEN last ELSE f[i]]
  <2>2. m \in Nat /\ m - 1 \in 0..(m - 1) /\ f[m - 1] \in S
    OBVIOUS
  <2>3. last \in S
    BY <2>2
  <2> HIDE DEF last
  <2>4. g \in [0..m -> S]
    BY <2>3
  <2>5. g[m] = last /\ \A i \in 0..(m - 1) : g[i] = f[i]
    BY <2>2
  <2> HIDE DEF g
  <2>6. g[0] = c
    BY <2>1, <2>2, <2>5 DEF Steps
  <2>7. ASSUME NEW i \in 1..m PROVE g[i] = step[<<i, g[i - 1]>>]
    <3>1. i - 1 \in 0..(m - 1) /\ g[i - 1] = f[i - 1]
      BY <2>2, <2>5
    <3>2. CASE i = m
      BY <3>1, <3>2, <2>5 DEF last
    <3>3. CASE i # m
      <4>1. i \in 1..(m - 1) /\ i \in 0..(m - 1)
        BY <3>3, <2>2
      <4> QED BY <4>1, <3>1, <2>1, <2>5 DEF Steps
    <3> QED BY <3>2, <3>3
  <2>8. Steps(g, c, step, m)
    BY <2>6, <2>7 DEF Steps
  <2> QED BY <2>4, <2>8 DEF T
<1> HIDE DEF T
<1>3. n \in T
  BY <1>1, <1>2, InductionUpTo
<1> QED BY <1>3 DEF T

-----------------------------------------------------------------------------
(* The length prefix *)

LEMMA CapacityUnrolled ==
  /\ Capacity \in [0..PrefixLen -> Nat] /\ Capacity[0] = 1
  /\ \A i \in 1..PrefixLen : Capacity[i] = Base * Capacity[i - 1]
<1> DEFINE step == [x \in (1..PrefixLen) \X Nat |-> Base * x[2]]
           Def(f) == f = [i \in 0..PrefixLen |-> IF i = 0 THEN 1 ELSE Base * f[i - 1]]
<1>1. PrefixLen \in Nat /\ Base \in Nat
  BY BaseAssumption
<1>2. step \in [(1..PrefixLen) \X Nat -> Nat]
  BY <1>1
<1>3. \A i \in 1..PrefixLen, y \in Nat : step[<<i, y>>] = Base * y
  OBVIOUS
<1> HIDE DEF step
<1>4. PICK f \in [0..PrefixLen -> Nat] : Steps(f, 1, step, PrefixLen)
  BY <1>1, <1>2, Recursion
<1>5. ASSUME NEW i \in 0..PrefixLen
      PROVE  f[i] = IF i = 0 THEN 1 ELSE Base * f[i - 1]
  <2>1. i # 0 => i \in 1..PrefixLen /\ f[i - 1] \in Nat
    BY <1>1
  <2> QED BY <2>1, <1>3, <1>4 DEF Steps
<1>6. Def(f)
  BY <1>4, <1>5
<1>7. Def(Capacity)
  <2>1. Capacity = CHOOSE g : Def(g)
    BY DEF Capacity
  <2> QED BY <2>1, <1>6
<1>8. Capacity \in [0..PrefixLen -> Nat]
  <2> DEFINE T == {i \in 0..PrefixLen : Capacity[i] \in Nat}
  <2>1. 0 \in T
    BY <1>1, <1>7
  <2>2. ASSUME NEW i \in 1..PrefixLen, i - 1 \in T PROVE i \in T
    <3>1. i \in 0..PrefixLen /\ Capacity[i] = Base * Capacity[i - 1]
      BY <1>7, <1>1
    <3> QED BY <2>2, <3>1, <1>1
  <2> HIDE DEF T
  <2>3. \A i \in 0..PrefixLen : i \in T
    BY <2>1, <2>2, <1>1, InductionUpTo
  <2> QED BY <2>3, <1>7 DEF T
<1> QED BY <1>1, <1>7, <1>8

\* Division by the base.
LEMMA Quotient ==
  ASSUME NEW n \in Nat, NEW b \in Nat, 0 < b
  PROVE  /\ n \div b \in Nat /\ n % b \in Nat
         /\ n = b * (n \div b) + (n % b)
         /\ \A y \in Nat : n < b * y => n \div b < y
<1>1. n \div b \in Nat /\ n % b \in Nat /\ n = b * (n \div b) + (n % b)
  OBVIOUS
<1> DEFINE q == n \div b
<1>2. ASSUME NEW y \in Nat, n < b * y PROVE q < y
  <2>1. b * q <= n /\ q \in Nat
    BY <1>1
  <2> HIDE DEF q
  <2>2. SUFFICES ASSUME y <= q PROVE FALSE
    BY <2>1
  <2>3. PICK d \in Nat : q = y + d
    <3>1. q - y \in Nat /\ q = y + (q - y)
      BY <2>1, <2>2
    <3> QED BY <3>1
  <2>4. b * q = b * y + b * d /\ b * d >= 0 /\ b * y \in Nat /\ b * d \in Nat
    BY <2>3
  <2> QED BY <2>1, <2>4, <1>2
<1> QED BY <1>1, <1>2

\* A digit more.
LEMMA DigitMore ==
  ASSUME NEW x \in Nat, NEW b \in Nat, NEW y \in Nat
  PROVE  x + b * y \in Nat
OBVIOUS

\* The digits of a number that has room in the prefix: what is left to write after
\* PrefixLen of them is 0.
LEMMA Digits ==
  ASSUME NEW n \in Nat, n < Capacity[PrefixLen]
  PROVE  \E rest \in [0..PrefixLen -> Nat] :
            /\ rest[0] = n /\ rest[PrefixLen] = 0
            /\ \A i \in 1..PrefixLen : rest[i] = rest[i - 1] \div Base
            /\ to_le_bytes(n) = [i \in 1..PrefixLen |-> rest[i - 1] % Base]
<1> DEFINE Def(f) == f = [i \in 0..PrefixLen |-> IF i = 0 THEN n ELSE f[i - 1] \div Base]
           step == [x \in (1..PrefixLen) \X Nat |-> x[2] \div Base]
           rest == CHOOSE f : Def(f)
<1>1. PrefixLen \in Nat /\ Base \in Nat /\ 0 < Base
  BY BaseAssumption
<1>2. step \in [(1..PrefixLen) \X Nat -> Nat]
  BY <1>1, Quotient
<1>3. \A i \in 1..PrefixLen, y \in Nat : step[<<i, y>>] = y \div Base
  OBVIOUS
<1> HIDE DEF step
<1>4. PICK f \in [0..PrefixLen -> Nat] : Steps(f, n, step, PrefixLen)
  BY <1>1, <1>2, Recursion
<1>5. ASSUME NEW i \in 0..PrefixLen
      PROVE  f[i] = IF i = 0 THEN n ELSE f[i - 1] \div Base
  <2>1. i # 0 => i \in 1..PrefixLen /\ f[i - 1] \in Nat
    BY <1>1
  <2> QED BY <2>1, <1>3, <1>4 DEF Steps
<1>6. Def(rest)
  <2>1. Def(f)
    BY <1>4, <1>5
  <2> QED BY <2>1
<1>7. to_le_bytes(n) = [i \in 1..PrefixLen |-> rest[i - 1] % Base]
  BY DEF to_le_bytes
<1> HIDE DEF rest
<1>8. rest[0] = n /\ \A i \in 1..PrefixLen : rest[i] = rest[i - 1] \div Base
  BY <1>1, <1>6
<1> DEFINE T == {i \in 0..PrefixLen : rest[i] \in Nat /\ rest[i] < Capacity[PrefixLen - i]}
<1>9. \A i \in 0..PrefixLen : i \in T
  <2>1. 0 \in T
    BY <1>1, <1>8
  <2>2. ASSUME NEW i \in 1..PrefixLen, i - 1 \in T PROVE i \in T
    <3>1. /\ i \in 0..PrefixLen /\ PrefixLen - i \in 0..PrefixLen
          /\ PrefixLen - (i - 1) \in 1..PrefixLen
          /\ (PrefixLen - (i - 1)) - 1 = PrefixLen - i
      BY <1>1
    <3>2. rest[i - 1] \in Nat /\ rest[i - 1] < Capacity[PrefixLen - (i - 1)]
      BY <2>2
    <3>3. /\ Capacity[PrefixLen - (i - 1)] = Base * Capacity[PrefixLen - i]
          /\ Capacity[PrefixLen - i] \in Nat
      BY <3>1, CapacityUnrolled
    <3>4. rest[i] = rest[i - 1] \div Base
      BY <1>8
    <3> DEFINE r == rest[i - 1]
               c == Capacity[PrefixLen - i]
    <3>5. r \in Nat /\ c \in Nat /\ r < Base * c
      BY <3>2, <3>3
    <3> HIDE DEF r, c
    <3>6. r \div Base \in Nat /\ r \div Base < c
      BY <3>5, <1>1, Quotient
    <3> QED BY <3>1, <3>4, <3>6 DEF r, c
  <2> HIDE DEF T
  <2> QED BY <2>1, <2>2, <1>1, InductionUpTo
<1>10. rest \in [0..PrefixLen -> Nat]
  BY <1>6, <1>9
<1>11. rest[PrefixLen] = 0
  <2>1. PrefixLen \in 0..PrefixLen /\ PrefixLen - PrefixLen = 0
    BY <1>1
  <2>2. rest[PrefixLen] \in Nat /\ rest[PrefixLen] < Capacity[0]
    BY <1>9, <2>1
  <2> QED BY <2>2, CapacityUnrolled
<1> QED BY <1>7, <1>8, <1>10, <1>11

\* The value of the prefix, from the highest digit on.
LEMMA Horner ==
  ASSUME NEW b \in [1..PrefixLen -> Nat]
  PROVE  \E value \in [0..PrefixLen -> Nat] :
            /\ value[0] = 0 /\ from_le_bytes(b) = value[PrefixLen]
            /\ \A i \in 1..PrefixLen :
                  value[i] = b[PrefixLen + 1 - i] + Base * value[i - 1]
<1> DEFINE Def(f) == f = [i \in 0..PrefixLen |->
                             IF i = 0 THEN 0 ELSE b[PrefixLen + 1 - i] + Base * f[i - 1]]
           step == [x \in (1..PrefixLen) \X Nat |-> b[PrefixLen + 1 - x[1]] + Base * x[2]]
           value == CHOOSE f : Def(f)
<1>1. PrefixLen \in Nat /\ Base \in Nat
  BY BaseAssumption
<1>2. \A i \in 1..PrefixLen : b[PrefixLen + 1 - i] \in Nat
  BY <1>1
<1>3. \A i \in 1..PrefixLen, y \in Nat : step[<<i, y>>] = b[PrefixLen + 1 - i] + Base * y
  OBVIOUS
<1>4. step \in [(1..PrefixLen) \X Nat -> Nat]
  <2>1. ASSUME NEW x \in (1..PrefixLen) \X Nat
        PROVE  b[PrefixLen + 1 - x[1]] + Base * x[2] \in Nat
    <3>1. x[1] \in 1..PrefixLen /\ x[2] \in Nat
      OBVIOUS
    <3>2. b[PrefixLen + 1 - x[1]] \in Nat
      BY <3>1, <1>2
    <3> QED BY <3>1, <3>2, <1>1, DigitMore
  <2> QED BY <2>1
<1> HIDE DEF step
<1>5. PICK f \in [0..PrefixLen -> Nat] : Steps(f, 0, step, PrefixLen)
  BY <1>1, <1>4, Recursion
<1>6. ASSUME NEW i \in 0..PrefixLen
      PROVE  f[i] = IF i = 0 THEN 0 ELSE b[PrefixLen + 1 - i] + Base * f[i - 1]
  <2>1. i # 0 => i \in 1..PrefixLen /\ f[i - 1] \in Nat
    BY <1>1
  <2> QED BY <2>1, <1>3, <1>5 DEF Steps
<1>7. Def(value)
  <2>1. Def(f)
    BY <1>5, <1>6
  <2> QED BY <2>1
<1>8. from_le_bytes(b) = value[PrefixLen]
  BY DEF from_le_bytes
<1> HIDE DEF value
<1>9. /\ value[0] = 0
      /\ \A i \in 1..PrefixLen : value[i] = b[PrefixLen + 1 - i] + Base * value[i - 1]
  BY <1>1, <1>7
<1>10. value \in [0..PrefixLen -> Nat]
  <2> DEFINE T == {i \in 0..PrefixLen : value[i] \in Nat}
  <2>1. 0 \in T
    BY <1>1, <1>9
  <2>2. ASSUME NEW i \in 1..PrefixLen, i - 1 \in T PROVE i \in T
    <3>1. value[i - 1] \in Nat /\ i \in 0..PrefixLen
      BY <2>2, <1>1
    <3>2. b[PrefixLen + 1 - i] + Base * value[i - 1] \in Nat
      BY <3>1, <1>1, <1>2, DigitMore
    <3> QED BY <3>1, <3>2, <1>9
  <2> HIDE DEF T
  <2>3. \A i \in 0..PrefixLen : i \in T
    BY <2>1, <2>2, <1>1, InductionUpTo
  <2> QED BY <2>3, <1>7 DEF T
<1> QED BY <1>8, <1>9, <1>10

\* from_le_bytes reads what to_le_bytes wrote.
LEMMA PrefixRead ==
  ASSUME NEW n \in Nat, n < Capacity[PrefixLen]
  PROVE  /\ to_le_bytes(n) \in [1..PrefixLen -> Nat]
         /\ from_le_bytes(to_le_bytes(n)) = n
<1>1. PrefixLen \in Nat /\ Base \in Nat /\ 0 < Base
  BY BaseAssumption
<1>2. PICK rest \in [0..PrefixLen -> Nat] :
         /\ rest[0] = n /\ rest[PrefixLen] = 0
         /\ \A i \in 1..PrefixLen : rest[i] = rest[i - 1] \div Base
         /\ to_le_bytes(n) = [i \in 1..PrefixLen |-> rest[i - 1] % Base]
  BY Digits
<1> DEFINE b == to_le_bytes(n)
<1>3. \A i \in 1..PrefixLen : rest[i - 1] \in Nat /\ rest[i - 1] % Base \in Nat
  BY <1>1, Quotient
<1>4. b \in [1..PrefixLen -> Nat] /\ \A i \in 1..PrefixLen : b[i] = rest[i - 1] % Base
  BY <1>2, <1>3
<1> HIDE DEF b
<1>5. PICK value \in [0..PrefixLen -> Nat] :
         /\ value[0] = 0 /\ from_le_bytes(b) = value[PrefixLen]
         /\ \A i \in 1..PrefixLen : value[i] = b[PrefixLen + 1 - i] + Base * value[i - 1]
  BY <1>4, Horner
<1> DEFINE T == {i \in 0..PrefixLen : value[i] = rest[PrefixLen - i]}
<1>6. 0 \in T
  BY <1>1, <1>2, <1>5
<1>7. ASSUME NEW i \in 1..PrefixLen, i - 1 \in T PROVE i \in T
  <2> DEFINE j == PrefixLen + 1 - i
  <2>1. /\ i \in 0..PrefixLen /\ j \in 1..PrefixLen
        /\ j - 1 = PrefixLen - i /\ PrefixLen - (i - 1) = j
    BY <1>1
  <2>2. value[i - 1] = rest[j]
    BY <1>7, <2>1
  <2>3. value[i] = b[j] + Base * value[i - 1]
    BY <1>5
  <2>4. b[j] = rest[j - 1] % Base /\ rest[j] = rest[j - 1] \div Base /\ rest[j - 1] \in Nat
    BY <1>2, <1>3, <1>4, <2>1
  <2> HIDE DEF j
  <2>5. /\ rest[j - 1] = Base * (rest[j - 1] \div Base) + (rest[j - 1] % Base)
        /\ rest[j - 1] \div Base \in Nat /\ rest[j - 1] % Base \in Nat
    BY <2>4, <1>1, Quotient
  <2>6. value[i] = rest[j - 1]
    BY <2>2, <2>3, <2>4, <2>5, <1>1
  <2> QED BY <2>1, <2>6
<1> HIDE DEF T
<1>8. \A i \in 0..PrefixLen : i \in T
  BY <1>6, <1>7, <1>1, InductionUpTo
<1>9. value[PrefixLen] = rest[0]
  BY <1>8, <1>1 DEF T
<1> QED BY <1>2, <1>4, <1>5, <1>9 DEF b

-----------------------------------------------------------------------------
(* Shards *)

\* q, found among the first i shards, has as many of the first k as there are so far.
Firsts(q, i, k, s) ==
    /\ q \in Seq(Seq(Int))
    /\ i <= k => Len(q) = i
    /\ i > k => Len(q) >= k
    /\ \A j \in 1..k : j <= i => q[j] = s[j - 1]

\* A missing parity shard is passed over.
LEMMA FirstsSkip ==
  ASSUME NEW k \in Nat, NEW i \in Nat, i > k, NEW s, NEW q, Firsts(q, i - 1, k, s)
  PROVE  Firsts(q, i, k, s)
<1>1. \A j \in 1..k : q[j] = s[j - 1]
  BY DEF Firsts
<1>2. q \in Seq(Seq(Int)) /\ Len(q) >= k
  BY DEF Firsts
<1> QED BY <1>1, <1>2 DEF Firsts

\* A shard that is there is appended.
LEMMA FirstsMore ==
  ASSUME NEW k \in Nat, NEW i \in Nat \ {0}, NEW s, s[i - 1] \in Seq(Int),
         NEW q, Firsts(q, i - 1, k, s)
  PROVE  Firsts(Append(q, s[i - 1]), i, k, s)
<1> DEFINE r == Append(q, s[i - 1])
<1>1. q \in Seq(Seq(Int)) /\ Len(q) \in Nat
  BY DEF Firsts
<1>2. /\ r \in Seq(Seq(Int)) /\ Len(r) = Len(q) + 1 /\ r[Len(q) + 1] = s[i - 1]
      /\ \A j \in 1..Len(q) : r[j] = q[j]
  BY <1>1
<1>3. (i <= k => Len(q) = i - 1) /\ (i > k => Len(q) >= k)
  BY <1>1 DEF Firsts
<1> HIDE DEF r
<1>4. ASSUME NEW j \in 1..k, j <= i PROVE r[j] = s[j - 1]
  <2>1. CASE j = i
    BY <2>1, <1>2, <1>3
  <2>2. CASE j # i
    <3>1. j \in 1..Len(q) /\ j <= i - 1
      BY <2>2, <1>1, <1>3, <1>4
    <3> QED BY <3>1, <1>2 DEF Firsts
  <2> QED BY <2>1, <2>2
<1>5. Firsts(r, i, k, s)
  BY <1>1, <1>2, <1>3, <1>4 DEF Firsts
<1> QED BY <1>5 DEF r

\* The shards that get_chunks finds: when the first k are there, they come first.
LEMMA FoundFirst ==
  ASSUME NEW total \in Nat, NEW k \in 0..total, NEW s \in [0..(total - 1) -> Seq(Int)],
         \A i \in 0..(k - 1) : s[i] # Missing
  PROVE  /\ Found(s, total) \in Seq(Seq(Int)) /\ k <= Len(Found(s, total))
         /\ \A i \in 1..k : Found(s, total)[i] = s[i - 1]
<1> DEFINE G(i, q) == IF s[i - 1] = Missing THEN q ELSE Append(q, s[i - 1])
           Def(f) == f = [i \in 0..total |-> IF i = 0 THEN <<>> ELSE G(i, f[i - 1])]
           step == [x \in (1..total) \X Seq(Seq(Int)) |-> G(x[1], x[2])]
           upto == CHOOSE f : Def(f)
<1>1. \A i \in 1..total : i - 1 \in 0..(total - 1) /\ s[i - 1] \in Seq(Int)
  OBVIOUS
<1>2. ASSUME NEW i \in 1..total, NEW q \in Seq(Seq(Int)) PROVE G(i, q) \in Seq(Seq(Int))
  BY <1>1
<1>3. \A i \in 1..total, q \in Seq(Seq(Int)) : step[<<i, q>>] = G(i, q)
  OBVIOUS
<1>4. step \in [(1..total) \X Seq(Seq(Int)) -> Seq(Seq(Int))]
  <2>1. ASSUME NEW x \in (1..total) \X Seq(Seq(Int)) PROVE G(x[1], x[2]) \in Seq(Seq(Int))
    <3>1. x[1] \in 1..total /\ x[2] \in Seq(Seq(Int))
      OBVIOUS
    <3> HIDE DEF G
    <3> QED BY <3>1, <1>2
  <2> HIDE DEF G
  <2> QED BY <2>1
<1>5. Found(s, total) = upto[total]
  BY DEF Found
<1> HIDE DEF step, G
<1>6. PICK f \in [0..total -> Seq(Seq(Int))] : Steps(f, <<>>, step, total)
  <2>1. <<>> \in Seq(Seq(Int))
    OBVIOUS
  <2> QED BY <2>1, <1>4, Recursion
<1>7. ASSUME NEW i \in 0..total PROVE f[i] = IF i = 0 THEN <<>> ELSE G(i, f[i - 1])
  <2>1. i # 0 => i \in 1..total /\ f[i - 1] \in Seq(Seq(Int))
    OBVIOUS
  <2> QED BY <2>1, <1>3, <1>6 DEF Steps
<1>8. Def(upto)
  <2>1. Def(f)
    BY <1>6, <1>7
  <2> QED BY <2>1
<1> HIDE DEF upto
<1>9. upto[0] = <<>> /\ \A i \in 1..total : upto[i] = G(i, upto[i - 1])
  BY <1>8
<1> DEFINE T == {i \in 0..total : Firsts(upto[i], i, k, s)}
<1>10. 0 \in T
  <2>1. Firsts(<<>>, 0, k, s)
    BY DEF Firsts
  <2> QED BY <2>1, <1>9
<1>11. ASSUME NEW i \in 1..total, i - 1 \in T PROVE i \in T
  <2> DEFINE q == upto[i - 1]
  <2>1. Firsts(q, i - 1, k, s) /\ i \in 0..total
    BY <1>11
  <2>2. upto[i] = G(i, q) /\ s[i - 1] \in Seq(Int)
    BY <1>1, <1>9
  <2> HIDE DEF q
  <2>3. CASE s[i - 1] = Missing
    <3>1. i > k /\ G(i, q) = q
      BY <2>3 DEF G
    <3>2. Firsts(q, i, k, s)
      BY <2>1, <3>1, FirstsSkip
    <3> QED BY <3>1, <3>2, <2>1, <2>2
  <2>4. CASE s[i - 1] # Missing
    <3>1. G(i, q) = Append(q, s[i - 1])
      BY <2>4 DEF G
    <3>2. i \in Nat \ {0} /\ k \in Nat
      OBVIOUS
    <3>3. Firsts(Append(q, s[i - 1]), i, k, s)
      BY <2>1, <2>2, <3>2, FirstsMore
    <3> QED BY <3>1, <3>3, <2>1, <2>2
  <2> QED BY <2>3, <2>4
<1> HIDE DEF T
<1>12. \A i \in 0..total : i \in T
  BY <1>10, <1>11, InductionUpTo
<1>13. Firsts(upto[total], total, k, s)
  BY <1>12 DEF T
<1>14. Len(upto[total]) >= k
  BY <1>13 DEF Firsts
<1>15. \A j \in 1..k : upto[total][j] = s[j - 1]
  BY <1>13 DEF Firsts
<1> QED BY <1>5, <1>13, <1>14, <1>15 DEF Firsts

\* One shard more.
LEMMA ShardMore ==
  ASSUME NEW i \in Nat \ {0}, NEW size \in Nat
  PROVE  (i - 1) * size \in Nat /\ i * size \in Nat /\ i * size = (i - 1) * size + size
OBVIOUS

\* q is the first n of w.
Cut(q, n, w) == q \in Seq(Int) /\ Len(q) = n /\ \A x \in 1..n : q[x] = w[x]

\* r is cut out of w behind the first n.
CutAt(r, n, size, w) == Len(r) = size /\ \A j \in 1..size : r[j] = w[n + j]

\* What is cut out next follows what was cut before.
LEMMA CutMore ==
  ASSUME NEW w, NEW n \in Nat, NEW size \in Nat, NEW q, Cut(q, n, w),
         NEW r \in Seq(Int), CutAt(r, n, size, w)
  PROVE  Cut(q \o r, n + size, w)
<1>1. q \in Seq(Int) /\ Len(q) = n /\ Len(r) = size
  BY DEF Cut, CutAt
<1> DEFINE z == q \o r
<1>2. z \in Seq(Int) /\ Len(z) = n + size
  BY <1>1
<1>3. \A x \in 1..(n + size) : z[x] = IF x <= n THEN q[x] ELSE r[x - n]
  BY <1>1, ConcatProperties
<1> HIDE DEF z
<1>4. ASSUME NEW x \in 1..(n + size) PROVE z[x] = w[x]
  <2>1. CASE x <= n
    <3>1. x \in 1..n /\ z[x] = q[x]
      BY <2>1, <1>3
    <3> QED BY <3>1 DEF Cut
  <2>2. CASE x > n
    <3>1. PICK j \in 1..size : x = n + j
      <4>1. x - n \in 1..size /\ x = n + (x - n)
        BY <2>2
      <4> QED BY <4>1
    <3>2. z[x] = r[j] /\ r[j] = w[n + j]
      BY <2>2, <3>1, <1>3 DEF CutAt
    <3> QED BY <3>1, <3>2
  <2> QED BY <2>1, <2>2
<1>5. Cut(z, n + size, w)
  BY <1>2, <1>4 DEF Cut
<1> QED BY <1>5 DEF z

\* The first k shards one after the other: when they are cut out of w, so is what
\* decode_erasure combines.
LEMMA ConcatCut ==
  ASSUME NEW s \in Seq(Seq(Int)), NEW k \in Nat, k <= Len(s), NEW size \in Nat,
         NEW w \in [Nat -> Int],
         \A i \in 1..k : CutAt(s[i], (i - 1) * size, size, w)
  PROVE  Cut(Concat(s, k), k * size, w)
<1> DEFINE G(i, q) == IF i <= Len(s) THEN q \o s[i] ELSE q
           Def(f) == f = [i \in 0..k |-> IF i = 0 THEN <<>> ELSE G(i, f[i - 1])]
           step == [x \in (1..k) \X Seq(Int) |-> G(x[1], x[2])]
           all == CHOOSE f : Def(f)
<1>1. Concat(s, k) = all[k]
  BY DEF Concat
<1>2. \A i \in 1..k : i \in 1..Len(s) /\ s[i] \in Seq(Int)
  OBVIOUS
<1>3. \A i \in 1..k, q \in Seq(Int) : step[<<i, q>>] = G(i, q)
  OBVIOUS
<1>4. ASSUME NEW i \in 1..k, NEW q \in Seq(Int) PROVE G(i, q) = q \o s[i]
  <2>1. i <= Len(s)
    OBVIOUS
  <2> QED BY <2>1
<1> HIDE DEF G
<1>5. step \in [(1..k) \X Seq(Int) -> Seq(Int)]
  <2>1. ASSUME NEW x \in (1..k) \X Seq(Int) PROVE G(x[1], x[2]) \in Seq(Int)
    <3>1. x[1] \in 1..k /\ x[2] \in Seq(Int)
      OBVIOUS
    <3>2. x[2] \o s[x[1]] \in Seq(Int)
      BY <3>1, <1>2
    <3> QED BY <3>1, <3>2, <1>4
  <2> QED BY <2>1
<1> HIDE DEF step
<1>6. PICK f \in [0..k -> Seq(Int)] : Steps(f, <<>>, step, k)
  <2>1. <<>> \in Seq(Int)
    OBVIOUS
  <2> QED BY <2>1, <1>5, Recursion
<1>7. ASSUME NEW i \in 0..k PROVE f[i] = IF i = 0 THEN <<>> ELSE G(i, f[i - 1])
  <2>1. i # 0 => i \in 1..k /\ f[i - 1] \in Seq(Int)
    OBVIOUS
  <2> QED BY <2>1, <1>3, <1>6 DEF Steps
<1>8. Def(all)
  <2>1. Def(f)
    BY <1>6, <1>7
  <2> QED BY <2>1
<1> HIDE DEF all
<1>9. all[0] = <<>> /\ \A i \in 1..k : all[i] = G(i, all[i - 1])
  <2>1. \A i \in 0..k : all[i] = IF i = 0 THEN <<>> ELSE G(i, all[i - 1])
    BY <1>8
  <2> QED BY <2>1
<1> DEFINE T == {i \in 0..k : Cut(all[i], i * size, w)}
<1>10. 0 \in T
  <2>1. 0 * size = 0
    OBVIOUS
  <2>2. Cut(<<>>, 0, w)
    BY DEF Cut
  <2> QED BY <2>1, <2>2, <1>9
<1>11. ASSUME NEW i \in 1..k, i - 1 \in T PROVE i \in T
  <2> DEFINE q == all[i - 1]
             n == (i - 1) * size
  <2>1. Cut(q, n, w) /\ i \in 0..k
    BY <1>11
  <2>2. q \in Seq(Int)
    BY <2>1 DEF Cut
  <2>3. all[i] = q \o s[i]
    BY <2>2, <1>4, <1>9
  <2>4. n \in Nat /\ i * size = n + size
    BY ShardMore
  <2>5. s[i] \in Seq(Int) /\ CutAt(s[i], n, size, w)
    BY <1>2
  <2> HIDE DEF q, n
  <2>6. Cut(q \o s[i], n + size, w)
    BY <2>1, <2>4, <2>5, CutMore
  <2> QED BY <2>1, <2>3, <2>4, <2>6
<1> HIDE DEF T
<1>12. \A i \in 0..k : i \in T
  BY <1>10, <1>11, InductionUpTo
<1> QED BY <1>1, <1>12 DEF T

\* The bytes behind their length, and zeros behind them: what the data shards are
\* cut out of.
Padded(bytes) ==
    [x \in Nat |-> IF x \in 1..(PrefixLen + Len(bytes))
                     THEN (to_le_bytes(Len(bytes)) \o bytes)[x] ELSE 0]

LEMMA PaddedBytes ==
  ASSUME NEW bytes \in Seq(Nat), Len(bytes) < Capacity[PrefixLen]
  PROVE  /\ Padded(bytes) \in [Nat -> Nat]
         /\ Len(to_le_bytes(Len(bytes)) \o bytes) = PrefixLen + Len(bytes)
         /\ \A x \in 1..PrefixLen : Padded(bytes)[x] = to_le_bytes(Len(bytes))[x]
         /\ \A x \in 1..Len(bytes) : Padded(bytes)[PrefixLen + x] = bytes[x]
<1> DEFINE n == Len(bytes)
           b == to_le_bytes(n)
           p == b \o bytes
<1>1. PrefixLen \in Nat /\ n \in Nat
  BY BaseAssumption
<1>2. b \in [1..PrefixLen -> Nat]
  BY <1>1, PrefixRead
<1> HIDE DEF b, n
<1>3. b \in Seq(Nat) /\ Len(b) = PrefixLen
  BY <1>1, <1>2
<1>4. bytes \in Seq(Nat) /\ Len(bytes) = n
  BY DEF n
<1>5. /\ p \in Seq(Nat) /\ Len(p) = PrefixLen + n
      /\ \A x \in 1..(PrefixLen + n) : p[x] = IF x <= PrefixLen THEN b[x] ELSE bytes[x - PrefixLen]
  BY <1>3, <1>4, ConcatProperties
<1>6. Padded(bytes) = [x \in Nat |-> IF x \in 1..(PrefixLen + n) THEN p[x] ELSE 0]
  BY DEF Padded, b, n
<1> HIDE DEF p
<1>7. \A x \in 1..(PrefixLen + n) : p[x] \in Nat
  BY <1>5
<1>8. Padded(bytes) \in [Nat -> Nat]
  BY <1>6, <1>7
<1>9. ASSUME NEW x \in 1..PrefixLen PROVE Padded(bytes)[x] = b[x]
  <2>1. x \in Nat /\ x \in 1..(PrefixLen + n) /\ x <= PrefixLen
    BY <1>1
  <2> QED BY <2>1, <1>5, <1>6
<1>10. ASSUME NEW x \in 1..n PROVE Padded(bytes)[PrefixLen + x] = bytes[x]
  <2>1. /\ PrefixLen + x \in Nat /\ PrefixLen + x \in 1..(PrefixLen + n)
        /\ ~(PrefixLen + x <= PrefixLen) /\ (PrefixLen + x) - PrefixLen = x
    BY <1>1
  <2>2. p[PrefixLen + x] = bytes[(PrefixLen + x) - PrefixLen]
    BY <2>1, <1>5
  <2> QED BY <2>1, <2>2, <1>6
<1>11. Len(to_le_bytes(Len(bytes)) \o bytes) = PrefixLen + Len(bytes)
  BY <1>5 DEF p, b, n
<1> QED BY <1>8, <1>9, <1>10, <1>11 DEF b, n

\* k shards of the size that div_ceil gives have room for everything.
LEMMA CeilEnough ==
  ASSUME NEW a \in Nat \ {0}, NEW k \in Nat \ {0}
  PROVE  div_ceil(a, k) \in Nat \ {0} /\ a <= k * div_ceil(a, k)
<1> DEFINE c == a + k - 1
           q == c \div k
           r == c % k
<1>1. c \in Nat
  OBVIOUS
<1>2. q \in Nat /\ r \in Nat /\ c = k * q + r /\ r < k
  <2> HIDE DEF c
  <2>1. 0 < k
    OBVIOUS
  <2>2. c % k < k
    BY <1>1, <2>1
  <2> QED BY <1>1, <2>1, <2>2, Quotient
<1>3. div_ceil(a, k) = q
  BY DEF div_ceil
<1>4. k * q \in Nat
  BY <1>2
<1>5. a <= k * q
  <2> HIDE DEF q, r
  <2> QED BY <1>2, <1>4
<1>6. q # 0
  <2> HIDE DEF q
  <2>1. ASSUME q = 0 PROVE FALSE
    <3>1. k * q = 0
      BY <2>1
    <3> QED BY <3>1, <1>5
  <2> QED BY <2>1
<1> QED BY <1>2, <1>3, <1>5, <1>6

\* A function on the first n numbers is a sequence.
LEMMA ByteSequence ==
  ASSUME NEW n \in Nat, NEW f \in [1..n -> Nat]
  PROVE  f \in Seq(Int) /\ Len(f) = n
<1>1. f \in Seq(Nat) /\ Len(f) = n
  OBVIOUS
<1>2. \A x \in Nat : x \in Int
  OBVIOUS
<1>3. f \in [1..n -> Int]
  BY <1>2
<1>4. f \in Seq(Int)
  BY <1>3
<1> QED BY <1>1, <1>4

\* encode_erasure: no shard is missing, and the data shards are cut out of the
\* padded bytes.
LEMMA Encoded ==
  ASSUME NEW bytes \in Seq(Nat), Len(bytes) < Capacity[PrefixLen],
         NEW k \in Nat \ {0}, NEW m \in Nat
  PROVE  \E size \in Nat :
            /\ PrefixLen + Len(bytes) <= k * size
            /\ encode_erasure(bytes, k, m) \in [0..(k + m - 1) -> Seq(Int)]
            /\ \A i \in 0..(k + m - 1) : encode_erasure(bytes, k, m)[i] # Missing
            /\ \A i \in 0..(k - 1) :
                  CutAt(encode_erasure(bytes, k, m)[i], i * size, size, Padded(bytes))
<1> DEFINE p == to_le_bytes(Len(bytes)) \o bytes
           L == PrefixLen + Len(bytes)
           size == shard_size(L, k)
           w == Padded(bytes)
           ByteAt(i, j) == IF i < k /\ i * size + j <= L THEN p[i * size + j] ELSE 0
           e == encode_erasure(bytes, k, m)
<1>1. L \in Nat \ {0}
  BY BaseAssumption
<1>2. size \in Nat \ {0} /\ L <= k * size
  BY <1>1, CeilEnough DEF shard_size
<1>3. Len(p) = L /\ w \in [Nat -> Nat]
  BY PaddedBytes
<1>4. \A x \in Nat : w[x] = IF x \in 1..L THEN p[x] ELSE 0
  BY DEF Padded
<1>5. e = [i \in 0..(k + m - 1) |-> [j \in 1..size |-> ByteAt(i, j)]]
  BY <1>3 DEF encode_erasure
<1> HIDE DEF p, L, size, w, e
<1>6. ASSUME NEW i \in 0..(k + m - 1), NEW j \in 1..size
      PROVE  /\ i < k => ByteAt(i, j) = w[i * size + j]
             /\ ByteAt(i, j) \in Nat
  <2>1. i * size \in Nat /\ i \in Nat
    BY <1>2
  <2> DEFINE y == i * size
  <2>2. y + j \in Nat /\ y + j >= 1
    BY <2>1, <1>2
  <2>3. ByteAt(i, j) = IF i < k /\ y + j <= L THEN p[y + j] ELSE 0
    OBVIOUS
  <2> HIDE DEF y, ByteAt
  <2>4. w[y + j] = IF y + j <= L THEN p[y + j] ELSE 0
    BY <1>1, <1>4, <2>2
  <2>5. w[y + j] \in Nat
    BY <1>3, <2>2
  <2>6. (i < k => ByteAt(i, j) = w[y + j]) /\ ByteAt(i, j) \in Nat
    BY <2>3, <2>4, <2>5
  <2> QED BY <2>6 DEF y
<1> HIDE DEF ByteAt
<1>7. ASSUME NEW i \in 0..(k + m - 1)
      PROVE  /\ e[i] \in [1..size -> Nat] /\ e[i] \in Seq(Int) /\ Len(e[i]) = size
             /\ e[i] # Missing
             /\ i < k => CutAt(e[i], i * size, size, w)
  <2>1. e[i] = [j \in 1..size |-> ByteAt(i, j)]
    BY <1>5
  <2>2. e[i] \in [1..size -> Nat]
    BY <2>1, <1>6
  <2>3. e[i] \in Seq(Int) /\ Len(e[i]) = size
    BY <2>2, <1>2, ByteSequence
  <2>4. e[i] # Missing
    <3>1. 1 \in 1..size /\ e[i][1] \in Nat
      BY <2>2, <1>2
    <3>2. Missing[1] = -1
      BY DEF Missing
    <3> QED BY <3>1, <3>2
  <2>5. ASSUME i < k PROVE CutAt(e[i], i * size, size, w)
    BY <2>1, <2>3, <2>5, <1>6 DEF CutAt
  <2> QED BY <2>2, <2>3, <2>4, <2>5
<1>8. e \in [0..(k + m - 1) -> Seq(Int)]
  BY <1>5, <1>7
<1>9. \A i \in 0..(k - 1) : CutAt(e[i], i * size, size, w)
  BY <1>7
<1> QED BY <1>2, <1>7, <1>8, <1>9 DEF e, w, L

\* Every data shard is there, as encode_erasure made it.
DataThere(s, bytes, k, m) ==
    \A i \in 0..(k - 1) : s[i] # Missing /\ s[i] = encode_erasure(bytes, k, m)[i]

\* decode_erasure gives the bytes back, whichever of the parity shards are there.
LEMMA Decoded ==
  ASSUME NEW bytes \in Seq(Nat), Len(bytes) < Capacity[PrefixLen],
         NEW k \in Nat \ {0}, NEW m \in Nat,
         NEW s \in [0..(k + m - 1) -> Seq(Int)], DataThere(s, bytes, k, m)
  PROVE  decode_erasure(Found(s, k + m), k) = bytes
<1> DEFINE w == Padded(bytes)
           n == Len(bytes)
           e == encode_erasure(bytes, k, m)
           found == Found(s, k + m)
           combined == Concat(found, k)
<1>1. PICK size \in Nat :
         /\ PrefixLen + n <= k * size
         /\ \A i \in 0..(k + m - 1) : e[i] # Missing
         /\ \A i \in 0..(k - 1) : CutAt(e[i], i * size, size, w)
  BY Encoded
<1>2. PrefixLen \in Nat /\ n \in Nat /\ bytes \in Seq(Nat) /\ n = Len(bytes)
  BY BaseAssumption
<1>3. ASSUME NEW i \in 0..(k - 1) PROVE s[i] # Missing /\ CutAt(s[i], i * size, size, w)
  <2>1. s[i] = e[i] /\ i \in 0..(k + m - 1)
    BY DEF DataThere
  <2> HIDE DEF e, w
  <2> QED BY <2>1, <1>1
<1>4. k + m \in Nat /\ k \in 0..(k + m)
  OBVIOUS
<1>5. /\ found \in Seq(Seq(Int)) /\ k <= Len(found)
      /\ \A i \in 1..k : found[i] = s[i - 1]
  <2> DEFINE t == k + m
  <2>1. s \in [0..(t - 1) -> Seq(Int)] /\ t \in Nat /\ k \in 0..t
    BY <1>4
  <2>2. \A i \in 0..(k - 1) : s[i] # Missing
    BY <1>3
  <2> HIDE DEF t
  <2>3. /\ Found(s, t) \in Seq(Seq(Int)) /\ k <= Len(Found(s, t))
        /\ \A i \in 1..k : Found(s, t)[i] = s[i - 1]
    BY <2>1, <2>2, FoundFirst
  <2> QED BY <2>3 DEF t
<1> HIDE DEF found
<1>6. \A i \in 1..k : CutAt(found[i], (i - 1) * size, size, w)
  <2>1. SUFFICES ASSUME NEW i \in 1..k PROVE CutAt(found[i], (i - 1) * size, size, w)
    OBVIOUS
  <2>2. i - 1 \in 0..(k - 1) /\ found[i] = s[i - 1]
    BY <1>5
  <2> QED BY <2>2, <1>3
<1>7. /\ w \in [Nat -> Nat]
      /\ \A x \in 1..PrefixLen : w[x] = to_le_bytes(n)[x]
      /\ \A x \in 1..n : w[PrefixLen + x] = bytes[x]
  BY PaddedBytes
<1>8. to_le_bytes(n) \in [1..PrefixLen -> Nat] /\ from_le_bytes(to_le_bytes(n)) = n
  BY <1>2, PrefixRead
<1> HIDE DEF w, n
<1>9. Cut(combined, k * size, w)
  <2>1. w \in [Nat -> Int]
    BY <1>7
  <2>2. k \in Nat
    OBVIOUS
  <2> QED BY <2>1, <2>2, <1>5, <1>6, ConcatCut
<1> DEFINE total == k * size
<1>10. /\ combined \in Seq(Int) /\ Len(combined) = total /\ total \in Nat
       /\ PrefixLen + n <= total
       /\ \A x \in 1..total : combined[x] = w[x]
  BY <1>1, <1>9 DEF Cut
<1>11. decode_erasure(found, k)
         = LET length == from_le_bytes(SubSeq(combined, 1, PrefixLen))
           IN  IF Len(combined) < PrefixLen THEN Error
                 ELSE IF PrefixLen + length > Len(combined) THEN Error
                 ELSE SubSeq(combined, PrefixLen + 1, PrefixLen + length)
  BY DEF decode_erasure
<1> HIDE DEF combined, total
<1>12. SubSeq(combined, 1, PrefixLen) = to_le_bytes(n)
  <2> DEFINE b == SubSeq(combined, 1, PrefixLen)
  <2>1. \A x \in 1..PrefixLen : x \in 1..total
    BY <1>2, <1>10
  <2>2. \A x \in 1..PrefixLen : combined[x] = to_le_bytes(n)[x] /\ combined[x] \in Nat
    BY <2>1, <1>7, <1>8, <1>10
  <2>3. /\ b \in Seq(Nat) /\ Len(b) = PrefixLen
        /\ \A x \in 1..PrefixLen : b[x] = combined[x]
    BY <2>2, <1>2, SubSeqProperties
  <2> DEFINE u == to_le_bytes(n)
  <2> HIDE DEF b, u
  <2>4. \A x \in 1..PrefixLen : b[x] = u[x]
    BY <2>2, <2>3 DEF u
  <2>5. u \in Seq(Nat) /\ Len(u) = PrefixLen
    BY <1>2, <1>8 DEF u
  <2>6. b = u
    BY <2>3, <2>4, <2>5, SeqEqual
  <2> QED BY <2>6 DEF b, u
<1>13. SubSeq(combined, PrefixLen + 1, PrefixLen + n) = bytes
  <2> DEFINE b == SubSeq(combined, PrefixLen + 1, PrefixLen + n)
             lo == PrefixLen + 1
             hi == PrefixLen + n
  <2>1. lo \in Int /\ hi \in Int /\ hi - lo + 1 = n /\ (lo <= hi <=> n > 0)
    BY <1>2
  <2>2. \A x \in 1..n : lo + x - 1 \in 1..total /\ lo + x - 1 = PrefixLen + x
    BY <1>2, <1>10
  <2>3. \A x \in 1..n : combined[PrefixLen + x] = bytes[x] /\ PrefixLen + x \in 1..total
    BY <2>2, <1>2, <1>7, <1>10
  <2>4. \A y \in lo..hi : combined[y] \in Int
    <3>1. SUFFICES ASSUME NEW y \in lo..hi PROVE combined[y] \in Int
      OBVIOUS
    <3>2. y \in 1..Len(combined)
      BY <1>2, <1>10
    <3> QED BY <3>2, <1>10
  <2>5. /\ b \in Seq(Int) /\ Len(b) = n
        /\ \A x \in 1..n : b[x] = combined[lo + x - 1]
    <3>1. /\ b \in Seq(Int) /\ Len(b) = IF lo <= hi THEN hi - lo + 1 ELSE 0
          /\ \A x \in 1..(hi - lo + 1) : b[x] = combined[lo + x - 1]
      BY <2>1, <2>4, SubSeqProperties
    <3> HIDE DEF lo, hi, b
    <3> QED BY <3>1, <2>1, <1>2
  <2> HIDE DEF b
  <2>6. \A x \in 1..n : b[x] = bytes[x]
    BY <2>2, <2>3, <2>5
  <2>7. bytes \in Seq(Int)
    BY <1>2
  <2>8. b = bytes
    BY <2>5, <2>6, <2>7, <1>2, SeqEqual
  <2> QED BY <2>8 DEF b
<1>14. decode_erasure(found, k) = bytes
  <2>1. ~(Len(combined) < PrefixLen) /\ ~(PrefixLen + n > Len(combined))
    BY <1>2, <1>10
  <2> QED BY <2>1, <1>8, <1>11, <1>12, <1>13
<1> QED BY <1>14 DEF found

-----------------------------------------------------------------------------
(* The round trip *)

\* decompress takes back what compress made, which is at most a frame longer.
LEMMA Decompressed ==
  ASSUME NEW d \in Objects, NEW level \in Nat
  PROVE  /\ compress(d, level) \in Seq(Nat)
         /\ Len(compress(d, level)) < Capacity[PrefixLen]
         /\ decompress(compress(d, level), level) = d
<1>1. PICK n \in 0..MaxLen : d \in [1..n -> Byte]
  BY DEF Objects
<1>2. MaxLen \in Nat /\ Byte \subseteq Nat /\ PrefixLen \in 0..PrefixLen
  BY BaseAssumption
<1>3. d \in Seq(Nat) /\ Len(d) = n
  <2>1. n \in Nat
    BY <1>2
  <2>2. \A x \in 1..n : d[x] \in Nat
    BY <1>1, <1>2
  <2>3. d \in [1..n -> Nat]
    BY <1>1, <2>2
  <2> QED BY <2>1, <2>3
<1>4. Capacity[PrefixLen] \in Nat /\ MaxLen + 1 < Capacity[PrefixLen]
  BY <1>2, CapacityUnrolled, PrefixAssumption
<1>5. CASE level = 0
  BY <1>1, <1>2, <1>3, <1>4, <1>5 DEF compress, decompress
<1>6. CASE level # 0
  <2> DEFINE z == <<Frame>> \o d
  <2>1. <<Frame>> \in Seq(Nat) /\ Len(<<Frame>>) = 1 /\ <<Frame>>[1] = Frame
    BY DEF Frame
  <2>2. /\ z \in Seq(Nat) /\ Len(z) = 1 + n
        /\ \A x \in 1..(1 + n) : z[x] = IF x <= 1 THEN <<Frame>>[x] ELSE d[x - 1]
    BY <2>1, <1>3, ConcatProperties
  <2>3. compress(d, level) = z
    BY <1>6 DEF compress
  <2> HIDE DEF z
  <2>4. z # <<>> /\ Head(z) = Frame
    BY <2>1, <2>2, <1>1
  <2>5. Tail(z) = d
    <3>1. /\ Tail(z) \in Seq(Nat) /\ Len(Tail(z)) = n
          /\ \A x \in 1..n : Tail(z)[x] = z[x + 1]
      BY <2>2, <2>4, <1>1, HeadTailProperties
    <3>2. \A x \in 1..n : z[x + 1] = d[x]
      BY <2>2, <1>1
    <3> QED BY <3>1, <3>2, <1>3, SeqEqual
  <2> QED BY <2>2, <2>3, <2>4, <2>5, <1>1, <1>2, <1>4, <1>6 DEF decompress
<1> QED BY <1>5, <1>6

\* get_chunks on the shards of put_chunks, of which only parity shards are missing.
LEMMA ChunksRead ==
  ASSUME NEW d \in Objects, NEW p \in Policy, NEW s,
         s \in [0..(erasure_coding(p).data + erasure_coding(p).parity - 1) -> Seq(Int)],
         DataThere(s, compress(d, erasure_coding(p).level),
                   erasure_coding(p).data, erasure_coding(p).parity)
  PROVE  get_chunks(s, p, d) = d
<1> DEFINE e == erasure_coding(p)
           bytes == compress(d, e.level)
<1>1. e.data \in Nat \ {0} /\ e.parity \in Nat /\ e.level \in Nat
  BY PolicyNumbers
<1>2. get_chunks_policy(p) = e
  BY TablesAgree
<1>3. \A i \in 0..(e.data - 1) : s[i] # Missing
  BY DEF DataThere
<1>4. s \in [0..(e.data + e.parity - 1) -> Seq(Int)] /\ DataThere(s, bytes, e.data, e.parity)
  OBVIOUS
<1> DEFINE k == e.data
           m == e.parity
<1> HIDE DEF e
<1>5. /\ bytes \in Seq(Nat) /\ Len(bytes) < Capacity[PrefixLen]
      /\ decompress(bytes, e.level) = d
  BY <1>1, Decompressed
<1> HIDE DEF bytes
<1>6. decode_erasure(Found(s, k + m), k) = bytes
  <2>1. /\ k \in Nat \ {0} /\ m \in Nat /\ s \in [0..(k + m - 1) -> Seq(Int)]
        /\ DataThere(s, bytes, k, m)
    BY <1>1, <1>4
  <2> HIDE DEF k, m
  <2> QED BY <2>1, <1>5, Decoded
<1> QED BY <1>2, <1>3, <1>5, <1>6 DEF get_chunks

\* What put_chunks wrote.
Stored ==
    encode_erasure(compress(data, erasure_coding(policy).level),
                   erasure_coding(policy).data, erasure_coding(policy).parity)

\* It is there, but for the shards that were lost.
ShardsKept ==
    /\ data \in Objects /\ policy \in Policy
    /\ LET e == erasure_coding(policy)
       IN  shards = [i \in 0..(e.data + e.parity - 1) |->
                        IF i \in lost THEN Missing ELSE Stored[i]]

RoundInv == ShardsKept /\ RoundTrip

\* The shards are sequences, and a shard is missing exactly when it was lost.
LEMMA KeptShards ==
  ASSUME ShardsKept
  PROVE  LET e == erasure_coding(policy)
         IN  /\ shards \in [0..(e.data + e.parity - 1) -> Seq(Int)]
             /\ \A i \in 0..(e.data + e.parity - 1) :
                   /\ shards[i] = Missing <=> i \in lost
                   /\ i \notin lost => shards[i] = Stored[i]
<1> DEFINE e == erasure_coding(policy)
           k == e.data
           m == e.parity
           bytes == compress(data, e.level)
<1>1. k \in Nat \ {0} /\ m \in Nat /\ e.level \in Nat
  BY PolicyNumbers DEF ShardsKept
<1>2. bytes \in Seq(Nat) /\ Len(bytes) < Capacity[PrefixLen]
  BY <1>1, Decompressed DEF ShardsKept
<1>3. /\ Stored = encode_erasure(bytes, k, m)
      /\ shards = [i \in 0..(k + m - 1) |-> IF i \in lost THEN Missing ELSE Stored[i]]
  BY DEF Stored, ShardsKept
<1> HIDE DEF bytes, k, m
<1>4. /\ Stored \in [0..(k + m - 1) -> Seq(Int)]
      /\ \A i \in 0..(k + m - 1) : Stored[i] # Missing
  BY <1>1, <1>2, <1>3, Encoded
<1>5. Missing \in Seq(Int)
  BY DEF Missing
<1>6. ASSUME NEW i \in 0..(k + m - 1)
      PROVE  /\ shards[i] \in Seq(Int)
             /\ shards[i] = Missing <=> i \in lost
             /\ i \notin lost => shards[i] = Stored[i]
  <2>1. shards[i] = IF i \in lost THEN Missing ELSE Stored[i]
    BY <1>3
  <2>2. Stored[i] \in Seq(Int) /\ Stored[i] # Missing
    BY <1>4
  <2> QED BY <2>1, <2>2, <1>5
<1>7. shards \in [0..(k + m - 1) -> Seq(Int)]
  BY <1>3, <1>6
<1> QED BY <1>6, <1>7 DEF k, m

\* put_chunks writes all shards.
LEMMA RoundInit == Init => RoundInv
<1>1. SUFFICES ASSUME Init PROVE RoundInv
  OBVIOUS
<1> DEFINE e == erasure_coding(policy)
<1>2. /\ data \in Objects /\ policy \in Policy /\ lost = {} /\ result = NotRead
      /\ shards = Stored
  BY <1>1 DEF Init, Stored
<1>3. Stored = [i \in 0..(e.data + e.parity - 1) |-> Stored[i]]
  BY DEF Stored, encode_erasure
<1>4. shards = [i \in 0..(e.data + e.parity - 1) |-> IF i \in lost THEN Missing ELSE Stored[i]]
  BY <1>2, <1>3
<1> QED BY <1>2, <1>4 DEF RoundInv, ShardsKept, RoundTrip

\* A loss takes one shard away; the read finds all of the data shards or fails.
LEMMA RoundStep ==
  ASSUME RoundInv, [Next]_vars
  PROVE  RoundInv'
<1> DEFINE e == erasure_coding(policy)
           k == e.data
           m == e.parity
<1>1. ShardsKept /\ RoundTrip /\ data \in Objects /\ policy \in Policy
  BY DEF RoundInv, ShardsKept
<1>2. k \in Nat \ {0} /\ m \in Nat
  BY <1>1, PolicyNumbers
<1>3. shards = [i \in 0..(k + m - 1) |-> IF i \in lost THEN Missing ELSE Stored[i]]
  BY <1>1 DEF ShardsKept
<1>4. ASSUME NEW i \in DOMAIN shards, Lose(i) PROVE RoundInv'
  <2>1. /\ result = NotRead /\ result' = result /\ policy' = policy /\ data' = data
        /\ shards' = [shards EXCEPT ![i] = Missing] /\ lost' = lost \cup {i}
    BY <1>4 DEF Lose
  <2>2. Stored' = Stored /\ e' = e
    BY <2>1 DEF Stored
  <2> HIDE DEF e
  <2>3. shards' = [j \in 0..(k + m - 1) |-> IF j \in lost' THEN Missing ELSE Stored[j]]
    BY <2>1, <1>3
  <2>4. ShardsKept'
    BY <2>1, <2>2, <2>3, <1>1 DEF ShardsKept, e
  <2> QED BY <2>1, <2>4 DEF RoundInv, RoundTrip
<1>5. CASE Get
  <2>1. /\ result' = get_chunks(shards, policy, data)
        /\ policy' = policy /\ data' = data /\ shards' = shards /\ lost' = lost
    BY <1>5 DEF Get
  <2>2. ShardsKept'
    <3>1. Stored' = Stored
      BY <2>1 DEF Stored
    <3> QED BY <2>1, <3>1, <1>1 DEF ShardsKept
  <2>3. ASSUME NEW i \in lost \cap 0..(k - 1) PROVE result' = Error
    <3>1. get_chunks_policy(policy) = e /\ i \in 0..(k + m - 1)
      BY <1>1, <1>2, TablesAgree
    <3>2. shards[i] = Missing
      BY <3>1, <1>3
    <3> QED BY <2>1, <3>1, <3>2 DEF get_chunks
  <2>4. ASSUME lost \cap 0..(k - 1) = {} PROVE result' = data
    <3>1. shards \in [0..(k + m - 1) -> Seq(Int)]
      BY <1>1, KeptShards
    <3>2. ASSUME NEW i \in 0..(k - 1) PROVE shards[i] # Missing /\ shards[i] = Stored[i]
      <4>1. i \in 0..(k + m - 1) /\ i \notin lost
        BY <1>2, <2>4
      <4> QED BY <4>1, <1>1, KeptShards
    <3>3. DataThere(shards, compress(data, e.level), k, m)
      BY <3>2 DEF DataThere, Stored
    <3> QED BY <3>1, <3>3, <2>1, <1>1, ChunksRead
  <2>5. RoundTrip'
    BY <2>1, <2>3, <2>4 DEF RoundTrip
  <2> QED BY <2>2, <2>5 DEF RoundInv
<1>6. CASE UNCHANGED vars
  BY <1>6 DEF vars, RoundInv, ShardsKept, Stored, RoundTrip
<1> QED BY <1>4, <1>5, <1>6 DEF Next

\* put_chunks and get_chunks are inverse to each other: for every object and policy,
\* whatever shards are lost, the bytes come back exactly when the data shards are
\* there, and the read is an error otherwise.
THEOREM RoundTrips == Spec => []RoundTrip
<1>1. RoundInv => RoundTrip
  BY DEF RoundInv
<1> QED BY <1>1, RoundInit, RoundStep, PTL DEF Spec
=============================================================================
