------------------------ MODULE KmsActivation_proofs ------------------------
(***************************************************************************)
(* Proofs about the bytes of messages, about times, about the start of     *)
(* vlmcsd and about a client of it, for every database, clock, random      *)
(* number and command line.                                                *)
(***************************************************************************)
EXTENDS KmsActivation, WellFoundedInduction, SequenceTheorems, TLAPS

-----------------------------------------------------------------------------
(* Induction, and functions that recursion defines. *)

LEMMA Least ==
  ASSUME NEW T, T \subseteq Nat, T # {}
  PROVE  \E x \in T : \A y \in T : x <= y
<1>1. \E x \in T : \A y \in T : ~(<<y, x>> \in OpToRel(<, Nat))
  BY WFMin, NatLessThanWellFounded, Zenon
<1>2. PICK x \in T : \A y \in T : ~(<<y, x>> \in OpToRel(<, Nat))
  BY <1>1, Zenon
<1>3. ASSUME NEW y \in T
      PROVE  x <= y
  <2>1. ~(<<y, x>> \in {ss \in Nat \X Nat : ss[1] < ss[2]})
    BY <1>2, Zenon DEF OpToRel
  <2>2. <<y, x>> \in Nat \X Nat /\ <<y, x>>[1] = y /\ <<y, x>>[2] = x
    OBVIOUS
  <2>3. ~(y < x)
    BY <2>1, <2>2
  <2> QED
    BY <2>3
<1> QED
  BY <1>3

LEMMA Induction ==
  ASSUME NEW S, 0 \in S, \A n \in Nat : n \in S => n + 1 \in S
  PROVE  Nat \subseteq S
<1> SUFFICES ASSUME Nat \ S # {} PROVE FALSE
  OBVIOUS
<1>1. PICK x \in Nat \ S : \A y \in Nat \ S : x <= y
  BY Least
<1>2. x # 0 /\ x - 1 \in Nat /\ (x - 1) + 1 = x /\ x - 1 < x
  BY <1>1
<1>3. x - 1 \in S
  BY <1>1, <1>2
<1> QED
  BY <1>1, <1>2, <1>3

\* A function on 0..n that computes each value from the one before it exists.
Chain(n, base, step, g) ==
  g = [j \in 0..n |-> IF j = 0 THEN base ELSE step[j][g[j - 1]]]

LEMMA Recursion ==
  ASSUME NEW n \in Nat, NEW X, NEW base \in X, NEW step \in [1..n -> [X -> X]]
  PROVE  \E g \in [0..n -> X] : Chain(n, base, step, g)
<1> DEFINE S == {m \in Nat : m <= n => \E g \in [0..m -> X] : Chain(m, base, step, g)}
<1>1. 0 \in S
  <2> DEFINE g == [j \in 0..0 |-> base]
  <2>1. g \in [0..0 -> X] /\ Chain(0, base, step, g)
    BY DEF Chain
  <2> QED
    BY <2>1
<1>2. ASSUME NEW m \in Nat, m \in S
      PROVE  m + 1 \in S
  <2> SUFFICES ASSUME m + 1 <= n
               PROVE  \E h \in [0..(m + 1) -> X] : Chain(m + 1, base, step, h)
    OBVIOUS
  <2>1. PICK g \in [0..m -> X] : Chain(m, base, step, g)
    BY <1>2
  <2> DEFINE h == [j \in 0..(m + 1) |-> IF j <= m THEN g[j] ELSE step[m + 1][g[m]]]
  <2>2. step[m + 1][g[m]] \in X
    BY <2>1
  <2>3. h \in [0..(m + 1) -> X]
    BY <2>1, <2>2
  <2>4. ASSUME NEW j \in 0..(m + 1)
        PROVE  h[j] = IF j = 0 THEN base ELSE step[j][h[j - 1]]
    <3>1. CASE j = 0
      BY <2>1, <3>1 DEF Chain
    <3>2. CASE j # 0 /\ j <= m
      <4>1. j - 1 \in 0..m /\ j \in 0..m /\ j - 1 <= m /\ j - 1 \in 0..(m + 1)
        BY <3>2
      <4>2. h[j] = g[j] /\ h[j - 1] = g[j - 1]
        BY <3>2, <4>1
      <4>3. g[j] = step[j][g[j - 1]]
        BY <2>1, <3>2, <4>1 DEF Chain
      <4> QED
        BY <3>2, <4>2, <4>3
    <3>3. CASE j = m + 1
      BY <3>3
    <3> QED
      BY <3>1, <3>2, <3>3
  <2>5. Chain(m + 1, base, step, h)
    BY <2>3, <2>4 DEF Chain
  <2> QED
    BY <2>3, <2>5
<1> HIDE DEF S
<1>3. Nat \subseteq S
  BY <1>1, <1>2, Induction
<1> QED
  BY <1>3 DEF S

LEMMA ChainsAgree ==
  ASSUME NEW n \in Nat, NEW m \in Nat, n <= m, NEW base, NEW step, NEW g, NEW h,
         Chain(n, base, step, g), Chain(m, base, step, h)
  PROVE  \A j \in 0..n : g[j] = h[j]
<1> DEFINE S == {j \in Nat : j <= n => g[j] = h[j]}
<1>1. 0 \in S
  BY DEF Chain
<1>2. ASSUME NEW j \in Nat, j \in S
      PROVE  j + 1 \in S
  <2> SUFFICES ASSUME j + 1 <= n PROVE g[j + 1] = h[j + 1]
    OBVIOUS
  <2>1. g[j] = h[j]
    BY <1>2
  <2>2. j + 1 \in 0..n /\ j + 1 \in 0..m /\ j + 1 # 0 /\ (j + 1) - 1 = j
    OBVIOUS
  <2>3. g[j + 1] = step[j + 1][g[j]] /\ h[j + 1] = step[j + 1][h[j]]
    BY <2>2 DEF Chain
  <2> QED
    BY <2>1, <2>3
<1> HIDE DEF S
<1>3. Nat \subseteq S
  BY <1>1, <1>2, Induction
<1> QED
  BY <1>3 DEF S

EndlessChain(base, step, f) ==
  f = [n \in Nat |-> IF n = 0 THEN base ELSE step[n][f[n - 1]]]

LEMMA RecursionOnNat ==
  ASSUME NEW X, NEW base \in X, NEW step \in [Nat -> [X -> X]]
  PROVE  \E f \in [Nat -> X] : EndlessChain(base, step, f)
<1> DEFINE Is(n, g) == g \in [0..n -> X] /\ Chain(n, base, step, g)
           G(n) == CHOOSE g : Is(n, g)
           f == [n \in Nat |-> G(n)[n]]
<1>1. ASSUME NEW n \in Nat
      PROVE  Is(n, G(n))
  <2> DEFINE part == [j \in 1..n |-> step[j]]
  <2>1. part \in [1..n -> [X -> X]]
    OBVIOUS
  <2>2. \E g \in [0..n -> X] : Chain(n, base, part, g)
    BY <2>1, Recursion
  <2>3. PICK g \in [0..n -> X] : Chain(n, base, part, g)
    BY <2>2
  <2>4. ASSUME NEW j \in 0..n
        PROVE  g[j] = IF j = 0 THEN base ELSE step[j][g[j - 1]]
    <3>1. g[j] = IF j = 0 THEN base ELSE part[j][g[j - 1]]
      BY <2>3 DEF Chain
    <3>2. j # 0 => part[j] = step[j]
      OBVIOUS
    <3> QED
      BY <3>1, <3>2
  <2>5. Chain(n, base, step, g)
    BY <2>3, <2>4 DEF Chain
  <2> QED
    BY <2>3, <2>5
<1> HIDE DEF G
<1>2. f \in [Nat -> X]
  BY <1>1
<1>3. ASSUME NEW n \in Nat
      PROVE  f[n] = IF n = 0 THEN base ELSE step[n][f[n - 1]]
  <2>1. CASE n = 0
    BY <1>1, <2>1 DEF Chain
  <2>2. CASE n # 0
    <3>1. n - 1 \in Nat /\ n - 1 <= n /\ n - 1 \in 0..(n - 1) /\ n \in 0..n
      BY <2>2
    <3>2. Chain(n - 1, base, step, G(n - 1)) /\ Chain(n, base, step, G(n))
      BY <1>1, <3>1
    <3>3. G(n - 1)[n - 1] = G(n)[n - 1]
      BY <3>1, <3>2, ChainsAgree
    <3>4. G(n)[n] = step[n][G(n)[n - 1]]
      BY <2>2, <3>1, <3>2 DEF Chain
    <3> QED
      BY <2>2, <3>1, <3>3, <3>4
  <2> QED
    BY <2>1, <2>2
<1>4. EndlessChain(base, step, f)
  BY <1>3 DEF EndlessChain
<1> QED
  BY <1>2, <1>4

-----------------------------------------------------------------------------
(* Bytes. *)

LEMMA Powers ==
  /\ Power \in [Nat -> Nat \ {0}]
  /\ Power[0] = 1
  /\ \A n \in Nat : Power[n + 1] = Byte * Power[n]
<1> DEFINE X == Nat \ {0}
           step == [n \in Nat |-> [x \in X |-> Byte * x]]
<1>1. step \in [Nat -> [X -> X]] /\ 1 \in X
  BY SizeAssumption
<1>2. \E f \in [Nat -> X] : EndlessChain(1, step, f)
  <2> HIDE DEF X, step
  <2> QED
    BY <1>1, RecursionOnNat
<1>3. PICK f \in [Nat -> X] : EndlessChain(1, step, f)
  BY <1>2
<1>4. f = [n \in Nat |-> IF n = 0 THEN 1 ELSE Byte * f[n - 1]]
  <2>1. \A n \in Nat : (IF n = 0 THEN 1 ELSE step[n][f[n - 1]])
                         = (IF n = 0 THEN 1 ELSE Byte * f[n - 1])
    OBVIOUS
  <2> QED
    BY <1>3, <2>1 DEF EndlessChain
<1>5. Power = [n \in Nat |-> IF n = 0 THEN 1 ELSE Byte * Power[n - 1]]
  BY <1>4 DEF Power
<1> DEFINE S == {n \in Nat : Power[n] \in X}
<1>6. 0 \in S
  BY <1>5
<1>7. ASSUME NEW n \in Nat
      PROVE  Power[n + 1] = Byte * Power[n]
  <2>1. n + 1 \in Nat /\ n + 1 # 0 /\ (n + 1) - 1 = n
    OBVIOUS
  <2> QED
    BY <1>5, <2>1
<1>8. \A n \in Nat : n \in S => n + 1 \in S
  BY <1>7, SizeAssumption
<1> HIDE DEF S
<1>9. Nat \subseteq S
  BY <1>6, <1>8, Induction
<1> QED
  BY <1>5, <1>7, <1>9 DEF S

LEMMA Remainder ==
  ASSUME NEW n \in Nat \ {0}, NEW e \in Nat, NEW s \in 0..(n - 1)
  PROVE  (e * n + s) % n = s
<1> DEFINE a == e * n + s
           q == a \div n
           r == a % n
<1>1. a \in Nat
  OBVIOUS
<1>2. q \in Nat /\ r \in 0..(n - 1) /\ a = q * n + r
  <2> HIDE DEF a
  <2> QED
    BY <1>1, Z3
<1>3. e * n + s = q * n + r
  BY <1>2
<1> HIDE DEF q, r
<1>4. q = e
  <2>1. CASE q >= e + 1
    <3>1. q * n >= e * n + n
      <4>1. PICK k \in Nat : q = e + 1 + k
        <5>1. q - e - 1 \in Nat /\ q = e + 1 + (q - e - 1)
          BY <1>2, <2>1
        <5> QED
          BY <5>1
      <4>2. q * n = e * n + n + k * n
        BY <4>1
      <4>3. k * n \in Nat
        BY <4>1
      <4> QED
        BY <4>2, <4>3
    <3> QED
      BY <1>2, <1>3, <3>1
  <2>2. CASE e >= q + 1
    <3>1. e * n >= q * n + n
      <4>1. PICK k \in Nat : e = q + 1 + k
        <5>1. e - q - 1 \in Nat /\ e = q + 1 + (e - q - 1)
          BY <1>2, <2>2
        <5> QED
          BY <5>1
      <4>2. e * n = q * n + n + k * n
        BY <1>2, <4>1
      <4>3. k * n \in Nat
        BY <4>1
      <4> QED
        BY <1>2, <4>2, <4>3
    <3> QED
      BY <1>2, <1>3, <3>1
  <2> QED
    BY <1>2, <2>1, <2>2
<1>5. r = s
  BY <1>2, <1>3, <1>4
<1> QED
  BY <1>5 DEF r, a

LEMMA Division ==
  ASSUME NEW v \in Nat, NEW n \in Nat \ {0}
  PROVE  /\ v \div n \in Nat /\ v % n \in 0..(n - 1)
         /\ v = (v \div n) * n + (v % n)
  BY Z3

\* One more byte.
LEMMA NextDigit ==
  ASSUME NEW v \in Nat, NEW p \in Nat \ {0}, NEW b \in Nat \ {0}
  PROVE  v % (b * p) = (v % p) + ((v \div p) % b) * p
<1> DEFINE q == v \div p
           r == v % p
           e == q \div b
           d == q % b
<1>1. q \in Nat /\ r \in 0..(p - 1) /\ v = q * p + r
  BY Division
<1> HIDE DEF q, r
<1>2. e \in Nat /\ d \in 0..(b - 1) /\ q = e * b + d
  BY <1>1, Division
<1> HIDE DEF e, d
<1>3. v = e * (b * p) + (d * p + r)
  <2>1. q * p = e * (b * p) + d * p
    BY <1>2
  <2> QED
    BY <1>1, <1>2, <2>1
<1>4. d * p + r \in 0..(b * p - 1) /\ b * p \in Nat \ {0}
  <2>1. PICK k \in Nat : b = d + 1 + k
    <3>1. b - d - 1 \in Nat /\ b = d + 1 + (b - d - 1)
      BY <1>2
    <3> QED
      BY <3>1
  <2>2. b * p = d * p + p + k * p /\ k * p \in Nat /\ d * p \in Nat
    BY <1>2, <2>1
  <2> QED
    BY <1>1, <2>2
<1>5. v % (b * p) = d * p + r
  BY <1>2, <1>3, <1>4, Remainder
<1> QED
  BY <1>1, <1>2, <1>5 DEF q, r, e, d

LEMMA LeType ==
  ASSUME NEW v \in Nat, NEW size \in Nat
  PROVE  Le(v, size) \in Bytes /\ Len(Le(v, size)) = size
<1>1. ASSUME NEW j \in 1..size
      PROVE  (v \div Power[j - 1]) % Byte \in 0..(Byte - 1)
  <2>1. j - 1 \in Nat
    OBVIOUS
  <2>2. Power[j - 1] \in Nat \ {0}
    BY <2>1, Powers
  <2>3. v \div Power[j - 1] \in Nat
    BY <2>2, Division
  <2> QED
    BY <2>3, Division, SizeAssumption
<1> QED
  BY <1>1 DEF Le, Bytes

LEMMA Sums ==
  ASSUME NEW bytes \in Bytes
  PROVE  \E sum \in [0..Len(bytes) -> Nat] :
           /\ sum[0] = 0
           /\ \A j \in 1..Len(bytes) : sum[j] = sum[j - 1] + bytes[j] * Power[j - 1]
           /\ FromLe(bytes) = sum[Len(bytes)]
<1> DEFINE n == Len(bytes)
           step == [j \in 1..n |-> [x \in Nat |-> x + bytes[j] * Power[j - 1]]]
<1>1. n \in Nat /\ \A j \in 1..n : bytes[j] \in Nat /\ Power[j - 1] \in Nat
  <2>1. bytes \in Seq(Nat)
    BY SizeAssumption DEF Bytes
  <2>2. n \in Nat /\ \A j \in 1..n : bytes[j] \in Nat
    BY <2>1
  <2>3. \A j \in 1..n : j - 1 \in Nat
    BY <2>2
  <2> QED
    BY <2>2, <2>3, Powers
<1>2. \A j \in 1..n : bytes[j] * Power[j - 1] \in Nat
  BY <1>1
<1>3. step \in [1..n -> [Nat -> Nat]]
  BY <1>2
<1> HIDE DEF n
<1>4. PICK g \in [0..n -> Nat] : Chain(n, 0, step, g)
  <2> HIDE DEF step
  <2> QED
    BY <1>1, <1>3, Recursion
<1>5. \A j \in 0..n : (IF j = 0 THEN 0 ELSE step[j][g[j - 1]])
                        = (IF j = 0 THEN 0 ELSE g[j - 1] + bytes[j] * Power[j - 1])
  BY <1>1
<1>6. g = [j \in 0..n |-> IF j = 0 THEN 0 ELSE g[j - 1] + bytes[j] * Power[j - 1]]
  BY <1>4, <1>5 DEF Chain
<1> DEFINE Sum(f) == f = [j \in 0..n |-> IF j = 0 THEN 0 ELSE f[j - 1] + bytes[j] * Power[j - 1]]
           sum == CHOOSE f : Sum(f)
<1>7. FromLe(bytes) = sum[n]
  BY DEF FromLe, n
<1>8. Sum(sum)
  BY <1>6
<1> HIDE DEF sum
<1>9. sum[0] = 0 /\ \A j \in 1..n : sum[j] = sum[j - 1] + bytes[j] * Power[j - 1]
  BY <1>1, <1>8
<1> DEFINE S == {j \in Nat : j <= n => sum[j] \in Nat}
<1>10. 0 \in S
  BY <1>9
<1>11. ASSUME NEW j \in Nat, j \in S
       PROVE  j + 1 \in S
  <2> SUFFICES ASSUME j + 1 <= n PROVE sum[j + 1] \in Nat
    OBVIOUS
  <2>1. j + 1 \in 1..n /\ (j + 1) - 1 = j /\ sum[j] \in Nat
    BY <1>1, <1>11
  <2>2. sum[j + 1] = sum[j] + bytes[j + 1] * Power[j]
    BY <1>9, <2>1
  <2>3. bytes[j + 1] * Power[j] \in Nat
    BY <1>2, <2>1
  <2> QED
    BY <2>1, <2>2, <2>3
<1> HIDE DEF S
<1>12. Nat \subseteq S
  BY <1>10, <1>11, Induction
<1>13. sum \in [0..n -> Nat]
  <2>1. \A j \in 0..n : sum[j] \in Nat
    BY <1>1, <1>12 DEF S
  <2> QED
    BY <1>8, <2>1
<1> QED
  BY <1>7, <1>9, <1>13 DEF n

LEMMA FromLeType ==
  ASSUME NEW bytes \in Bytes
  PROVE  FromLe(bytes) \in Nat
<1>1. Len(bytes) \in Nat
  BY DEF Bytes
<1> QED
  BY <1>1, Sums

\* A number that fits its field comes out of the bytes as it went in.
THEOREM FieldRoundTrip ==
  ASSUME NEW size \in Nat, NEW v \in Values(size)
  PROVE  FromLe(Le(v, size)) = v
<1> DEFINE bytes == Le(v, size)
<1>1. v \in Nat /\ v < Power[size] /\ Power[size] \in Nat \ {0}
  BY Powers DEF Values
<1>2. bytes \in Bytes /\ Len(bytes) = size
  BY <1>1, LeType
<1>3. \A j \in 1..size : bytes[j] = (v \div Power[j - 1]) % Byte
  BY DEF Le
<1> HIDE DEF bytes
<1>4. PICK sum \in [0..size -> Nat] :
         /\ sum[0] = 0
         /\ \A j \in 1..size : sum[j] = sum[j - 1] + bytes[j] * Power[j - 1]
         /\ FromLe(bytes) = sum[size]
  BY <1>2, Sums
<1> DEFINE S == {j \in Nat : j <= size => sum[j] = v % Power[j]}
<1>5. 0 \in S
  BY <1>1, <1>4, Powers
<1>6. ASSUME NEW j \in Nat, j \in S
      PROVE  j + 1 \in S
  <2> SUFFICES ASSUME j + 1 <= size PROVE sum[j + 1] = v % Power[j + 1]
    OBVIOUS
  <2>1. j + 1 \in 1..size /\ (j + 1) - 1 = j /\ sum[j] = v % Power[j]
    BY <1>6
  <2>2. sum[j + 1] = (v % Power[j]) + ((v \div Power[j]) % Byte) * Power[j]
    BY <1>3, <1>4, <2>1
  <2>3. Power[j + 1] = Byte * Power[j] /\ Power[j] \in Nat \ {0} /\ Byte \in Nat \ {0}
    BY Powers, SizeAssumption
  <2> DEFINE p == Power[j]
  <2>4. v % (Byte * p) = (v % p) + ((v \div p) % Byte) * p
    <3> HIDE DEF p
    <3>1. p \in Nat \ {0}
      BY <2>3 DEF p
    <3> QED
      BY <1>1, <2>3, <3>1, NextDigit
  <2> QED
    BY <2>2, <2>3, <2>4, Zenon
<1> HIDE DEF S
<1>7. Nat \subseteq S
  BY <1>5, <1>6, Induction
<1>8. sum[size] = v % Power[size]
  BY <1>7 DEF S
<1>9. v % Power[size] = v
  BY <1>1
<1> QED
  BY <1>4, <1>8, <1>9 DEF bytes

-----------------------------------------------------------------------------
(* Parts one behind the other. *)

LEMMA Concat ==
  ASSUME NEW A, NEW s \in Seq(A), NEW t \in Seq(A)
  PROVE  /\ s \o t \in Seq(A)
         /\ Len(s) \in Nat /\ Len(t) \in Nat /\ Len(s \o t) = Len(s) + Len(t)
         /\ \A i \in 1..Len(s) : (s \o t)[i] = s[i]
         /\ \A i \in 1..Len(t) : (s \o t)[Len(s) + i] = t[i]
OBVIOUS

\* u is s, of length a, with t behind it, of length b altogether.
Behind(u, s, a, t, b, A) ==
  /\ u \in Seq(A) /\ Len(u) = b
  /\ \A i \in 1..a : i \in 1..b /\ u[i] = s[i]
  /\ \A i \in 1..Len(t) : a + i \in 1..b /\ u[a + i] = t[i]

LEMMA Append1 ==
  ASSUME NEW A, NEW s \in Seq(A), NEW t \in Seq(A), NEW a \in Nat, NEW b \in Nat,
         Len(s) = a, b = a + Len(t)
  PROVE  Behind(s \o t, s, a, t, b, A)
<1>1. Len(t) \in Nat
  OBVIOUS
<1>2. /\ s \o t \in Seq(A) /\ Len(s \o t) = b
      /\ \A i \in 1..a : i \in 1..b /\ (s \o t)[i] = s[i]
      /\ \A i \in 1..Len(t) : a + i \in 1..b /\ (s \o t)[a + i] = t[i]
  BY <1>1
<1> QED
  BY <1>2 DEF Behind

LEMMA Flattens ==
  ASSUME NEW A, NEW n \in Nat \ {0}, NEW seqs \in [1..n -> Seq(A)]
  PROVE  \E f : /\ f[1] = seqs[1]
                /\ \A m \in 1..(n - 1) : f[m + 1] = f[m] \o seqs[m + 1]
                /\ FlattenSeq(seqs) = f[n]
<1> DEFINE X == Seq(A)
           step == [j \in 1..(n - 1) |-> [x \in X |-> x \o seqs[j + 1]]]
<1>1. \A j \in 1..(n - 1) : seqs[j + 1] \in X
  OBVIOUS
<1>2. step \in [1..(n - 1) -> [X -> X]]
  BY <1>1, Concat
<1>3. n - 1 \in Nat /\ seqs[1] \in X
  OBVIOUS
<1>4. PICK g \in [0..(n - 1) -> X] : Chain(n - 1, seqs[1], step, g)
  <2> HIDE DEF X, step
  <2> QED
    BY <1>2, <1>3, Recursion
<1> DEFINE h == [i \in 1..n |-> g[i - 1]]
           Flatten(f) == f = [i \in 1..n |-> IF i = 1 THEN seqs[i] ELSE f[i - 1] \o seqs[i]]
           flatten == CHOOSE f : Flatten(f)
<1>5. ASSUME NEW i \in 1..n
      PROVE  h[i] = IF i = 1 THEN seqs[i] ELSE h[i - 1] \o seqs[i]
  <2>1. g[i - 1] = IF i - 1 = 0 THEN seqs[1] ELSE step[i - 1][g[i - 1 - 1]]
    <3>1. i - 1 \in 0..(n - 1)
      OBVIOUS
    <3> QED
      BY <1>4, <3>1 DEF Chain
  <2>2. CASE i = 1
    BY <2>1, <2>2
  <2>3. CASE i # 1
    <3>1. i - 1 \in 1..(n - 1) /\ i - 1 # 0 /\ i - 1 - 1 \in 0..(n - 1) /\ (i - 1) + 1 = i
      BY <2>3
    <3>2. g[i - 1 - 1] \in X
      BY <1>4, <3>1
    <3>3. step[i - 1][g[i - 1 - 1]] = g[i - 1 - 1] \o seqs[i]
      BY <3>1, <3>2
    <3>4. h[i] = g[i - 1] /\ h[i - 1] = g[i - 1 - 1]
      BY <3>1
    <3> QED
      BY <2>1, <2>3, <3>1, <3>3, <3>4
  <2> QED
    BY <2>2, <2>3
<1>6. Flatten(h)
  BY <1>5
<1>7. Flatten(flatten)
  BY <1>6
<1>8. FlattenSeq(seqs) = flatten[n]
  <2>1. Len(seqs) = n /\ n # 0
    OBVIOUS
  <2> QED
    BY <2>1 DEF FlattenSeq
<1> HIDE DEF flatten
<1>9. flatten[1] = seqs[1]
  BY <1>7
<1>10. ASSUME NEW m \in 1..(n - 1)
       PROVE  flatten[m + 1] = flatten[m] \o seqs[m + 1]
  <2>1. m + 1 \in 1..n /\ m + 1 # 1 /\ (m + 1) - 1 = m
    OBVIOUS
  <2> QED
    BY <1>7, <2>1
<1> QED
  BY <1>8, <1>9, <1>10

\* end says how far the first parts reach.
Ends(end, n, seqs) ==
  /\ end \in [0..n -> Nat] /\ end[0] = 0
  /\ \A k \in 1..n : end[k] = end[k - 1] + Len(seqs[k])

\* s is the first m of the parts, one behind the other.
Joined(s, m, seqs, end, A) ==
  /\ s \in Seq(A) /\ Len(s) = end[m]
  /\ \A k \in 1..m :
       /\ end[k - 1] + Len(seqs[k]) \in 0..end[m]
       /\ \A i \in 1..Len(seqs[k]) :
            end[k - 1] + i \in 1..end[m] /\ s[end[k - 1] + i] = seqs[k][i]

LEMMA OneJoined ==
  ASSUME NEW A, NEW n \in Nat, NEW seqs \in [1..n -> Seq(A)], NEW end, Ends(end, n, seqs),
         NEW m \in Nat, m + 1 \in 1..n, NEW s, Joined(s, m, seqs, end, A)
  PROVE  Joined(s \o seqs[m + 1], m + 1, seqs, end, A)
<1>1. m \in 0..n /\ m + 1 \in 1..n /\ (m + 1) - 1 = m
  OBVIOUS
<1>2. PICK t \in Seq(A) : t = seqs[m + 1]
  BY <1>1
<1>3. PICK a \in Nat : a = end[m]
  BY <1>1 DEF Ends
<1>4. Len(t) \in Nat /\ end[m + 1] = a + Len(t)
  BY <1>1, <1>2, <1>3 DEF Ends
<1>5. PICK b \in Nat : b = end[m + 1] /\ b = a + Len(t)
  BY <1>3, <1>4
<1>6. s \in Seq(A) /\ Len(s) = a
  BY <1>3 DEF Joined
<1>7. PICK u : u = s \o t /\ Behind(u, s, a, t, b, A)
  BY <1>5, <1>6, Append1, Zenon
<1>8. ASSUME NEW k \in 1..(m + 1), NEW i \in 1..Len(seqs[k])
      PROVE  end[k - 1] + i \in 1..b /\ u[end[k - 1] + i] = seqs[k][i]
  <2>1. CASE k = m + 1
    <3>1. end[k - 1] = a /\ seqs[k] = t
      BY <1>1, <1>2, <1>3, <2>1
    <3> QED
      BY <1>7, <3>1 DEF Behind
  <2>2. CASE k \in 1..m
    <3>1. end[k - 1] + i \in 1..a /\ s[end[k - 1] + i] = seqs[k][i]
      BY <1>3, <2>2 DEF Joined
    <3> QED
      BY <1>7, <3>1 DEF Behind
  <2> QED
    BY <2>1, <2>2
<1>9. ASSUME NEW k \in 1..(m + 1)
      PROVE  end[k - 1] + Len(seqs[k]) \in 0..b
  <2>1. CASE k = m + 1
    <3>1. end[k - 1] = a /\ seqs[k] = t
      BY <1>1, <1>2, <1>3, <2>1
    <3> QED
      BY <1>4, <1>5, <3>1
  <2>2. CASE k \in 1..m
    <3>1. end[k - 1] + Len(seqs[k]) \in 0..a
      BY <1>3, <2>2 DEF Joined
    <3> QED
      BY <1>4, <1>5, <3>1
  <2> QED
    BY <2>1, <2>2
<1>10. Joined(u, m + 1, seqs, end, A)
  BY <1>5, <1>7, <1>8, <1>9 DEF Joined, Behind
<1> QED
  BY <1>2, <1>7, <1>10

\* Where the parts of a flattened sequence stand: behind those in front of them.
LEMMA Flattened ==
  ASSUME NEW A, NEW n \in Nat \ {0}, NEW seqs \in [1..n -> Seq(A)],
         NEW end, Ends(end, n, seqs)
  PROVE  Joined(FlattenSeq(seqs), n, seqs, end, A)
<1>1. PICK f : /\ f[1] = seqs[1]
               /\ \A m \in 1..(n - 1) : f[m + 1] = f[m] \o seqs[m + 1]
               /\ FlattenSeq(seqs) = f[n]
  BY Flattens
<1> DEFINE S == {m \in Nat : m \in 1..n => Joined(f[m], m, seqs, end, A)}
<1>2. 0 \in S
  OBVIOUS
<1>3. ASSUME NEW m \in Nat, m \in S
      PROVE  m + 1 \in S
  <2> SUFFICES ASSUME m + 1 \in 1..n PROVE Joined(f[m + 1], m + 1, seqs, end, A)
    OBVIOUS
  <2>1. CASE m = 0
    <3>1. end[1] = Len(seqs[1]) /\ f[1] = seqs[1] /\ seqs[1] \in Seq(A) /\ end[1 - 1] = 0
      BY <1>1 DEF Ends
    <3>2. \A k \in 1..1 : k = 1
      OBVIOUS
    <3>4. Len(seqs[1]) \in Nat
      BY <3>1
    <3>3. Joined(f[1], 1, seqs, end, A)
      BY <3>1, <3>2, <3>4 DEF Joined
    <3> QED
      BY <2>1, <3>3
  <2>2. CASE m # 0
    <3>1. m \in 1..n /\ m \in 1..(n - 1)
      BY <2>2
    <3>2. Joined(f[m], m, seqs, end, A) /\ f[m + 1] = f[m] \o seqs[m + 1]
      BY <1>1, <1>3, <3>1
    <3>3. Joined(f[m] \o seqs[m + 1], m + 1, seqs, end, A)
      BY <3>2, OneJoined
    <3> QED
      BY <3>2, <3>3
  <2> QED
    BY <2>1, <2>2
<1> HIDE DEF S
<1>4. Nat \subseteq S
  BY <1>2, <1>3, Induction
<1>5. Joined(f[n], n, seqs, end, A)
  BY <1>4 DEF S
<1> QED
  BY <1>1, <1>5

\* part stands in bytes behind the first offset of them.
At(bytes, offset, part) ==
  /\ offset + Len(part) <= Len(bytes)
  /\ \A i \in 1..Len(part) : bytes[offset + i] = part[i]

LEMMA CutOut ==
  ASSUME NEW A, NEW bytes \in Seq(A), NEW part \in Seq(A), NEW offset \in Nat,
         At(bytes, offset, part)
  PROVE  SubSeq(bytes, offset + 1, offset + Len(part)) = part
<1> DEFINE n == Len(part)
           cut == SubSeq(bytes, offset + 1, offset + n)
<1>1. /\ n \in Nat /\ Len(bytes) \in Nat /\ offset + n <= Len(bytes)
  BY DEF At
<1>2. \A i \in 1..n : bytes[offset + i] = part[i]
  BY DEF At
<1>5. part = [i \in 1..n |-> part[i]]
  BY <1>1
<1> HIDE DEF n
<1>3. \A i \in (offset + 1)..(offset + n) : bytes[i] \in A
  <2>1. \A i \in (offset + 1)..(offset + n) : i \in 1..Len(bytes)
    BY <1>1
  <2> QED
    BY <1>1, <2>1
<1>4. /\ cut \in Seq(A) /\ Len(cut) = n
      /\ \A i \in 1..n : cut[i] = bytes[offset + i]
  <2> DEFINE m == offset + 1
             e == offset + n
  <2>1. m \in Int /\ e \in Int /\ e - m + 1 = n /\ (IF m <= e THEN e - m + 1 ELSE 0) = n
    BY <1>1
  <2>2. \A i \in 1..n : m + i - 1 = offset + i
    BY <1>1
  <2> HIDE DEF m, e
  <2>3. /\ SubSeq(bytes, m, e) \in Seq(A)
        /\ Len(SubSeq(bytes, m, e)) = IF m <= e THEN e - m + 1 ELSE 0
        /\ \A i \in 1..(e - m + 1) : SubSeq(bytes, m, e)[i] = bytes[m + i - 1]
    <3>1. \A i \in m..e : bytes[i] \in A
      BY <1>3 DEF m, e
    <3> QED
      BY <2>1, <3>1, SubSeqProperties
  <2>4. cut = SubSeq(bytes, m, e)
    BY DEF m, e
  <2> HIDE DEF cut
  <2> QED
    BY <2>1, <2>2, <2>3, <2>4
<1> HIDE DEF cut
<1>6. cut = [i \in 1..n |-> cut[i]]
  BY <1>4
<1> QED
  BY <1>2, <1>4, <1>5, <1>6 DEF n, cut

LEMMA FrontAt ==
  ASSUME NEW A, NEW a \in Seq(A), NEW b \in Seq(A)
  PROVE  a \o b \in Seq(A) /\ At(a \o b, 0, a) /\ At(a \o b, Len(a), b)
  BY Concat DEF At

LEMMA AtAt ==
  ASSUME NEW A, NEW bytes \in Seq(A), NEW part \in Seq(A), NEW piece \in Seq(A),
         NEW o \in Nat, NEW p \in Nat, At(bytes, o, part), At(part, p, piece)
  PROVE  At(bytes, o + p, piece)
<1>1. Len(bytes) \in Nat /\ Len(part) \in Nat /\ Len(piece) \in Nat
  OBVIOUS
<1>2. o + Len(part) <= Len(bytes) /\ p + Len(piece) <= Len(part)
  BY DEF At
<1>3. ASSUME NEW i \in 1..Len(piece)
      PROVE  bytes[(o + p) + i] = piece[i]
  <2>1. p + i \in 1..Len(part) /\ o + (p + i) = (o + p) + i
    BY <1>1, <1>2
  <2>2. part[p + i] = piece[i] /\ bytes[o + (p + i)] = part[p + i]
    BY <2>1 DEF At
  <2> QED
    BY <2>1, <2>2
<1> QED
  BY <1>1, <1>2, <1>3 DEF At

-----------------------------------------------------------------------------
(* Fields and units. *)

RequestNames ==
  {"minor_ver", "major_ver", "vm_info", "license_status", "binding_expiration", "app_id",
   "act_id", "kms_id", "cmid", "n_policy", "time_low", "time_high", "cmid_prev"}

TailNames ==
  {"cmid", "time_low", "time_high", "count", "vl_activation_interval", "vl_renewal_interval"}

FieldNames == RequestNames \cup TailNames

\* Fields in the order in which they are sent.
Fields == Seq(FieldNames \X Nat)

NamesOf(fields) == {fields[k][1] : k \in DOMAIN fields}

\* What a record has in these fields.
Part(fields, r) == [name \in NamesOf(fields) |-> r[name]]

LEMMA Sizes ==
  ASSUME NEW fields \in Fields
  PROVE  /\ SizeUpTo(fields, 0) = 0
         /\ \A k \in 1..Len(fields) :
              SizeUpTo(fields, k) = SizeUpTo(fields, k - 1) + fields[k][2]
         /\ \A k \in 0..Len(fields) : SizeUpTo(fields, k) \in Nat
<1> DEFINE n == Len(fields)
           step == [j \in 1..n |-> [x \in Nat |-> x + fields[j][2]]]
<1>1. n \in Nat /\ \A j \in 1..n : fields[j][2] \in Nat
  BY DEF Fields
<1>2. step \in [1..n -> [Nat -> Nat]]
  BY <1>1
<1> HIDE DEF n
<1>3. PICK g \in [0..n -> Nat] : Chain(n, 0, step, g)
  <2> HIDE DEF step
  <2> QED
    BY <1>1, <1>2, Recursion
<1> DEFINE Sum(f) == f = [j \in 0..n |-> IF j = 0 THEN 0 ELSE f[j - 1] + fields[j][2]]
           sum == CHOOSE f : Sum(f)
<1>4. Sum(g)
  <2>1. ASSUME NEW j \in 0..n
        PROVE  (IF j = 0 THEN 0 ELSE step[j][g[j - 1]])
                 = (IF j = 0 THEN 0 ELSE g[j - 1] + fields[j][2])
    <3>1. CASE j = 0
      BY <3>1
    <3>2. CASE j # 0
      <4>1. j \in 1..n /\ j - 1 \in 0..n
        BY <1>1, <3>2
      <4>2. g[j - 1] \in Nat
        BY <4>1
      <4>3. step[j] = [x \in Nat |-> x + fields[j][2]]
        BY <4>1
      <4> HIDE DEF step
      <4> QED
        BY <3>2, <4>2, <4>3
    <3> QED
      BY <3>1, <3>2
  <2> QED
    BY <1>3, <2>1 DEF Chain
<1>5. Sum(sum)
  BY <1>4
<1>6. ASSUME NEW k
      PROVE  SizeUpTo(fields, k) = sum[k]
  BY DEF SizeUpTo, n
<1> HIDE DEF sum
<1>7. sum[0] = 0 /\ \A k \in 1..n : sum[k] = sum[k - 1] + fields[k][2]
  BY <1>1, <1>5
<1> DEFINE S == {j \in Nat : j <= n => sum[j] \in Nat}
<1>8. 0 \in S
  BY <1>7
<1>9. ASSUME NEW j \in Nat, j \in S
      PROVE  j + 1 \in S
  <2> SUFFICES ASSUME j + 1 <= n PROVE sum[j + 1] \in Nat
    OBVIOUS
  <2>1. j + 1 \in 1..n /\ (j + 1) - 1 = j /\ sum[j] \in Nat
    BY <1>1, <1>9
  <2>2. sum[j + 1] = sum[j] + fields[j + 1][2] /\ fields[j + 1][2] \in Nat
    BY <1>1, <1>7, <2>1
  <2> QED
    BY <2>1, <2>2
<1> HIDE DEF S
<1>10. Nat \subseteq S
  BY <1>8, <1>9, Induction
<1>11. \A j \in 0..n : sum[j] \in Nat
  BY <1>1, <1>10 DEF S
<1> QED
  BY <1>6, <1>7, <1>11 DEF n

\* A record has a value for each field, and it fits.
FitsIn(fields, r) ==
  \A k \in 1..Len(fields) : r[fields[k][1]] \in Values(fields[k][2])

DifferentNames(fields) ==
  \A i, j \in 1..Len(fields) : fields[i][1] = fields[j][1] => i = j

Digits == 0..(Byte - 1)

LEMMA EncodedAt ==
  ASSUME NEW fields \in Fields, fields # <<>>, NEW r, FitsIn(fields, r)
  PROVE  /\ Encode(fields, r) \in Bytes
         /\ Len(Encode(fields, r)) = SizeOf(fields)
         /\ \A k \in 1..Len(fields) :
              At(Encode(fields, r), SizeUpTo(fields, k - 1), Le(r[fields[k][1]], fields[k][2]))
<1> DEFINE n == Len(fields)
           part(k) == Le(r[fields[k][1]], fields[k][2])
           seqs == [k \in 1..n |-> part(k)]
           end == [k \in 0..n |-> SizeUpTo(fields, k)]
<1>1. n \in Nat \ {0} /\ \A k \in 1..n : fields[k][2] \in Nat
  BY DEF Fields
<1>2. \A k \in 1..n : part(k) \in Seq(Digits) /\ Len(part(k)) = fields[k][2]
  <2>1. ASSUME NEW k \in 1..n
        PROVE  part(k) \in Bytes /\ Len(part(k)) = fields[k][2]
    <3>1. r[fields[k][1]] \in Nat /\ fields[k][2] \in Nat
      BY <1>1 DEF FitsIn, Values
    <3> QED
      BY <3>1, LeType
  <2> QED
    BY <2>1 DEF Bytes, Digits
<1> HIDE DEF part
<1>3. seqs \in [1..n -> Seq(Digits)]
  BY <1>2
<1>4. Encode(fields, r) = FlattenSeq(seqs)
  BY DEF Encode, part
<1>5. Ends(end, n, seqs)
  <2>1. end \in [0..n -> Nat] /\ end[0] = 0
    BY <1>1, Sizes
  <2>2. ASSUME NEW k \in 1..n
        PROVE  end[k] = end[k - 1] + Len(seqs[k])
    <3>1. k - 1 \in 0..n /\ k \in 0..n
      BY <1>1
    <3>2. SizeUpTo(fields, k) = SizeUpTo(fields, k - 1) + fields[k][2]
      BY Sizes
    <3> QED
      BY <1>2, <3>1, <3>2
  <2> QED
    BY <2>1, <2>2 DEF Ends
<1> HIDE DEF seqs, end
<1>6. Joined(Encode(fields, r), n, seqs, end, Digits)
  <2> HIDE DEF n
  <2> QED
    BY <1>1, <1>3, <1>4, <1>5, Flattened
<1>7. Encode(fields, r) \in Bytes
  BY <1>6 DEF Joined, Bytes, Digits
<1>8. Len(Encode(fields, r)) = SizeOf(fields)
  <2>1. end[n] = SizeUpTo(fields, n)
    BY <1>1 DEF end
  <2> QED
    BY <1>6, <2>1 DEF Joined, SizeOf
<1>9. ASSUME NEW k \in 1..n
      PROVE  At(Encode(fields, r), SizeUpTo(fields, k - 1), part(k))
  <2>1. PICK e \in Bytes : e = Encode(fields, r)
    BY <1>7
  <2>2. seqs[k] = part(k) /\ end[k - 1] = SizeUpTo(fields, k - 1)
    BY <1>1 DEF seqs, end
  <2>3. PICK o \in Nat : o = SizeUpTo(fields, k - 1)
    <3>1. k - 1 \in 0..n
      BY <1>1
    <3> QED
      BY <3>1, Sizes
  <2>4. \A i \in 1..Len(part(k)) : o + i \in 1..end[n] /\ e[o + i] = part(k)[i]
    BY <1>6, <2>1, <2>2, <2>3 DEF Joined
  <2>5. PICK l \in Nat : l = end[n]
    <3>1. end \in [0..n -> Nat] /\ n \in 0..n
      BY <1>1, <1>5 DEF Ends
    <3> QED
      BY <3>1
  <2>6. PICK m \in Nat : m = Len(part(k))
    BY <1>2
  <2>7. o + m <= l
    BY <1>6, <2>2, <2>3, <2>5, <2>6 DEF Joined
  <2>8. Len(e) = l
    BY <1>6, <2>1, <2>5 DEF Joined
  <2> QED
    BY <2>1, <2>3, <2>4, <2>6, <2>7, <2>8 DEF At
<1> QED
  BY <1>7, <1>8, <1>9 DEF part

LEMMA SubBytes ==
  ASSUME NEW bytes \in Bytes, NEW part \in Bytes, NEW o \in Nat, At(bytes, o, part)
  PROVE  SubSeq(bytes, o + 1, o + Len(part)) = part
  BY CutOut DEF Bytes

\* What a record of these fields reads where they stand.
LEMMA DecodeAt ==
  ASSUME NEW fields \in Fields, fields # <<>>, DifferentNames(fields),
         NEW r, FitsIn(fields, r),
         NEW bytes \in Bytes, NEW offset \in Nat, At(bytes, offset, Encode(fields, r))
  PROVE  Decode(fields, bytes, offset) = Part(fields, r)
<1>1. DOMAIN fields = 1..Len(fields) /\ Len(fields) \in Nat
  BY DEF Fields
<1>2. ASSUME NEW k \in 1..Len(fields)
      PROVE  LET o == offset + SizeUpTo(fields, k - 1)
             IN  FromLe(SubSeq(bytes, o + 1, o + fields[k][2])) = r[fields[k][1]]
  <2>1. PICK p \in Nat : p = SizeUpTo(fields, k - 1)
    <3>1. k - 1 \in 0..Len(fields)
      BY <1>1
    <3> QED
      BY <3>1, Sizes
  <2>2. PICK size \in Nat : size = fields[k][2]
    BY <1>1 DEF Fields
  <2>3. PICK v \in Values(size) : v = r[fields[k][1]]
    BY <2>2 DEF FitsIn
  <2>4. v \in Nat
    BY DEF Values
  <2>5. PICK part \in Bytes : part = Le(v, size) /\ Len(part) = size
    BY <2>4, LeType
  <2>6. PICK code \in Bytes : code = Encode(fields, r)
    BY EncodedAt
  <2>7. At(code, p, part)
    BY <2>1, <2>2, <2>3, <2>5, <2>6, EncodedAt
  <2>8. At(bytes, offset, code)
    BY <2>6
  <2>9. At(bytes, offset + p, part)
    BY <2>7, <2>8, AtAt DEF Bytes
  <2>10. PICK o \in Nat : o = offset + p
    OBVIOUS
  <2>11. SubSeq(bytes, o + 1, o + size) = part
    BY <2>5, <2>9, <2>10, SubBytes
  <2>12. FromLe(part) = v
    BY <2>5, FieldRoundTrip
  <2> QED
    BY <2>1, <2>2, <2>3, <2>10, <2>11, <2>12
<1>3. ASSUME NEW name \in NamesOf(fields)
      PROVE  LET k == CHOOSE k \in DOMAIN fields : fields[k][1] = name
                 o == offset + SizeUpTo(fields, k - 1)
             IN  FromLe(SubSeq(bytes, o + 1, o + fields[k][2])) = r[name]
  <2>1. PICK i : i = CHOOSE k \in DOMAIN fields : fields[k][1] = name
    OBVIOUS
  <2>2. i \in 1..Len(fields) /\ fields[i][1] = name
    BY <1>1, <2>1 DEF NamesOf
  <2> QED
    BY <1>2, <2>1, <2>2, Zenon
<1> QED
  BY <1>3, Zenon DEF Decode, Part, NamesOf

\* UTF-16 units.
LEMMA UnitsType ==
  ASSUME NEW units \in Seq(Values(U16))
  PROVE  /\ Units(units) \in Bytes /\ Len(Units(units)) = U16 * Len(units)
         /\ \A k \in 1..Len(units) : At(Units(units), (k - 1) * U16, Le(units[k], U16))
<1> DEFINE n == Len(units)
           part(k) == Le(units[k], U16)
           seqs == [k \in 1..n |-> part(k)]
           end == [k \in 0..n |-> k * U16]
<1>1. n \in Nat /\ U16 \in Nat \ {0} /\ \A k \in 1..n : units[k] \in Values(U16)
  BY SizeAssumption
<1>2. \A k \in 1..n : part(k) \in Seq(Digits) /\ Len(part(k)) = U16
  <2>1. ASSUME NEW k \in 1..n
        PROVE  part(k) \in Bytes /\ Len(part(k)) = U16
    <3>1. units[k] \in Nat /\ U16 \in Nat
      BY <1>1 DEF Values
    <3> QED
      BY <3>1, LeType
  <2> QED
    BY <2>1 DEF Bytes, Digits
<1>3. Units(units) = FlattenSeq(seqs)
  BY DEF Units
<1> HIDE DEF part
<1>4. seqs \in [1..n -> Seq(Digits)]
  BY <1>2
<1>5. CASE n = 0
  <2>1. seqs = <<>>
    BY <1>5
  <2>2. Units(units) = <<>>
    BY <1>3, <2>1 DEF FlattenSeq
  <2> QED
    BY <1>1, <1>5, <2>2 DEF Bytes
<1>6. CASE n # 0
  <2>1. Ends(end, n, seqs)
    <3>1. end \in [0..n -> Nat] /\ end[0] = 0
      BY <1>1
    <3>2. ASSUME NEW k \in 1..n
          PROVE  end[k] = end[k - 1] + Len(seqs[k])
      BY <1>1, <1>2
    <3> QED
      BY <3>1, <3>2 DEF Ends
  <2> HIDE DEF seqs, end
  <2>2. Joined(Units(units), n, seqs, end, Digits)
    <3> HIDE DEF n
    <3> QED
      BY <1>1, <1>3, <1>4, <1>6, <2>1, Flattened
  <2>3. PICK u \in Bytes : u = Units(units)
    BY <2>2 DEF Joined, Bytes, Digits
  <2>4. PICK l \in Nat : l = end[n] /\ l = n * U16
    BY <1>1 DEF end
  <2>5. Len(u) = l
    BY <2>2, <2>3, <2>4 DEF Joined
  <2>6. ASSUME NEW k \in 1..n
        PROVE  At(u, (k - 1) * U16, part(k))
    <3>1. PICK o \in Nat : o = end[k - 1] /\ o = (k - 1) * U16
      <4>1. k - 1 \in 0..n /\ (k - 1) * U16 \in Nat
        BY <1>1
      <4> QED
        BY <4>1 DEF end
    <3>2. seqs[k] = part(k)
      BY DEF seqs
    <3>3. \A i \in 1..Len(part(k)) : u[o + i] = part(k)[i]
      BY <2>2, <2>3, <3>1, <3>2 DEF Joined
    <3>4. o + Len(part(k)) <= l
      <4>1. o + Len(part(k)) \in 0..l
        BY <2>2, <2>4, <3>1, <3>2 DEF Joined
      <4> QED
        BY <4>1
    <3> QED
      BY <2>5, <3>1, <3>3, <3>4 DEF At
  <2> QED
    BY <1>1, <2>3, <2>4, <2>5, <2>6 DEF part
<1> QED
  BY <1>5, <1>6

\* Units are read as they were written.
LEMMA UnitsRead ==
  ASSUME NEW units \in Seq(Values(U16)), NEW bytes \in Bytes, NEW offset \in Nat,
         At(bytes, offset, Units(units))
  PROVE  UnitsAt(bytes, offset, Len(units)) = units
<1> DEFINE n == Len(units)
<1>1. n \in Nat /\ U16 \in Nat \ {0} /\ \A k \in 1..n : units[k] \in Values(U16)
  BY SizeAssumption
<1>2. PICK u \in Bytes : u = Units(units)
  BY UnitsType
<1>3. ASSUME NEW k \in 1..n
      PROVE  FromLe(SubSeq(bytes, offset + (k - 1) * U16 + 1, offset + k * U16)) = units[k]
  <2>1. PICK p \in Nat : p = (k - 1) * U16 /\ p + U16 = k * U16
    <3>1. (k - 1) * U16 \in Nat /\ (k - 1) * U16 + U16 = k * U16
      BY <1>1
    <3> QED
      BY <3>1
  <2>2. PICK v \in Values(U16) : v = units[k]
    BY <1>1
  <2>3. v \in Nat
    BY DEF Values
  <2>4. PICK part \in Bytes : part = Le(v, U16) /\ Len(part) = U16
    BY <1>1, <2>3, LeType
  <2>5. At(u, p, part)
    BY <1>2, <2>1, <2>2, <2>4, UnitsType
  <2>6. At(bytes, offset + p, part)
    BY <1>2, <2>5, AtAt DEF Bytes
  <2>7. PICK o \in Nat : o = offset + p
    OBVIOUS
  <2>8. SubSeq(bytes, o + 1, o + U16) = part
    BY <2>4, <2>6, <2>7, SubBytes
  <2>9. FromLe(part) = v
    BY <1>1, <2>4, FieldRoundTrip
  <2>10. offset + (k - 1) * U16 + 1 = o + 1 /\ offset + k * U16 = o + U16
    BY <1>1, <2>1, <2>7
  <2> QED
    BY <2>2, <2>8, <2>9, <2>10
<1>4. units = [k \in 1..n |-> units[k]]
  BY <1>1
<1> QED
  BY <1>3, <1>4 DEF UnitsAt

-----------------------------------------------------------------------------
(* Requests and responses. *)

Requests ==
  [minor_ver : Values(U16), major_ver : Values(U16), vm_info : Values(U32),
   license_status : Values(U32), binding_expiration : Values(U32),
   app_id : Values(GuidSize), act_id : Values(GuidSize), kms_id : Values(GuidSize),
   cmid : Values(GuidSize), n_policy : Values(U32), time_low : Values(U32),
   time_high : Values(U32), cmid_prev : Values(GuidSize),
   workstation_name : [1..NameLength -> Values(U16)]]

LEMMA Sizable ==
  /\ U16 \in Nat \ {0} /\ U32 \in Nat \ {0}
  /\ GuidSize \in Nat \ {0} /\ NameLength \in Nat \ {0}
  BY SizeAssumption

LEMMA RequestFieldsType ==
  /\ RequestFields \in Fields /\ RequestFields # <<>> /\ Len(RequestFields) = 13
  /\ DifferentNames(RequestFields)
  /\ NamesOf(RequestFields) = RequestNames
<1>1. RequestFields \in Fields /\ RequestFields # <<>> /\ Len(RequestFields) = 13
  <2> DEFINE F == FieldNames \X Nat
  <2>1. \A size \in {U16, U32, GuidSize}, name \in RequestNames : <<name, size>> \in F
    <3>1. U16 \in Nat /\ U32 \in Nat /\ GuidSize \in Nat
      BY Sizable
    <3>2. RequestNames \subseteq FieldNames
      BY DEF FieldNames
    <3> QED
      BY <3>1, <3>2
  <2> HIDE DEF F
  <2>2. RequestFields \in Seq(F)
    BY <2>1 DEF RequestFields, RequestNames
  <2>3. Len(RequestFields) = 13 /\ RequestFields # <<>>
    BY DEF RequestFields
  <2> QED
    BY <2>2, <2>3 DEF F, Fields
<1>2. DifferentNames(RequestFields)
  BY DEF RequestFields, DifferentNames
<1>3. NamesOf(RequestFields) = RequestNames
  BY DEF RequestFields, RequestNames, NamesOf
<1> QED
  BY <1>1, <1>2, <1>3

LEMMA RequestFits ==
  ASSUME NEW r \in Requests
  PROVE  FitsIn(RequestFields, r)
  BY DEF RequestFields, FitsIn, Requests

LEMMA RequestBytes ==
  ASSUME NEW r \in Requests
  PROVE  /\ RequestToBytes(r) \in Bytes
         /\ Len(RequestToBytes(r)) = SizeOf(RequestFields) + U16 * NameLength
         /\ SizeOf(RequestFields) \in Nat
         /\ At(RequestToBytes(r), 0, Encode(RequestFields, r))
         /\ At(RequestToBytes(r), SizeOf(RequestFields), Units(r.workstation_name))
<1>1. PICK front \in Bytes : front = Encode(RequestFields, r) /\ Len(front) = SizeOf(RequestFields)
  BY RequestFieldsType, RequestFits, EncodedAt
<1>2. PICK name \in Seq(Values(U16)) : name = r.workstation_name /\ Len(name) = NameLength
  <2>1. r.workstation_name \in [1..NameLength -> Values(U16)]
    BY DEF Requests
  <2> QED
    BY <2>1, Sizable
<1>3. PICK back \in Bytes : back = Units(name) /\ Len(back) = U16 * NameLength
  BY <1>2, UnitsType
<1>4. front \o back \in Bytes /\ At(front \o back, 0, front) /\ At(front \o back, Len(front), back)
  BY FrontAt DEF Bytes
<1>5. Len(front \o back) = Len(front) + Len(back) /\ Len(front) \in Nat
  BY Concat DEF Bytes
<1>6. RequestToBytes(r) = front \o back
  BY <1>1, <1>2, <1>3 DEF RequestToBytes
<1> QED
  BY <1>1, <1>2, <1>3, <1>4, <1>5, <1>6

\* A request is read from its bytes as it was written, whatever follows them.
THEOREM RequestRoundTrip ==
  ASSUME NEW r \in Requests, NEW rest \in Bytes
  PROVE  RequestFromBytes(RequestToBytes(r) \o rest) = r
<1>1. PICK code \in Bytes : code = RequestToBytes(r)
  BY RequestBytes
<1>2. PICK bytes \in Bytes : bytes = code \o rest /\ At(bytes, 0, code)
  BY FrontAt DEF Bytes
<1>3. PICK size \in Nat : size = SizeOf(RequestFields)
  BY RequestBytes
<1>4. PICK front \in Bytes : front = Encode(RequestFields, r)
  BY RequestFieldsType, RequestFits, EncodedAt
<1>5. PICK name \in Seq(Values(U16)) : name = r.workstation_name /\ Len(name) = NameLength
  <2>1. r.workstation_name \in [1..NameLength -> Values(U16)]
    BY DEF Requests
  <2> QED
    BY <2>1, Sizable
<1>6. PICK back \in Bytes : back = Units(name)
  BY <1>5, UnitsType
<1>7. At(code, 0, front) /\ At(code, size, back)
  BY <1>1, <1>3, <1>4, <1>5, <1>6, RequestBytes
<1>8. At(bytes, 0, front) /\ At(bytes, size, back)
  <2>1. 0 + 0 = 0 /\ 0 + size = size
    OBVIOUS
  <2>2. At(bytes, 0 + 0, front)
    BY <1>2, <1>7, AtAt DEF Bytes
  <2>3. At(bytes, 0 + size, back)
    BY <1>2, <1>7, AtAt DEF Bytes
  <2> QED
    BY <2>1, <2>2, <2>3
<1>9. Decode(RequestFields, bytes, 0) = [n \in RequestNames |-> r[n]]
  <2>1. PICK fields \in Fields : fields = RequestFields
    BY RequestFieldsType
  <2>2. PICK o \in Nat : o = 0
    OBVIOUS
  <2>3. /\ fields # <<>> /\ DifferentNames(fields) /\ FitsIn(fields, r)
        /\ At(bytes, o, Encode(fields, r))
    BY <1>4, <1>8, <2>1, <2>2, RequestFits, RequestFieldsType
  <2>4. Decode(fields, bytes, o) = Part(fields, r)
    BY <2>3, DecodeAt
  <2> QED
    BY <2>1, <2>2, <2>4, RequestFieldsType DEF Part
<1>10. UnitsAt(bytes, size, NameLength) = name
  BY <1>5, <1>6, <1>8, UnitsRead
<1>11. RequestFromBytes(bytes)
         = [n \in RequestNames \cup {"workstation_name"} |->
              IF n \in RequestNames THEN r[n] ELSE name]
  <2>1. DOMAIN [n \in RequestNames |-> r[n]] = RequestNames
    OBVIOUS
  <2> QED
    BY <1>3, <1>9, <1>10, <2>1 DEF RequestFromBytes, WithName
<1>12. r = [n \in RequestNames \cup {"workstation_name"} |-> r[n]]
  BY DEF Requests, RequestNames
<1>13. [n \in RequestNames \cup {"workstation_name"} |-> r[n]]
         = [n \in RequestNames \cup {"workstation_name"} |->
              IF n \in RequestNames THEN r[n] ELSE name]
  BY <1>5
<1> QED
  BY <1>1, <1>2, <1>11, <1>12, <1>13

LEMMA TailFieldsType ==
  /\ TailFields \in Fields /\ TailFields # <<>>
  /\ DifferentNames(TailFields)
  /\ NamesOf(TailFields) = TailNames
<1>1. TailFields \in Fields /\ TailFields # <<>>
  <2> DEFINE F == FieldNames \X Nat
  <2>1. \A size \in {U32, GuidSize}, name \in TailNames : <<name, size>> \in F
    <3>1. U32 \in Nat /\ GuidSize \in Nat
      BY Sizable
    <3>2. TailNames \subseteq FieldNames
      BY DEF FieldNames
    <3> QED
      BY <3>1, <3>2
  <2> HIDE DEF F
  <2>2. TailFields \in Seq(F)
    BY <2>1 DEF TailFields, TailNames
  <2>3. TailFields # <<>>
    BY DEF TailFields
  <2> QED
    BY <2>2, <2>3 DEF F, Fields
<1>2. DifferentNames(TailFields)
  BY DEF TailFields, DifferentNames
<1>3. NamesOf(TailFields) = TailNames
  BY DEF TailFields, TailNames, NamesOf
<1> QED
  BY <1>1, <1>2, <1>3

Responses ==
  [minor_ver : Values(U16), major_ver : Values(U16), pid : Seq(Values(U16)),
   cmid : Values(GuidSize), time_low : Values(U32), time_high : Values(U32),
   count : Values(U32), vl_activation_interval : Values(U32),
   vl_renewal_interval : Values(U32)]

LEMMA TailFits ==
  ASSUME NEW r \in Responses
  PROVE  FitsIn(TailFields, r)
  BY DEF TailFields, FitsIn, Responses

LEMMA TailRead ==
  ASSUME NEW r \in Responses, NEW bytes \in Bytes, NEW offset \in Nat,
         At(bytes, offset, Encode(TailFields, r))
  PROVE  Decode(TailFields, bytes, offset) = [n \in TailNames |-> r[n]]
<1>1. PICK fields \in Fields : fields = TailFields
  BY TailFieldsType
<1>2. /\ fields # <<>> /\ DifferentNames(fields) /\ FitsIn(fields, r)
      /\ At(bytes, offset, Encode(fields, r))
  BY <1>1, TailFieldsType, TailFits
<1>3. Decode(fields, bytes, offset) = Part(fields, r)
  BY <1>2, DecodeAt
<1> QED
  BY <1>1, <1>3, TailFieldsType DEF Part

LEMMA EndAt ==
  ASSUME NEW x \in Bytes, NEW y \in Bytes
  PROVE  x \o y \in Bytes /\ Len(x \o y) = Len(x) + Len(y) /\ At(x \o y, Len(x), y)
  BY FrontAt, Concat DEF Bytes

LEMMA StillAt ==
  ASSUME NEW x \in Bytes, NEW y \in Bytes, NEW piece \in Bytes, NEW p \in Nat, At(x, p, piece)
  PROVE  At(x \o y, p, piece)
<1>1. PICK z \in Bytes : z = x \o y /\ At(z, 0, x)
  BY FrontAt DEF Bytes
<1>2. At(z, 0 + p, piece)
  BY <1>1, AtAt DEF Bytes
<1> QED
  BY <1>1, <1>2

LEMMA Glued ==
  ASSUME NEW x \in Bytes, NEW y \in Bytes, NEW n \in Nat, NEW m \in Nat, Len(x) = n, Len(y) = m
  PROVE  \E z \in Bytes : z = x \o y /\ Len(z) = n + m /\ At(z, n, y)
  BY EndAt

HeadSize == 2 * U16 + U32

\* What a client reads of a response is what the server wrote, whatever follows it.
THEOREM ResponseRoundTrip ==
  ASSUME NEW r \in Responses, U16 * Len(r.pid) \in Values(U32), NEW rest \in Bytes, NEW data,
         data = ResponseToWire(r) \o rest
  PROVE  /\ ResponseToWire(r) \in Bytes /\ data \in Bytes
         /\ HeadSize \in Nat
         /\ FromLe(SubSeq(data, 2 * U16 + 1, HeadSize)) = U16 * Len(r.pid)
         /\ Len(data) >= HeadSize + U16 * Len(r.pid) + SizeOf(TailFields)
         /\ UnitsAt(data, HeadSize, Len(r.pid)) = r.pid
         /\ Decode(TailFields, data, HeadSize + U16 * Len(r.pid)) = [n \in TailNames |-> r[n]]
<1>1. PICK a \in Bytes : a = Le(r.minor_ver, U16) /\ Len(a) = U16
  <2>1. r.minor_ver \in Nat
    BY DEF Responses, Values
  <2> QED
    BY <2>1, LeType, Sizable
<1>2. PICK b \in Bytes : b = Le(r.major_ver, U16) /\ Len(b) = U16
  <2>1. r.major_ver \in Nat
    BY DEF Responses, Values
  <2> QED
    BY <2>1, LeType, Sizable
<1>3. PICK size \in Nat : size = U16 * Len(r.pid) /\ size \in Values(U32)
  BY DEF Values
<1>4. PICK c \in Bytes : c = Le(size, U32) /\ Len(c) = U32
  BY LeType, Sizable
<1>5. PICK pid \in Seq(Values(U16)) : pid = r.pid
  BY DEF Responses
<1>6. PICK u \in Bytes : u = Units(pid) /\ Len(u) = size
  BY <1>3, <1>5, UnitsType
<1>7. PICK t \in Bytes : t = Encode(TailFields, r) /\ Len(t) = SizeOf(TailFields)
  BY TailFieldsType, TailFits, EncodedAt
<1>8. Len(a) \in Nat /\ Len(b) \in Nat /\ Len(c) \in Nat /\ Len(u) \in Nat /\ Len(t) \in Nat
  BY DEF Bytes
<1>9. PICK ab \in Bytes : ab = a \o b /\ Len(ab) = 2 * U16
  <2>1. U16 \in Nat /\ U16 + U16 = 2 * U16
    BY Sizable
  <2>2. \E z \in Bytes : z = a \o b /\ Len(z) = U16 + U16 /\ At(z, U16, b)
    BY <1>1, <1>2, <2>1, Glued, Zenon
  <2> QED
    BY <2>1, <2>2, Zenon
<1>10. PICK abc \in Bytes : abc = ab \o c /\ Len(abc) = HeadSize /\ At(abc, 2 * U16, c)
  <2>1. 2 * U16 \in Nat /\ U32 \in Nat
    BY Sizable
  <2> QED
    BY <1>4, <1>9, <2>1, Glued, Zenon DEF HeadSize
<1>11. PICK h \in Nat : h = HeadSize
  BY Sizable DEF HeadSize
<1>12. PICK abcu \in Bytes : abcu = abc \o u /\ Len(abcu) = h + size /\ At(abcu, h, u)
  BY <1>6, <1>10, <1>11, Glued, Zenon
<1>13. PICK wire \in Bytes : wire = abcu \o t /\ Len(wire) = h + size + SizeOf(TailFields)
                             /\ At(wire, h + size, t)
  <2>1. h + size \in Nat /\ SizeOf(TailFields) \in Nat
    BY <1>7, <1>8
  <2> QED
    BY <1>7, <1>12, <2>1, Glued, Zenon
<1>14. PICK k \in Nat : k = 2 * U16
  BY <1>8, <1>9 DEF Bytes
<1>15. At(abc \o u, k, c)
  BY <1>10, <1>14, StillAt
<1>16. At(wire, k, c)
  BY <1>12, <1>13, <1>14, <1>15, StillAt
<1>17. At(wire, h, u)
  BY <1>12, <1>13, StillAt
<1>18. PICK all \in Bytes : all = wire \o rest /\ Len(all) = Len(wire) + Len(rest)
  BY EndAt
<1>19. h + size \in Nat
  OBVIOUS
<1>20. At(all, k, c) /\ At(all, h, u) /\ At(all, h + size, t)
  BY <1>13, <1>16, <1>17, <1>18, <1>19, StillAt
<1>21. ResponseToWire(r) = wire
  BY <1>1, <1>2, <1>3, <1>4, <1>5, <1>6, <1>7, <1>9, <1>10, <1>12, <1>13 DEF ResponseToWire
<1>22. data = all
  BY <1>18, <1>21
<1>23. FromLe(SubSeq(all, k + 1, k + U32)) = size
  <2>1. SubSeq(all, k + 1, k + U32) = c
    BY <1>4, <1>20, SubBytes
  <2> QED
    BY <1>3, <1>4, <2>1, FieldRoundTrip, Sizable
<1>24. UnitsAt(all, h, Len(pid)) = pid
  BY <1>6, <1>20, UnitsRead
<1>25. Decode(TailFields, all, h + size) = [n \in TailNames |-> r[n]]
  BY <1>7, <1>19, <1>20, TailRead
<1>26. k + U32 = h
  BY <1>8, <1>4, <1>11, <1>14 DEF HeadSize
<1>27. Len(all) >= h + size + SizeOf(TailFields)
  BY <1>7, <1>8, <1>13, <1>18 DEF Bytes
<1> QED
  BY <1>3, <1>5, <1>11, <1>14, <1>21, <1>22, <1>23, <1>24, <1>25, <1>26, <1>27

-----------------------------------------------------------------------------
(* The calendar. *)

LEMMA YearAdds ==
  ASSUME NEW y \in Nat, y >= 1970
  PROVE  DaysBefore(y + 1) = DaysBefore(y) + DaysIn(y)
<1>1. /\ (y \div 4) - ((y - 1) \div 4) = IF y % 4 = 0 THEN 1 ELSE 0
      /\ (y \div 100) - ((y - 1) \div 100) = IF y % 100 = 0 THEN 1 ELSE 0
      /\ (y \div 400) - ((y - 1) \div 400) = IF y % 400 = 0 THEN 1 ELSE 0
  OBVIOUS
<1>2. /\ y % 400 = 0 => y % 100 = 0
      /\ y % 100 = 0 => y % 4 = 0
  OBVIOUS
<1>3. DaysIn(y) = 365 + (IF y % 4 = 0 THEN 1 ELSE 0) - (IF y % 100 = 0 THEN 1 ELSE 0)
                      + (IF y % 400 = 0 THEN 1 ELSE 0)
  BY <1>2 DEF DaysIn, IsLeapYear
<1> QED
  BY <1>1, <1>3 DEF DaysBefore

LEMMA YearZero == DaysBefore(1970) = 0
  BY DEF DaysBefore

-----------------------------------------------------------------------------
(* Times. *)

\* The slot that keys the MAC of a V6 answer is computed without overflow for every
\* time up to LastTick.
THEOREM SlotFits ==
  ASSUME NEW ft \in [low : 0..(Half - 1), high : 0..(Half - 1)], AsU64(ft) <= LastTick
  PROVE  TimeSlot(ft) = (AsU64(ft) \div TimeC1) * TimeC2 + TimeC3
<1> DEFINE t == AsU64(ft)
           d == t \div TimeC1
           e == LastTick \div TimeC1
<1>1. t \in Nat /\ LastTick \in Nat /\ t <= LastTick
  BY TimeAssumption DEF AsU64, Word
<1> HIDE DEF t
<1>2. d \in Nat /\ e \in Nat /\ d <= e
  BY <1>1, TimeAssumption
<1> HIDE DEF d, e
<1>3. d * TimeC2 <= e * TimeC2 /\ d * TimeC2 \in Nat /\ e * TimeC2 \in Nat
  BY <1>2, TimeAssumption
<1>4. d * TimeC2 + TimeC3 \in 0..(Word - 1) /\ Word \in Nat
  BY <1>3, TimeAssumption DEF Word, e
<1>5. (d * TimeC2 + TimeC3) % Word = d * TimeC2 + TimeC3
  BY <1>4
<1> QED
  BY <1>5 DEF TimeSlot, d, t

\* The constants of the code: no time below 2^63 ticks, the year 30828, overflows.
THEOREM SlotOfTheCode ==
  ASSUME NEW t \in Nat, t < 9223372036854775808
  PROVE  (t \div 148199999933) * 139799999981 + 3555254745610864506 < 18446744073709551616
  OBVIOUS

LEMMA Halves ==
  ASSUME NEW v \in 0..(Word - 1)
  PROVE  /\ FromU64(v) \in [low : 0..(Half - 1), high : 0..(Half - 1)]
         /\ AsU64(FromU64(v)) = v
<1>0. Half \in Nat /\ Half > 0
  BY TimeAssumption
<1>1. Half \in Nat /\ Half > 0 /\ v \in Nat /\ v < Half * Half
  <2>1. Half * Half \in Nat
    BY <1>0
  <2> QED
    BY <1>0, <2>1 DEF Word
<1>2. v \div Half \in Nat /\ v % Half \in 0..(Half - 1) /\ v = (v \div Half) * Half + (v % Half)
  <2>1. v \in Nat
    BY <1>1
  <2> QED
    BY <1>0, <2>1, Z3
<1> DEFINE d == v \div Half
<1> HIDE DEF d
<1>3. d < Half
  <2>1. d >= Half => d * Half >= Half * Half
    BY <1>1, <1>2 DEF d
  <2> QED
    BY <1>1, <1>2, <2>1 DEF d
<1>4. d % Half = d
  BY <1>1, <1>2, <1>3 DEF d
<1> QED
  BY <1>1, <1>2, <1>3, <1>4 DEF FromU64, AsU64, d

LEMMA UnixTicks ==
  ASSUME NEW secs \in Nat, secs * TicksPerSec + EpochDiff < Word
  PROVE  /\ FromUnixSecs(secs) \in [low : 0..(Half - 1), high : 0..(Half - 1)]
         /\ AsU64(FromUnixSecs(secs)) = secs * TicksPerSec + EpochDiff
<1> DEFINE ticks == secs * TicksPerSec
<1>1. /\ TicksPerSec \in Nat /\ TicksPerSec > 0 /\ EpochDiff \in Nat /\ Word \in Nat
      /\ ticks \in Nat
  BY TimeAssumption DEF Word
<1>2. secs <= ticks
  BY <1>1
<1>3. secs % Word = secs
  BY <1>1, <1>2
<1> HIDE DEF ticks
<1>4. ticks + EpochDiff \in 0..(Word - 1) /\ (ticks + EpochDiff) % Word = ticks + EpochDiff
  BY <1>1 DEF ticks
<1> QED
  BY <1>3, <1>4, Halves DEF FromUnixSecs, ticks

\* A time of the clock comes out of a FileTime as the second it went in with.
THEOREM UnixRoundTrip ==
  ASSUME NEW secs \in Nat, secs * TicksPerSec + EpochDiff < Word
  PROVE  ToUnixSecs(FromUnixSecs(secs)) = secs
<1> DEFINE ticks == secs * TicksPerSec
<1>1. /\ TicksPerSec \in Nat /\ TicksPerSec > 0 /\ EpochDiff \in Nat /\ Word \in Nat
      /\ ticks \in Nat
  BY TimeAssumption DEF Word
<1>2. ticks \div TicksPerSec = secs
  BY <1>1, Z3
<1>3. AsU64(FromUnixSecs(secs)) = ticks + EpochDiff
  BY UnixTicks
<1> HIDE DEF ticks
<1>4. ticks % Word = ticks
  BY <1>1 DEF ticks
<1>5. AsU64(FromUnixSecs(secs)) - EpochDiff = ticks
  BY <1>1, <1>3
<1>6. ToUnixSecs(FromUnixSecs(secs)) = (ticks % Word) \div TicksPerSec
  BY <1>5, Zenon DEF ToUnixSecs
<1> QED
  BY <1>2, <1>4, <1>6, Zenon

-----------------------------------------------------------------------------
(* The database. *)

LEMMA Widths ==
  /\ Values(U32) = 0..(Half - 1) /\ Half \in Nat \ {0}
  /\ {0, 4, 5, 6} \subseteq Values(U16)
  /\ 0 \in Values(U32) /\ ZeroGuid \in Values(GuidSize)
<1>1. Power[U32] = Half /\ 6 < Power[U16] /\ Half \in Nat
  BY WidthAssumption, TimeAssumption
<1>2. Power[U16] \in Nat \ {0} /\ Power[U32] \in Nat \ {0} /\ Power[GuidSize] \in Nat \ {0}
  BY Powers, Sizable
<1> QED
  BY <1>1, <1>2 DEF Values, ZeroGuid

LEMMA Rows ==
  ASSUME NEW f \in Files
  PROVE  /\ Len(f.db.csvlk) \in Nat /\ DOMAIN f.db.csvlk = 1..Len(f.db.csvlk)
         /\ Len(f.db.builds) \in Nat /\ DOMAIN f.db.builds = 1..Len(f.db.builds)
         /\ \A i \in DOMAIN f.db.csvlk :
              /\ f.db.csvlk[i].release \in Times
              /\ f.db.csvlk[i].min_key \in U32Values /\ f.db.csvlk[i].max_key \in U32Values
         /\ \A i \in DOMAIN f.db.builds :
              /\ f.db.builds[i].number \in Nat /\ f.db.builds[i].release \in Times
<1> DEFINE C == [epid : Seq(Nat), release : Times, group : Nat,
                 min_key : U32Values, max_key : U32Values, min_active : Nat]
           H == [number : Nat, platform : Nat, release : Times]
<1>1. f.db.csvlk \in Seq(C) /\ f.db.builds \in Seq(H)
  BY DatabaseAssumption
<1>2. \A c \in C : c.release \in Times /\ c.min_key \in U32Values /\ c.max_key \in U32Values
  OBVIOUS
<1>3. \A h \in H : h.number \in Nat /\ h.release \in Times
  OBVIOUS
<1> HIDE DEF C, H
<1>4. /\ Len(f.db.csvlk) \in Nat /\ DOMAIN f.db.csvlk = 1..Len(f.db.csvlk)
      /\ \A i \in 1..Len(f.db.csvlk) : f.db.csvlk[i] \in C
  BY <1>1
<1>5. /\ Len(f.db.builds) \in Nat /\ DOMAIN f.db.builds = 1..Len(f.db.builds)
      /\ \A i \in 1..Len(f.db.builds) : f.db.builds[i] \in H
  BY <1>1
<1> QED
  BY <1>2, <1>3, <1>4, <1>5

\* In a table that has the newest build first, both lookups of a build that is in it
\* find its own row.
LEMMA OwnRow ==
  ASSUME NEW f \in Files, db = f.db, NEW b \in DOMAIN f.db.builds
  PROVE  /\ GetPlatformId(db, db.builds[b].number) = db.builds[b].platform
         /\ GetReleaseDate(db, db.builds[b].number) = db.builds[b].release
<1> DEFINE rows  == f.db.builds
           older == {i \in DOMAIN rows : rows[i].number <= rows[b].number}
           newer == {i \in DOMAIN rows : rows[i].number >= rows[b].number}
<1>1. DOMAIN rows \subseteq Nat /\ \A i \in DOMAIN rows : rows[i].number \in Nat
  BY Rows
<1>2. \A i, j \in DOMAIN rows : i < j => rows[i].number > rows[j].number
  BY NewestFirst
<1> HIDE DEF rows
<1>3. b \in DOMAIN rows
  BY DEF rows
<1>4. b \in older /\ \A i \in older : b <= i
  BY <1>1, <1>2, <1>3
<1>5. b \in newer /\ \A i \in newer : i <= b
  BY <1>1, <1>2, <1>3
<1>6. older \subseteq Nat /\ newer \subseteq Nat
  BY <1>1
<1> HIDE DEF older, newer
<1>7. FirstOf(older) = b
  <2>1. \A i \in older : (\A j \in older : i <= j) => i = b
    BY <1>4, <1>6
  <2> QED
    BY <1>4, <2>1 DEF FirstOf
<1>8. LastOf(newer) = b
  <2>1. \A i \in newer : (\A j \in newer : j <= i) => i = b
    BY <1>5, <1>6
  <2> QED
    BY <1>5, <2>1 DEF LastOf
<1>9. rows # <<>>
  BY <1>3
<1>10. older # {} /\ newer # {}
  BY <1>4, <1>5
<1>11. db.builds = rows
  BY DEF rows
<1>12. GetPlatformId(db, rows[b].number) = rows[b].platform
  BY <1>7, <1>9, <1>10, <1>11 DEF GetPlatformId, older
<1>13. GetReleaseDate(db, rows[b].number) = rows[b].release
  BY <1>8, <1>9, <1>10, <1>11 DEF GetReleaseDate, newer
<1> QED
  BY <1>11, <1>12, <1>13

LEMMA RemainderIn ==
  ASSUME NEW r \in Nat, NEW n \in Nat, n > 0
  PROVE  (r % n) \in 0..(n - 1)
  OBVIOUS

LEMMA SmallRemainder ==
  ASSUME NEW n \in Nat \ {0}, NEW x \in 0..(n - 1)
  PROVE  /\ x % n = x /\ (x + n) % n = x /\ (x - n) % n = x
<1>1. (0 * n + x) % n = x /\ (1 * n + x) % n = x
  BY Remainder
<1>2. x % n = x /\ (x + n) % n = x
  BY <1>1
<1>3. (x - n) % n = x
  BY Z3
<1> QED
  BY <1>2, <1>3

\* A time no earlier than either release, and before the clock if the clock leaves room.
TimeOf(t, row, csvlk, now) ==
  /\ t \in Int /\ t >= row.release /\ t >= csvlk.release
  /\ \/ t < MaxTime(now)
     \/ MaxTime(now) <= Later(row.release, csvlk.release)

LEMMA TimeDrawn ==
  ASSUME file \in Files, db = file.db, NEW b \in DOMAIN db.builds,
         NEW c \in DOMAIN db.csvlk, NEW now \in Times, NEW r \in Nat
  PROVE  TimeOf(KmsTime(db.csvlk[c], db.builds[b].number, now, r),
                db.builds[b], db.csvlk[c], now)
<1> DEFINE t == KmsTime(db.csvlk[c], db.builds[b].number, now, r)
<1> SUFFICES
      /\ t \in Int /\ t >= db.builds[b].release /\ t >= db.csvlk[c].release
      /\ \/ t < MaxTime(now)
         \/ MaxTime(now) <= Later(db.builds[b].release, db.csvlk[c].release)
  BY DEF TimeOf
<1> DEFINE br == db.builds[b].release
           cr == db.csvlk[c].release
           lo == Later(cr, br)
           hi == MaxTime(now)
           n  == IF hi - lo < Int64 THEN hi - lo ELSE 2 * Int64 - (hi - lo)
<1>1. br \in Times /\ cr \in Times
  BY Rows
<1>2. GetReleaseDate(db, db.builds[b].number) = br
  BY OwnRow
<1>3. t = lo + IF hi > lo THEN r % n ELSE 0
  BY <1>2 DEF KmsTime, FirstPossibleTime, HasWindow, WindowSize
<1> HIDE DEF br, cr, t
<1>4. /\ lo \in Times /\ lo >= br /\ lo >= cr /\ hi \in Times /\ Later(br, cr) = lo
      /\ Int64 \in Nat \ {0}
  <2>1. Int64 \in Nat \ {0} /\ MinNow \in Times
    BY DatabaseAssumption
  <2>2. hi \in Times
    BY <2>1 DEF Later, MaxTime
  <2>3. lo \in Times /\ lo >= br /\ lo >= cr /\ Later(br, cr) = lo
    BY <1>1, <2>1 DEF Later, Times
  <2> QED
    BY <2>1, <2>2, <2>3
<1> HIDE DEF lo, hi
<1>5. CASE hi > lo
  <2>1. n \in Nat /\ n > 0 /\ n <= hi - lo
    BY <1>4, <1>5 DEF Times
  <2> HIDE DEF n
  <2>2. (r % n) \in 0..(n - 1)
    BY <2>1, RemainderIn
  <2> DEFINE m == r % n
  <2>3. t = lo + m
    BY <1>3, <1>5
  <2>4. m \in 0..(n - 1)
    BY <2>2
  <2> HIDE DEF m
  <2>5. t \in Int /\ t >= lo /\ t < hi
    BY <1>4, <1>5, <2>1, <2>3, <2>4 DEF Times
  <2> QED
    BY <1>1, <1>4, <2>5 DEF hi, br, cr, Times
<1>6. CASE ~(hi > lo)
  <2>1. t = lo /\ hi <= lo
    BY <1>3, <1>4, <1>6 DEF Times
  <2> QED
    BY <1>1, <1>4, <2>1 DEF hi, br, cr, Times
<1> QED
  BY <1>5, <1>6

\* The key is of the range, which may go round, or the range is empty.
LEMMA KeyDrawn ==
  ASSUME NEW csvlk, csvlk.min_key \in U32Values, csvlk.max_key \in U32Values, NEW k \in Nat
  PROVE  /\ KeyRange(csvlk) = 0 => csvlk.min_key = csvlk.max_key
         /\ KeyRange(csvlk) # 0 =>
              KeyInRange(((k % KeyRange(csvlk)) + csvlk.min_key) % (2 * Int32), csvlk)
<1> DEFINE N  == 2 * Int32
           lo == csvlk.min_key
           hi == csvlk.max_key
           range == KeyRange(csvlk)
           m  == k % range
           v  == m + lo
<1>1. N \in Nat \ {0} /\ U32Values = 0..(N - 1)
  BY DatabaseAssumption DEF U32Values
<1>2. lo \in 0..(N - 1) /\ hi \in 0..(N - 1)
  BY <1>1
<1>3. range = (hi - lo) % N
  BY DEF KeyRange
<1> SUFFICES /\ range = 0 => lo = hi
             /\ range # 0 => KeyInRange(v % N, csvlk)
  OBVIOUS
<1>4. KeyInRange(v % N, csvlk) = IF lo < hi THEN v % N \in lo..(hi - 1)
                                 ELSE v % N \in (0..(N - 1)) \ (hi..(lo - 1))
  BY <1>1 DEF KeyInRange
<1> HIDE DEF N, lo, hi, range
<1>5. CASE lo <= hi
  <2>1. range = hi - lo
    <3>1. hi - lo \in 0..(N - 1)
      BY <1>1, <1>2, <1>5
    <3> QED
      BY <1>1, <1>3, <3>1, SmallRemainder
  <2>2. CASE range # 0
    <3>1. m \in 0..(range - 1)
      BY <1>2, <1>5, <2>1, <2>2, RemainderIn
    <3> HIDE DEF m
    <3>2. v \in lo..(hi - 1) /\ v \in 0..(N - 1)
      BY <1>1, <1>2, <1>5, <2>1, <3>1
    <3>3. v % N = v
      BY <1>1, <3>2, SmallRemainder
    <3>4. lo < hi
      BY <1>2, <1>5, <2>1, <2>2
    <3> QED
      BY <1>4, <2>2, <3>2, <3>3, <3>4
  <2> QED
    BY <1>2, <2>1, <2>2
<1>6. CASE hi < lo
  <2>1. range = hi - lo + N /\ range \in Nat /\ range > 0
    <3>1. hi - lo + N \in 0..(N - 1)
      BY <1>1, <1>2, <1>6
    <3>2. ((hi - lo + N) - N) % N = hi - lo + N
      BY <1>1, <3>1, SmallRemainder
    <3>3. (hi - lo + N) - N = hi - lo
      BY <1>1, <1>2
    <3> QED
      BY <1>1, <1>2, <1>3, <1>6, <3>2, <3>3
  <2>2. m \in 0..(range - 1)
    BY <2>1, RemainderIn
  <2>6. v % N \in (0..(N - 1)) \ (hi..(lo - 1)) => KeyInRange(v % N, csvlk)
    <3>1. ~(lo < hi)
      BY <1>2, <1>6
    <3> HIDE DEF v
    <3> QED
      BY <1>4, <3>1
  <2>7. range # 0
    BY <2>1
  <2> HIDE DEF m
  <2>3. v \in lo..(hi + N - 1)
    BY <1>1, <1>2, <2>1, <2>2
  <2> HIDE DEF v
  <2>4. CASE v < N
    <3>1. v \in 0..(N - 1) /\ v \notin hi..(lo - 1)
      BY <1>1, <1>2, <2>3, <2>4
    <3>2. v % N = v
      BY <1>1, <3>1, SmallRemainder
    <3>3. v % N \in (0..(N - 1)) \ (hi..(lo - 1))
      BY <3>1, <3>2
    <3> QED
      BY <2>6, <2>7, <3>3
  <2>5. CASE v >= N
    <3>1. /\ v - N \in 0..(N - 1) /\ v - N \notin hi..(lo - 1) /\ (v - N) + N = v
      BY <1>1, <1>2, <2>3, <2>5
    <3>2. v % N = v - N
      BY <1>1, <3>1, SmallRemainder
    <3>3. v % N \in (0..(N - 1)) \ (hi..(lo - 1))
      BY <3>1, <3>2
    <3> QED
      BY <2>6, <2>7, <3>3
  <2> QED
    BY <1>1, <1>2, <2>3, <2>4, <2>5
<1> QED
  BY <1>2, <1>5, <1>6

\* The days of a time from 1970 on are kept as long as they are an i32.
LEMMA DaysDrawn ==
  ASSUME NEW t \in Int
  PROVE  /\ DaysSinceEpoch(t) \in Int
         /\ (t >= 0 /\ t \div SecsPerDay < Int32) =>
              /\ DaysSinceEpoch(t) = t \div SecsPerDay
              /\ DaysSinceEpoch(t) \in 0..(Int32 - 1)
<1> DEFINE days == IF t >= 0 THEN t \div SecsPerDay ELSE -((-t) \div SecsPerDay)
           N    == 2 * Int32
<1>1. Int32 \in Nat \ {0} /\ SecsPerDay \in Nat \ {0} /\ N \in Nat \ {0}
  BY DatabaseAssumption
<1>2. DaysSinceEpoch(t) = ((days + Int32) % N) - Int32
  BY DEF DaysSinceEpoch
<1>3. \A v \in Nat : v \div SecsPerDay \in Nat
  BY <1>1, Division
<1>4. days \in Int
  BY <1>3
<1>5. DaysSinceEpoch(t) \in Int
  <2> HIDE DEF days, N
  <2>1. (days + Int32) % N \in Int
    BY <1>1, <1>4
  <2> QED
    BY <1>1, <1>2, <2>1
<1>6. ASSUME t >= 0, t \div SecsPerDay < Int32
      PROVE  DaysSinceEpoch(t) = t \div SecsPerDay /\ DaysSinceEpoch(t) \in 0..(Int32 - 1)
  <2>1. days = t \div SecsPerDay /\ days \in 0..(Int32 - 1)
    BY <1>1, <1>3, <1>6
  <2>2. days + Int32 \in 0..(N - 1)
    BY <1>1, <2>1
  <2>3. (days + Int32) % N = days + Int32
    <3> HIDE DEF days, N
    <3> QED
      BY <1>1, <2>2, SmallRemainder
  <2> QED
    BY <1>1, <1>2, <2>1, <2>3
<1> QED
  BY <1>5, <1>6

LEMMA Product ==
  ASSUME NEW f \in Files, NEW i \in 1..Len(f.db.skus)
  PROVE  /\ f.db.skus[i].guid \in Values(GuidSize)
         /\ f.db.skus[i].app_index \in Nat
         /\ f.db.skus[i].kms_index \in Nat /\ f.db.skus[i].kms_index < Len(f.db.kms)
         /\ f.db.skus[i].protocol_version \in Values(U16)
         /\ f.db.skus[i].n_count_policy \in Values(U32)
         /\ 2 * f.db.skus[i].n_count_policy < Half
<1> DEFINE P == {n \in Values(U32) : 2 * n < Half}
           R == [guid : Values(GuidSize), app_index : Nat, kms_index : Nat,
                 protocol_version : Values(U16), n_count_policy : P]
<1>1. f.db.skus \in Seq(R)
  BY RowAssumption
<1>2. f.db.skus[i] \in R
  <2> HIDE DEF R
  <2> QED
    BY <1>1
<1>3. f.db.skus[i].kms_index < Len(f.db.kms)
  <2>1. DOMAIN f.db.skus = 1..Len(f.db.skus)
    <3> HIDE DEF R
    <3> QED
      BY <1>1
  <2> QED
    BY <2>1, ReferenceAssumption
<1>4. f.db.skus[i].n_count_policy \in P
  BY <1>2
<1> QED
  BY <1>2, <1>3, <1>4

LEMMA Item ==
  ASSUME NEW f \in Files, NEW k \in 1..Len(f.db.kms)
  PROVE  /\ f.db.kms[k].guid \in Values(GuidSize)
         /\ f.db.kms[k].epid_index \in Nat
         /\ f.db.kms[k].epid_index < Len(f.db.csvlk)
         /\ f.db.csvlk[f.db.kms[k].epid_index + 1].min_active \in Values(U32)
         /\ f.db.csvlk[f.db.kms[k].epid_index + 1].epid \in Seq(Values(U16) \ {0})
         /\ Find(f.db.kms, f.db.kms[k].guid) = {f.db.kms[k]}
<1> DEFINE R == [guid : Values(GuidSize), epid_index : Nat]
           items == f.db.kms
           hits == {i \in DOMAIN items : items[i].guid = items[k].guid}
<1>1. items \in Seq(R)
  BY RowAssumption
<1>2. items[k] \in R /\ DOMAIN items = 1..Len(items)
  <2> HIDE DEF R
  <2> QED
    BY <1>1
<1>3. items[k].epid_index \in Nat /\ items[k].epid_index < Len(f.db.csvlk)
  BY <1>2, ReferenceAssumption
<1>4. items[k].epid_index + 1 \in DOMAIN f.db.csvlk
  BY <1>3, Rows
<1>5. hits = {k}
  BY <1>2, ReferenceAssumption
<1>6. LastOf({k}) = k
  BY DEF LastOf
<1>7. Find(items, items[k].guid) = {items[k]}
  BY <1>5, <1>6 DEF Find
<1> QED
  BY <1>2, <1>3, <1>4, <1>7, RowAssumption

LEMMA Guids ==
  ASSUME NEW f \in Files, NEW index \in Nat
  PROVE  /\ GuidAt(f.db.apps, index) \in Values(GuidSize)
         /\ GuidAt(f.db.kms, index) \in Values(GuidSize)
<1>1. GuidAt(f.db.kms, index) \in Values(GuidSize)
  <2>1. Len(f.db.kms) \in Nat
    BY RowAssumption
  <2>2. index < Len(f.db.kms) => index + 1 \in 1..Len(f.db.kms)
    BY <2>1
  <2> QED
    BY <2>2, Item, Widths DEF GuidAt
<1>2. GuidAt(f.db.apps, index) \in Values(GuidSize)
  <2> DEFINE R == [guid : Values(GuidSize)]
  <2>1. f.db.apps \in Seq(R)
    BY RowAssumption
  <2>2. index < Len(f.db.apps) => f.db.apps[index + 1] \in R
    <3> HIDE DEF R
    <3> QED
      BY <2>1
  <2> QED
    BY <2>2, Widths DEF GuidAt
<1> QED
  BY <1>1, <1>2

-----------------------------------------------------------------------------
(* What parse makes of a file. *)

LEMMA RowIs ==
  ASSUME NEW f, f.size \in Nat, 2 * f.size < Usize, NEW off \in 0..(Usize - 1)
  PROVE  /\ RowResult(f, off) \in {"none", "panic", "some"}
         /\ RowResult(f, off) = "some" <=> off + RowSize <= f.size
         /\ RowResult(f, off) = "panic" => off + RowSize >= Usize
<1> DEFINE end == AsUsize(off + RowSize)
<1>1. Usize \in Nat /\ Usize > 256 /\ RowSize = 32
  BY UsizeAssumption DEF RowSize
<1>2. off + RowSize < Usize => end = off + RowSize
  BY <1>1, SmallRemainder DEF AsUsize
<1>3. end \in Nat
  BY <1>1 DEF AsUsize
<1>4. RowResult(f, off) = CASE end > f.size -> "none"
                            [] end <= f.size /\ off + RowSize > f.size -> "panic"
                            [] end <= f.size /\ off + RowSize <= f.size -> "some"
  BY DEF RowResult
<1> HIDE DEF end
<1> QED
  BY <1>1, <1>2, <1>3, <1>4

\* Where the loop over the rows of a table stops.
FirstCut(f, o) == IF o + RowSize > f.size THEN 0 ELSE (f.size - o) \div RowSize

LEMMA CutAt ==
  ASSUME NEW f, f.size \in Nat, 2 * f.size < Usize, NEW o \in 0..(Usize - 1)
  PROVE  LET m == FirstCut(f, o)
         IN  /\ m \in Nat /\ o + m * RowSize < Usize /\ o + m * RowSize + RowSize > f.size
             /\ m > 0 => o + m * RowSize <= f.size
             /\ \A i \in Nat : i < m => o + i * RowSize + RowSize <= f.size
<1> DEFINE m == FirstCut(f, o)
<1>1. Usize \in Nat /\ Usize > 256 /\ RowSize = 32
  BY UsizeAssumption DEF RowSize
<1>2. CASE o + RowSize > f.size
  <2>1. m = 0
    BY <1>2 DEF FirstCut
  <2> QED
    BY <1>1, <1>2, <2>1
<1>3. CASE ~(o + RowSize > f.size)
  <2>1. m = (f.size - o) \div 32 /\ f.size - o \in Nat /\ f.size - o >= 32
    BY <1>1, <1>3 DEF FirstCut
  <2>2. m \in Nat /\ m * 32 <= f.size - o /\ f.size - o < m * 32 + 32
    <3> DEFINE d == f.size - o
    <3>1. d \in Nat /\ m = d \div 32
      BY <2>1
    <3> HIDE DEF d
    <3>2. m \in Nat /\ d = m * 32 + (d % 32) /\ d % 32 \in 0..31
      <4> HIDE DEF m
      <4> QED
        BY <3>1, Division
    <3> HIDE DEF m
    <3>3. m * 32 <= d /\ d < m * 32 + 32
      BY <3>1, <3>2
    <3> QED
      BY <3>2, <3>3 DEF d
  <2> HIDE DEF m
  <2>3. o + m * 32 <= f.size /\ o + m * 32 + 32 > f.size
    BY <2>2
  <2>4. \A i \in Nat : i < m => o + i * 32 + 32 <= f.size
    BY <2>2, <2>3
  <2>5. o + m * 32 < Usize
    BY <1>1, <2>2, <2>3
  <2> QED
    BY <1>1, <2>2, <2>3, <2>4, <2>5 DEF m
<1> QED
  BY <1>2, <1>3

LEMMA RowsAre ==
  ASSUME NEW f, f.size \in Nat, 2 * f.size < Usize, NEW o \in 0..(Usize - 1), NEW count \in Nat
  PROVE  LET result == RowsResult(f, o, count)
         IN  /\ result \in {"none", "panic", "some"}
             /\ result = "some" => Fits(f, o, count)
             /\ result = "none" => ~Fits(f, o, count)
             /\ result = "panic" => o + RowSize >= Usize
<1> DEFINE m   == FirstCut(f, o)
           row == [i \in 0..(count - 1) |-> RowResult(f, AsUsize(o + i * RowSize))]
           bad == {i \in 0..(count - 1) : row[i] # "some"}
<1>1. Usize \in Nat /\ Usize > 256 /\ RowSize = 32
  BY UsizeAssumption DEF RowSize
<1>2. /\ m \in Nat /\ o + m * 32 < Usize /\ o + m * 32 + 32 > f.size
      /\ m > 0 => o + m * 32 <= f.size
      /\ \A i \in Nat : i < m => o + i * 32 + 32 <= f.size
  BY <1>1, CutAt
<1> HIDE DEF m
<1>3. \A i \in 0..(count - 1) : i <= m => row[i] = RowResult(f, o + i * 32)
  <2> SUFFICES ASSUME NEW i \in 0..(count - 1), i <= m
               PROVE  row[i] = RowResult(f, o + i * 32)
    OBVIOUS
  <2>1. o + i * 32 \in 0..(Usize - 1)
    BY <1>1, <1>2
  <2>2. AsUsize(o + i * 32) = o + i * 32
    BY <1>1, <2>1, SmallRemainder DEF AsUsize
  <2> QED
    BY <1>1, <2>2
<1>4. \A i \in 0..(count - 1) : i < m => row[i] = "some"
  <2> SUFFICES ASSUME NEW i \in 0..(count - 1), i < m
               PROVE  row[i] = "some"
    OBVIOUS
  <2>1. o + i * 32 \in 0..(Usize - 1) /\ o + i * 32 + 32 <= f.size
    BY <1>1, <1>2
  <2>2. RowResult(f, o + i * 32) = "some"
    BY <1>1, <2>1, RowIs
  <2> QED
    BY <1>2, <1>3, <2>2
<1>5. RowsResult(f, o, count) = IF bad = {} THEN "some" ELSE row[FirstOf(bad)]
  BY DEF RowsResult
<1>6. CASE count <= m
  <2>1. bad = {}
    BY <1>2, <1>4, <1>6
  <2>2. Fits(f, o, count)
    BY <1>1, <1>2, <1>6 DEF Fits
  <2> QED
    BY <1>5, <2>1, <2>2
<1>7. CASE count > m
  <2>1. m \in 0..(count - 1) /\ o + m * 32 \in 0..(Usize - 1)
    BY <1>1, <1>2, <1>7
  <2>2. /\ row[m] = RowResult(f, o + m * 32) /\ row[m] \in {"none", "panic"}
        /\ row[m] = "panic" => o + m * 32 + 32 >= Usize
    BY <1>1, <1>2, <1>3, <2>1, RowIs
  <2>3. m \in bad /\ \A j \in bad : m <= j
    BY <1>2, <1>4, <2>1, <2>2
  <2>4. FirstOf(bad) = m
    <3>1. bad \subseteq Nat
      OBVIOUS
    <3> HIDE DEF bad
    <3>2. \A i \in bad : (\A j \in bad : i <= j) => i = m
      BY <2>3, <3>1
    <3> QED
      BY <2>3, <3>2 DEF FirstOf
  <2>5. RowsResult(f, o, count) = row[m]
    BY <1>5, <2>3, <2>4
  <2>6. row[m] = "panic" => o + 32 >= Usize
    BY <1>1, <1>2, <2>2
  <2>7. ~Fits(f, o, count)
    BY <1>1, <1>2, <1>7 DEF Fits
  <2> QED
    BY <1>1, <2>2, <2>5, <2>6, <2>7
<1> QED
  BY <1>2, <1>6, <1>7

\* A count is as large as it says, or no vector can have it.
LEMMA CountIs ==
  ASSUME NEW count \in (-Int32)..(Int32 - 1)
  PROVE  /\ AsUsize(count) \in Nat
         /\ CapacityOverflows(AsUsize(count)) \/ AsUsize(count) = count
<1>1. Usize \in Nat /\ Usize > 256 /\ RowSize = 32 /\ Int32 \in Nat /\ 2 * Int32 <= Usize
  BY UsizeAssumption, DatabaseAssumption DEF RowSize
<1>2. CASE count >= 0
  <2>1. count \in 0..(Usize - 1)
    BY <1>1, <1>2
  <2> QED
    BY <1>1, <2>1, SmallRemainder DEF AsUsize
<1>3. CASE count < 0
  <2>1. count + Usize \in 0..(Usize - 1) /\ (count + Usize) - Usize = count
    BY <1>1, <1>3
  <2>2. AsUsize(count) = count + Usize
    BY <1>1, <2>1, SmallRemainder DEF AsUsize
  <2>3. 2 * (count + Usize) * 32 >= Usize
    BY <1>1, <1>3
  <2> QED
    BY <1>1, <2>1, <2>2, <2>3 DEF CapacityOverflows
<1> QED
  BY <1>2, <1>3

\* What may come of one of the four tables.
TableFact(f, table, result) ==
  LET o == AsUsize(table.offset)
  IN  /\ result \in {"none", "panic", "abort", "some"}
      /\ result = "some" => Fits(f, o, table.count)
      /\ result = "none" => ~Fits(f, o, table.count)
      /\ result = "panic" => \/ CapacityOverflows(AsUsize(table.count))
                             \/ o + RowSize >= Usize
      /\ result = "abort" => table.count > SafeRows

LEMMA TableIs ==
  ASSUME NEW f, f.size \in Nat, 2 * f.size < Usize, NEW table,
         table.offset \in Nat, table.count \in (-Int32)..(Int32 - 1),
         NEW result \in TableResults(f, table)
  PROVE  TableFact(f, table, result)
<1> DEFINE rows == AsUsize(table.count)
           o    == AsUsize(table.offset)
<1>1. rows \in Nat /\ (CapacityOverflows(rows) \/ rows = table.count)
  BY CountIs
<1>2. o \in 0..(Usize - 1)
  <2>1. Usize \in Nat \ {0}
    BY UsizeAssumption
  <2> QED
    BY <2>1, Division DEF AsUsize
<1>3. TableResults(f, table) = IF CapacityOverflows(rows) THEN {"panic"}
                               ELSE {RowsResult(f, o, rows)} \cup {r \in {"abort"} : rows > SafeRows}
  BY DEF TableResults
<1>4. CASE CapacityOverflows(rows)
  BY <1>3, <1>4 DEF TableFact
<1>5. CASE ~CapacityOverflows(rows)
  <2>1. rows = table.count
    BY <1>1, <1>5
  <2>2. \/ result = "abort" /\ rows > SafeRows
        \/ result = RowsResult(f, o, rows)
    BY <1>3, <1>5
  <2>3. /\ RowsResult(f, o, rows) \in {"none", "panic", "some"}
        /\ RowsResult(f, o, rows) = "some" => Fits(f, o, rows)
        /\ RowsResult(f, o, rows) = "none" => ~Fits(f, o, rows)
        /\ RowsResult(f, o, rows) = "panic" => o + RowSize >= Usize
    BY <1>1, <1>2, RowsAre
  <2> HIDE DEF rows, o
  <2>4. /\ result \in {"none", "panic", "abort", "some"}
        /\ result = "some" => Fits(f, o, table.count)
        /\ result = "none" => ~Fits(f, o, table.count)
        /\ result = "panic" => o + RowSize >= Usize
        /\ result = "abort" => table.count > SafeRows
    BY <2>1, <2>2, <2>3
  <2> QED
    BY <2>4 DEF TableFact, o
<1> QED
  BY <1>4, <1>5

\* What CutFileRefused says of a result.
Refused(f, result) ==
  LET complete == /\ Fits(f, CsvlkStart, f.csvlk_count)
                  /\ \A i \in 1..4 : Fits(f, AsUsize(f.tables[i].offset), f.tables[i].count)
  IN  /\ result = "some" => complete
      /\ result = "none" => f.size < 16 \/ ~f.magic \/ ~complete
      /\ result = "panic" => \/ f.size < HeaderRead
                             \/ \E i \in 1..4 :
                                  \/ CapacityOverflows(AsUsize(f.tables[i].count))
                                  \/ AsUsize(f.tables[i].offset) + RowSize >= Usize
      /\ result = "abort" => \E i \in 1..4 : f.tables[i].count > SafeRows

LEMMA ParseIs ==
  ASSUME NEW f \in Files, NEW result \in ParseResults(f)
  PROVE  /\ result \in {"none", "panic", "abort", "some"}
         /\ Refused(f, result)
<1> DEFINE first   == RowsResult(f, CsvlkStart, f.csvlk_count)
           table   == [i \in 0..4 |-> IF i = 0 THEN {RowsResult(f, CsvlkStart, f.csvlk_count)}
                                      ELSE TableResults(f, f.tables[i])]
           reached == {i \in 0..4 : \A j \in 0..(i - 1) : "some" \in table[j]}
<1>1. /\ f.size \in Nat /\ 2 * f.size < Usize /\ f.csvlk_count \in Nat
      /\ \A i \in 1..4 : f.tables[i].offset \in Nat /\ f.tables[i].count \in (-Int32)..(Int32 - 1)
  BY DatabaseAssumption
<1>2. \A i \in 1..4 : \A r \in TableResults(f, f.tables[i]) : TableFact(f, f.tables[i], r)
  BY <1>1, TableIs
<1>3. /\ first \in {"none", "some"}
      /\ first = "some" => Fits(f, CsvlkStart, f.csvlk_count)
      /\ first = "none" => ~Fits(f, CsvlkStart, f.csvlk_count)
  <2>1. CsvlkStart \in 0..(Usize - 1) /\ ~(CsvlkStart + RowSize >= Usize)
    BY UsizeAssumption DEF CsvlkStart, RowSize
  <2> QED
    BY <1>1, <2>1, RowsAre
<1>4. table[0] = {first} /\ \A i \in 1..4 : table[i] = TableResults(f, f.tables[i])
  <2>1. table[0] = {first}
    OBVIOUS
  <2>2. ASSUME NEW i \in 1..4
        PROVE  table[i] = TableResults(f, f.tables[i])
    <3>1. i \in 0..4 /\ i # 0
      OBVIOUS
    <3> QED
      BY <3>1
  <2> QED
    BY <2>1, <2>2
<1>5. ParseResults(f) = IF f.size < 16 \/ ~f.magic THEN {"none"}
                        ELSE IF f.size < HeaderRead THEN {"panic"}
                        ELSE (UNION {table[i] \ {"some"} : i \in reached})
                               \cup {r \in {"some"} : \A i \in 0..4 : "some" \in table[i]}
  BY DEF ParseResults
<1> HIDE DEF first, table
<1>6. CASE f.size < 16 \/ ~f.magic
  BY <1>5, <1>6 DEF Refused
<1>7. CASE ~(f.size < 16 \/ ~f.magic) /\ f.size < HeaderRead
  BY <1>5, <1>7 DEF Refused
<1>8. CASE ~(f.size < 16 \/ ~f.magic) /\ ~(f.size < HeaderRead)
  <2>1. \/ result = "some" /\ \A i \in 0..4 : "some" \in table[i]
        \/ \E i \in 0..4 : result \in table[i] \ {"some"}
    <3>1. reached \subseteq 0..4
      OBVIOUS
    <3> HIDE DEF reached
    <3>2. result \in (UNION {table[i] \ {"some"} : i \in reached})
                     \cup {r \in {"some"} : \A i \in 0..4 : "some" \in table[i]}
      BY <1>5, <1>8
    <3>3. \/ \E i \in reached : result \in table[i] \ {"some"}
          \/ result = "some" /\ \A i \in 0..4 : "some" \in table[i]
      <4> DEFINE T == {table[i] \ {"some"} : i \in reached}
                 U == {r \in {"some"} : \A i \in 0..4 : "some" \in table[i]}
      <4>1. \A x \in T : \E i \in reached : x = table[i] \ {"some"}
        OBVIOUS
      <4>2. \A r \in U : r = "some" /\ \A i \in 0..4 : "some" \in table[i]
        OBVIOUS
      <4>3. result \in UNION T \/ result \in U
        BY <3>2
      <4> HIDE DEF T, U
      <4>4. result \in UNION T => \E x \in T : result \in x
        OBVIOUS
      <4> QED
        BY <4>1, <4>2, <4>3, <4>4
    <3> QED
      BY <3>1, <3>3, Zenon
  <2>2. CASE result = "some" /\ \A i \in 0..4 : "some" \in table[i]
    <3>1. Fits(f, CsvlkStart, f.csvlk_count)
      BY <1>3, <1>4, <2>2
    <3>2. ASSUME NEW i \in 1..4
          PROVE  Fits(f, AsUsize(f.tables[i].offset), f.tables[i].count)
      <4>1. "some" \in TableResults(f, f.tables[i])
        BY <1>4, <2>2
      <4> QED
        BY <1>2, <4>1 DEF TableFact
    <3> QED
      BY <2>2, <3>1, <3>2 DEF Refused
  <2>3. ASSUME NEW i \in 0..4, result \in table[i] \ {"some"}
        PROVE  result \in {"none", "panic", "abort"} /\ Refused(f, result)
    <3>1. CASE i = 0
      <4>1. result = "none" /\ ~Fits(f, CsvlkStart, f.csvlk_count)
        BY <1>3, <1>4, <2>3, <3>1
      <4> QED
        BY <4>1 DEF Refused
    <3>2. CASE i \in 1..4
      <4>1. TableFact(f, f.tables[i], result) /\ result # "some"
        BY <1>2, <1>4, <2>3, <3>2
      <4> QED
        BY <3>2, <4>1 DEF TableFact, Refused
    <3> QED
      BY <3>1, <3>2
  <2> QED
    BY <2>1, <2>2, <2>3
<1> QED
  BY <1>6, <1>7, <1>8

-----------------------------------------------------------------------------
(* The daemon's start. *)

\* Nothing has been read before load_embedded returns, and the database is that of
\* the file once it has.
StartDatabase ==
  /\ boot = "load" => (load = "unread" /\ db = NoDb /\ idx = 0)
  /\ boot \in {"epids", "years", "logged", "serving"} => db = file.db

\* What is drawn is plausible before its date is known.
DrawPlausible ==
  boot = "years" =>
    /\ Plausible(draw, db.csvlk[idx + 1])
    /\ db.csvlk[idx + 1].max_key < db.csvlk[idx + 1].min_key => ~checked

\* The loop over the years keeps the day it is looking for.
DayKept ==
  (boot = "years" /\ draw.time >= 0 /\ draw.time \div SecsPerDay < Int32) =>
    /\ remaining_days \in 0..(Int32 - 1)
    /\ remaining_days + DaysBefore(year) = draw.time \div SecsPerDay

StartInv ==
  /\ StartTypeOK
  /\ StartDatabase
  /\ DrawPlausible
  /\ DayKept
  /\ CutFileRefused /\ DateIsCalendar /\ EpidPlausible

LEMMA StartBegins == StartInit => StartInv
<1> SUFFICES ASSUME StartInit PROVE StartInv
  OBVIOUS
<1>1. Len(NoDb.csvlk) = 0
  BY DEF NoDb
<1>2. /\ file \in Files /\ checked \in BOOLEAN /\ load = "unread" /\ boot = "load"
      /\ db = NoDb /\ idx = 0
  BY DEF StartInit
<1>3. StartTypeOK
  BY <1>1, <1>2 DEF StartTypeOK
<1>4. StartDatabase
  BY <1>2 DEF StartDatabase
<1>5. DrawPlausible /\ DayKept
  BY <1>2 DEF DrawPlausible, DayKept
<1>6. CutFileRefused /\ DateIsCalendar /\ EpidPlausible
  BY <1>2 DEF CutFileRefused, DateIsCalendar, EpidPlausible
<1> QED
  BY <1>3, <1>4, <1>5, <1>6 DEF StartInv

LEMMA SameDraw ==
  ASSUME db' = db, idx' = idx, draw' = draw, Plausible(draw, db.csvlk[idx + 1])
  PROVE  Plausible(draw, db.csvlk[idx + 1])'
BY DEF Plausible

LEMMA StartLoad == StartInv /\ Load => StartInv'
<1> SUFFICES ASSUME StartInv, Load PROVE StartInv'
  OBVIOUS
<1>1. /\ file \in Files /\ checked \in BOOLEAN /\ boot = "load" /\ idx = 0 /\ db = NoDb
      /\ file' = file /\ checked' = checked /\ idx' = idx
  BY DEF StartInv, StartDatabase, StartTypeOK, Load
<1>2. PICK result \in ParseResults(file), now \in Clocks :
        /\ load' = result
        /\ db'   = IF result = "some" THEN file.db ELSE db
        /\ boot' = IF result = "some" /\ now >= 0 THEN "epids" ELSE "failed"
        /\ draw' = IF result = "some" /\ now < 0 THEN [now |-> now] ELSE draw
  BY DEF Load
<1>3. /\ boot' \in {"epids", "failed"} /\ db' \in {NoDb, file.db}
      /\ boot' = "epids" => db' = file.db
  BY <1>1, <1>2
<1>4. Len(db'.csvlk) \in Nat
  <2>1. Len(NoDb.csvlk) = 0
    BY DEF NoDb
  <2> QED
    BY <1>1, <1>3, <2>1, Rows
<1>5. load' \in {"none", "panic", "abort", "some"} /\ Refused(file, load')
  BY <1>1, <1>2, ParseIs
<1>6. StartTypeOK'
  BY <1>1, <1>3, <1>4, <1>5 DEF StartTypeOK
<1>7. CutFileRefused'
  BY <1>1, <1>5 DEF CutFileRefused, Refused
<1>8. StartDatabase'
  BY <1>1, <1>3 DEF StartDatabase
<1>9. boot' # "years" /\ boot' # "logged"
  BY <1>3
<1>10. DrawPlausible' /\ DayKept' /\ DateIsCalendar'
  BY <1>9 DEF DrawPlausible, DayKept, DateIsCalendar
<1>11. EpidPlausible'
  <2>1. now \in Int
    BY DatabaseAssumption DEF Times
  <2>2. boot' = "failed" /\ load' = "some" => draw'.now < 0
    BY <1>2, <2>1
  <2>3. draw'.now < 0 => CannotDraw(db.csvlk[idx + 1])'
    BY DEF CannotDraw
  <2> QED
    BY <1>9, <2>2, <2>3 DEF EpidPlausible
<1> QED
  BY <1>6, <1>7, <1>8, <1>10, <1>11 DEF StartInv

LEMMA Ranges == Clocks \subseteq Times /\ Randoms \subseteq Nat
  BY DatabaseAssumption

LEMMA PlausibleHost ==
  ASSUME NEW d, NEW csvlk, NEW b \in DOMAIN db.builds,
         /\ d.build = db.builds[b].number /\ d.platform = db.builds[b].platform
         /\ d.group = csvlk.group /\ KeyInRange(d.key_id, csvlk)
         /\ d.time >= db.builds[b].release /\ d.time >= csvlk.release
         /\ \/ d.time < MaxTime(d.now)
            \/ MaxTime(d.now) <= Later(db.builds[b].release, csvlk.release)
  PROVE  Plausible(d, csvlk)
BY DEF Plausible

\* A draw is plausible, and its day is still to be found.
LEMMA DrawIsPlausible ==
  ASSUME file \in Files, db = file.db,
         NEW b \in DOMAIN db.builds, NEW c \in DOMAIN db.csvlk,
         NEW k \in Nat, NEW r \in Nat, NEW now \in Times,
         KeyRange(db.csvlk[c]) # 0
  PROVE  LET d == Draw(db.csvlk[c], db.builds[b].number, k, r, now)
         IN  Plausible(d, db.csvlk[c]) /\ d.time \in Int
<1> DEFINE csvlk == db.csvlk[c]
           build == db.builds[b].number
           d == Draw(csvlk, build, k, r, now)
<1>1. /\ d.build = build /\ d.time = KmsTime(csvlk, build, now, r) /\ d.now = now
      /\ d.platform = GetPlatformId(db, build) /\ d.group = csvlk.group
      /\ d.key_id = ((k % KeyRange(csvlk)) + csvlk.min_key) % (2 * Int32)
  BY DEF Draw
<1> HIDE DEF d
<1>2. TimeOf(d.time, db.builds[b], csvlk, now)
  BY <1>1, TimeDrawn
<1>3. d.platform = db.builds[b].platform
  <2>1. b \in DOMAIN file.db.builds
    OBVIOUS
  <2> QED
    BY <1>1, <2>1, OwnRow
<1>4. csvlk.min_key \in U32Values /\ csvlk.max_key \in U32Values
  <2>1. \A i \in DOMAIN file.db.csvlk :
          file.db.csvlk[i].min_key \in U32Values /\ file.db.csvlk[i].max_key \in U32Values
    BY Rows
  <2> QED
    BY <2>1
<1>5. KeyInRange(d.key_id, csvlk)
  BY <1>1, <1>4, KeyDrawn
<1> HIDE DEF csvlk
<1>6. Plausible(d, csvlk)
  BY <1>1, <1>2, <1>3, <1>5, PlausibleHost DEF TimeOf
<1> QED
  BY <1>2, <1>6 DEF TimeOf, d, csvlk

\* The reasons for a panic are those of CannotDraw.
LEMMA PanicExplained ==
  ASSUME file \in Files, db = file.db, NEW b \in DOMAIN db.builds, idx + 1 \in DOMAIN db.csvlk,
         NEW now \in Times, DrawPanics(db.csvlk[idx + 1], db.builds[b].number, now),
         db' = db, checked' = checked, idx' = idx,
         draw' = [build |-> db.builds[b].number, now |-> now]
  PROVE  CannotDraw(db.csvlk[idx + 1])'
<1> DEFINE csvlk == db.csvlk[idx + 1]
           build == db.builds[b].number
           lo == FirstPossibleTime(csvlk, build)
           hi == MaxTime(now)
<1>1. /\ csvlk.release \in Times /\ csvlk.min_key \in U32Values /\ csvlk.max_key \in U32Values
      /\ db.builds[b].release \in Times
  BY Rows
<1>2. GetReleaseDate(db, build) = db.builds[b].release
  BY OwnRow
<1>3. /\ Int64 \in Nat /\ MinNow \in Times
  BY DatabaseAssumption
<1>4. lo \in Int /\ hi \in Int /\ lo >= csvlk.release
  BY <1>1, <1>2, <1>3 DEF FirstPossibleTime, MaxTime, Later, Times
<1>5. KeyRange(csvlk) = 0 => csvlk.min_key = csvlk.max_key
  <2> HIDE DEF csvlk
  <2> QED
    BY <1>1, 0 \in Nat, KeyDrawn
<1>6. \/ now < 0 \/ KeyRange(csvlk) = 0
      \/ hi > lo /\ hi - lo = 0
      \/ checked /\ csvlk.max_key < csvlk.min_key
      \/ checked /\ hi - lo >= Int64
  BY DEF DrawPanics, HasWindow, WindowSize
<1>7. draw'.now = now /\ db'.csvlk[idx' + 1] = csvlk
  OBVIOUS
<1>8. CannotDraw(db.csvlk[idx + 1])' =
        (\/ db.builds = <<>> \/ now < 0 \/ csvlk.min_key = csvlk.max_key
         \/ checked /\ csvlk.max_key < csvlk.min_key
         \/ checked /\ hi - csvlk.release >= Int64)
  BY <1>7 DEF CannotDraw, MaxTime
<1> HIDE DEF csvlk, lo, hi
<1>9. ~(hi > lo /\ hi - lo = 0)
  BY <1>4
<1>10. hi - lo >= Int64 => hi - csvlk.release >= Int64
  BY <1>1, <1>3, <1>4 DEF Times
<1> QED
  BY <1>5, <1>6, <1>8, <1>9, <1>10

LEMMA StartGenerate == StartInv /\ Generate => StartInv'
<1> SUFFICES ASSUME StartInv, Generate PROVE StartInv'
  OBVIOUS
<1>1. /\ StartTypeOK /\ boot = "epids" /\ db = file.db /\ idx < Len(db.csvlk)
      /\ file' = file /\ checked' = checked /\ load' = load /\ db' = db /\ idx' = idx
  BY DEF StartInv, StartDatabase, Generate
<1>2. file \in Files /\ idx \in Nat /\ idx + 1 \in DOMAIN db.csvlk
  BY <1>1, Rows DEF StartTypeOK
<1>3. CutFileRefused'
  BY <1>1 DEF StartInv, CutFileRefused
<1>4. ASSUME boot' = "failed", CannotDraw(db.csvlk[idx + 1])'
      PROVE  StartInv'
  <2>1. StartTypeOK' /\ StartDatabase'
    BY <1>1, <1>4 DEF StartTypeOK, StartDatabase
  <2>2. DrawPlausible' /\ DayKept' /\ DateIsCalendar' /\ EpidPlausible'
    BY <1>4 DEF DrawPlausible, DayKept, DateIsCalendar, EpidPlausible
  <2> QED
    BY <1>3, <2>1, <2>2 DEF StartInv
<1>5. CASE db.builds = <<>> /\ boot' = "failed"
  <2>1. CannotDraw(db.csvlk[idx + 1])'
    BY <1>1, <1>5 DEF CannotDraw
  <2> QED
    BY <1>4, <1>5, <2>1
<1>6. ASSUME NEW b \in DOMAIN db.builds, NEW now \in Clocks,
             DrawPanics(db.csvlk[idx + 1], db.builds[b].number, now), boot' = "failed",
             draw' = [build |-> db.builds[b].number, now |-> now]
      PROVE  StartInv'
  <2>1. CannotDraw(db.csvlk[idx + 1])'
    BY <1>1, <1>2, <1>6, Ranges, PanicExplained
  <2> QED
    BY <1>4, <1>6, <2>1
<1>7. ASSUME NEW b \in DOMAIN db.builds, NEW k \in Randoms, NEW r \in Randoms, NEW now \in Clocks,
             ~DrawPanics(db.csvlk[idx + 1], db.builds[b].number, now), boot' = "years",
             draw' = Draw(db.csvlk[idx + 1], db.builds[b].number, k, r, now),
             remaining_days' = DaysSinceEpoch(draw'.time), year' = 1970
      PROVE  StartInv'
  <2>1. /\ KeyRange(db.csvlk[idx + 1]) # 0
        /\ db.csvlk[idx + 1].max_key < db.csvlk[idx + 1].min_key => ~checked
    BY <1>7 DEF DrawPanics
  <2>2. k \in Nat /\ r \in Nat /\ now \in Times
    BY Ranges
  <2>3. Plausible(draw', db.csvlk[idx + 1]) /\ draw'.time \in Int
    BY <1>1, <1>2, <1>7, <2>1, <2>2, DrawIsPlausible
  <2>4. /\ remaining_days' \in Int
        /\ (draw'.time >= 0 /\ draw'.time \div SecsPerDay < Int32) =>
             /\ remaining_days' = draw'.time \div SecsPerDay
             /\ remaining_days' \in 0..(Int32 - 1)
    BY <1>7, <2>3, DaysDrawn
  <2>5. StartTypeOK' /\ StartDatabase'
    BY <1>1, <1>7, <2>3, <2>4 DEF StartTypeOK, StartDatabase
  <2>6. Plausible(draw, db.csvlk[idx + 1])'
    BY <1>1, <2>3 DEF Plausible
  <2>7. DrawPlausible'
    BY <1>1, <2>1, <2>6 DEF DrawPlausible
  <2>10. \A n \in Int : n + 0 = n
    OBVIOUS
  <2>8. DayKept'
    <3> SUFFICES ASSUME draw'.time >= 0, draw'.time \div SecsPerDay < Int32
                 PROVE  /\ remaining_days' \in 0..(Int32 - 1)
                        /\ remaining_days' + DaysBefore(year') = draw'.time \div SecsPerDay
      BY DEF DayKept
    <3>1. DaysBefore(year') = 0
      BY <1>7, YearZero
    <3>2. remaining_days' + 0 = remaining_days'
      BY <2>4, <2>10
    <3> QED
      BY <2>4, <3>1, <3>2
  <2>9. DateIsCalendar' /\ EpidPlausible'
    BY <1>7 DEF DateIsCalendar, EpidPlausible
  <2> QED
    BY <1>3, <2>5, <2>7, <2>8, <2>9 DEF StartInv
<1> QED
  BY <1>5, <1>6, <1>7 DEF Generate

LEMMA StartYear == StartInv /\ NextYear => StartInv'
<1> SUFFICES ASSUME StartInv, NextYear PROVE StartInv'
  OBVIOUS
<1>1. /\ StartTypeOK /\ boot = "years" /\ remaining_days >= DaysIn(year)
      /\ remaining_days' = remaining_days - DaysIn(year) /\ year' = year + 1
      /\ file' = file /\ checked' = checked /\ load' = load /\ boot' = boot /\ db' = db /\ idx' = idx
      /\ draw' = draw /\ epid' = epid
  BY DEF StartInv, NextYear
<1>2. /\ remaining_days \in Int /\ year \in Nat /\ year >= 1970
      /\ DaysIn(year) \in {365, 366}
  BY <1>1 DEF StartTypeOK, DaysIn
<1>3. remaining_days' \in Nat /\ remaining_days' \in Int /\ year' \in Nat /\ year' >= 1970
  BY <1>1, <1>2
<1>4. StartTypeOK'
  BY <1>1, <1>3 DEF StartTypeOK
<1>5. DayKept'
  <2> SUFFICES ASSUME draw.time >= 0, draw.time \div SecsPerDay < Int32
               PROVE  /\ remaining_days' \in 0..(Int32 - 1)
                      /\ remaining_days' + DaysBefore(year') = draw.time \div SecsPerDay
    BY <1>1 DEF DayKept
  <2>1. DaysBefore(year) \in Int
    BY <1>2 DEF DaysBefore
  <2>2. DaysBefore(year + 1) = DaysBefore(year) + DaysIn(year)
    BY <1>2, YearAdds
  <2>3. /\ remaining_days \in 0..(Int32 - 1)
        /\ remaining_days + DaysBefore(year) = draw.time \div SecsPerDay
    BY <1>1 DEF StartInv, DayKept
  <2>4. (remaining_days - DaysIn(year)) + DaysBefore(year + 1)
          = remaining_days + DaysBefore(year)
    BY <1>2, <2>1, <2>2
  <2>5. remaining_days' + DaysBefore(year') = remaining_days + DaysBefore(year)
    BY <1>1, <2>4
  <2>6. remaining_days' \in 0..(Int32 - 1)
    BY <1>1, <1>2, <2>3, DatabaseAssumption
  <2> QED
    BY <2>3, <2>5, <2>6
<1>6. StartDatabase' /\ CutFileRefused'
  BY <1>1 DEF StartInv, StartDatabase, CutFileRefused
<1>7. DrawPlausible'
  BY <1>1, SameDraw DEF StartInv, DrawPlausible
<1>8. boot' # "logged" /\ boot' # "failed"
  BY <1>1
<1>9. DateIsCalendar' /\ EpidPlausible'
  BY <1>8 DEF DateIsCalendar, EpidPlausible
<1> QED
  BY <1>4, <1>5, <1>6, <1>7, <1>9 DEF StartInv

LEMMA StartFound == StartInv /\ FoundYear => StartInv'
<1> SUFFICES ASSUME StartInv, FoundYear PROVE StartInv'
  OBVIOUS
<1>1. /\ StartTypeOK /\ boot = "years" /\ remaining_days < DaysIn(year)
      /\ epid' = [from |-> draw, day_of_year |-> (remaining_days + 1) % (2 * Int32),
                   year |-> year]
      /\ boot' = "logged" /\ file' = file /\ checked' = checked /\ load' = load
      /\ db' = db /\ idx' = idx
      /\ draw' = draw /\ remaining_days' = remaining_days /\ year' = year
  BY DEF StartInv, FoundYear
<1>2. /\ remaining_days \in Int /\ year \in Nat /\ year >= 1970
      /\ DaysIn(year) \in {365, 366}
  BY <1>1 DEF StartTypeOK, DaysIn
<1>3. /\ epid'.from = draw /\ epid'.day_of_year = (remaining_days + 1) % (2 * Int32)
      /\ epid'.year = year
  BY <1>1
<1>4. StartTypeOK'
  BY <1>1 DEF StartTypeOK
<1>5. DateIsCalendar'
  <2> SUFFICES ASSUME draw.time >= 0, draw.time \div SecsPerDay < Int32
               PROVE  /\ epid'.day_of_year \in 1..DaysIn(year)
                      /\ DaysBefore(year) + epid'.day_of_year - 1 = draw.time \div SecsPerDay
    BY <1>3 DEF DateIsCalendar
  <2>1. DaysBefore(year) \in Int
    BY <1>2 DEF DaysBefore
  <2>2. /\ remaining_days \in 0..(Int32 - 1)
        /\ remaining_days + DaysBefore(year) = draw.time \div SecsPerDay
    BY <1>1 DEF StartInv, DayKept
  <2>3. epid'.day_of_year = remaining_days + 1
    <3>1. 2 * Int32 \in Nat \ {0} /\ remaining_days + 1 \in 0..(2 * Int32 - 1)
      BY <2>2, DatabaseAssumption
    <3> QED
      BY <1>3, <3>1, SmallRemainder
  <2>4. DaysBefore(year) + (remaining_days + 1) - 1 = draw.time \div SecsPerDay
    BY <1>2, <2>1, <2>2
  <2>5. remaining_days + 1 \in 1..DaysIn(year)
    BY <1>1, <1>2, <2>2
  <2> QED
    BY <2>3, <2>4, <2>5
<1>6. StartDatabase' /\ CutFileRefused'
  BY <1>1 DEF StartInv, StartDatabase, CutFileRefused
<1>7. EpidPlausible'
  <2>1. /\ Plausible(draw, db.csvlk[idx + 1])
        /\ db.csvlk[idx + 1].max_key < db.csvlk[idx + 1].min_key => ~checked
    BY <1>1 DEF StartInv, DrawPlausible
  <2>2. Plausible(epid.from, db.csvlk[idx + 1])'
    BY <1>1, <1>3, <2>1 DEF Plausible
  <2> QED
    BY <1>1, <2>1, <2>2 DEF EpidPlausible
<1>8. boot' # "years"
  BY <1>1
<1>9. DrawPlausible' /\ DayKept'
  BY <1>8 DEF DrawPlausible, DayKept
<1> QED
  BY <1>4, <1>5, <1>6, <1>7, <1>9 DEF StartInv

LEMMA StartOthers == StartInv /\ (NextCsvlk \/ Serve) => StartInv'
<1> SUFFICES ASSUME StartInv, NextCsvlk \/ Serve PROVE StartInv'
  OBVIOUS
<1>1. StartTypeOK /\ file' = file /\ checked' = checked /\ load' = load /\ db' = db
  BY DEF StartInv, NextCsvlk, Serve
<1>2. boot' \in {"epids", "serving"} /\ boot \in {"logged", "epids"}
  BY DEF NextCsvlk, Serve
<1>3. idx' \in 0..Len(db.csvlk)
  <2>1. CASE NextCsvlk
    <3>1. idx' = idx + 1 /\ idx < Len(db.csvlk) /\ db = file.db /\ file \in Files
      BY <1>1, <2>1 DEF NextCsvlk, StartTypeOK, StartInv, StartDatabase
    <3>2. Len(db.csvlk) \in Nat
      BY <3>1, Rows
    <3> QED
      BY <1>1, <3>1, <3>2 DEF StartTypeOK
  <2>2. CASE Serve
    BY <1>1, <2>2 DEF Serve, StartTypeOK
  <2> QED
    BY <2>1, <2>2
<1>4. StartTypeOK'
  BY <1>1, <1>2, <1>3 DEF StartTypeOK
<1>5. StartDatabase' /\ CutFileRefused'
  BY <1>1, <1>2 DEF StartInv, StartDatabase, CutFileRefused
<1>6. boot' # "years" /\ boot' # "logged" /\ boot' # "failed"
  BY <1>2
<1>7. DrawPlausible' /\ DayKept' /\ DateIsCalendar' /\ EpidPlausible'
  BY <1>6 DEF DrawPlausible, DayKept, DateIsCalendar, EpidPlausible
<1> QED
  BY <1>4, <1>5, <1>7 DEF StartInv

LEMMA StartKept == StartInv /\ UNCHANGED startVars => StartInv'
<1> SUFFICES ASSUME StartInv, UNCHANGED startVars PROVE StartInv'
  OBVIOUS
<1>1. /\ file' = file /\ checked' = checked /\ load' = load /\ boot' = boot /\ db' = db /\ idx' = idx
      /\ draw' = draw /\ remaining_days' = remaining_days /\ year' = year /\ epid' = epid
  BY DEF startVars
<1>2. StartTypeOK' /\ StartDatabase' /\ CutFileRefused' /\ DayKept' /\ DateIsCalendar'
  BY <1>1 DEF StartInv, StartTypeOK, StartDatabase, CutFileRefused, DayKept, DateIsCalendar
<1>3. DrawPlausible'
  BY <1>1, SameDraw DEF StartInv, DrawPlausible
<1>4. EpidPlausible'
  <2>1. boot = "logged" => Plausible(epid.from, db.csvlk[idx + 1])'
    BY <1>1 DEF StartInv, EpidPlausible, Plausible
  <2>2. boot = "failed" /\ load = "some" => CannotDraw(db.csvlk[idx + 1])'
    BY <1>1 DEF StartInv, EpidPlausible, CannotDraw
  <2> QED
    BY <1>1, <2>1, <2>2 DEF StartInv, EpidPlausible
<1> QED
  BY <1>2, <1>3, <1>4 DEF StartInv

LEMMA StartAlways == Spec => []StartInv
<1>1. Init => StartInv
  BY StartBegins DEF Init
<1>2. StartInv /\ [Next]_vars => StartInv'
  <2> SUFFICES ASSUME StartInv, [Next]_vars PROVE StartInv'
    OBVIOUS
  <2>1. CASE Start
    BY <2>1, StartLoad, StartGenerate, StartYear, StartFound, StartOthers DEF Start
  <2>2. CASE Client
    <3>1. UNCHANGED startVars
      BY <2>2 DEF Client, StartClient, ParseArg, BuildRequest, Connect, SendRequest,
                  Answer, Show, Exit
    <3> QED
      BY <3>1, StartKept
  <2>3. CASE Finished \/ UNCHANGED vars
    <3>1. UNCHANGED startVars
      BY <2>3 DEF Finished, vars
    <3> QED
      BY <3>1, StartKept
  <2> QED
    BY <2>1, <2>2, <2>3 DEF Next
<1> QED
  BY <1>1, <1>2, PTL DEF Spec

\* unix_to_day_year computes the Gregorian date of every time not before 1970 whose
\* day is an i32.
THEOREM DatesAreRight == Spec => []DateIsCalendar
<1>1. StartInv => DateIsCalendar
  BY DEF StartInv
<1> QED
  BY <1>1, StartAlways, PTL

\* generate_random_epid draws a plausible ePID from every database that lists its
\* builds newest first, whatever the clock and the random numbers, or panics for one
\* of the reasons in CannotDraw; an empty time range is none of them.
THEOREM EpidsArePlausible == Spec => []EpidPlausible
<1>1. StartInv => EpidPlausible
  BY DEF StartInv
<1> QED
  BY <1>1, StartAlways, PTL

\* parse accepts no file that ends before its tables and refuses no other, whatever
\* the header says; it panics or aborts only for a header that is cut off, for a count
\* that is too large or negative, or for an offset that wraps.
THEOREM CutFilesAreRefused == Spec => []CutFileRefused
<1>1. StartInv => CutFileRefused
  BY DEF StartInv
<1> QED
  BY <1>1, StartAlways, PTL

-----------------------------------------------------------------------------
(* What is built and answered. *)

LEMMA Unwrapped ==
  ASSUME NEW S, NEW option \in SUBSET S, NEW default \in S
  PROVE  Unwrap(option, default) \in S
  BY DEF Unwrap

LEMMA NameFits ==
  ASSUME NEW chars \in Seq(Values(U16))
  PROVE  Name(chars) \in [1..NameLength -> Values(U16)]
<1>1. \A i \in 1..NameLength : i <= Len(chars) => chars[i] \in Values(U16)
  BY Sizable
<1> QED
  BY <1>1, Widths DEF Name

ConfigTypeOK ==
  /\ config \in [host : SUBSET STRING, product_index : SUBSET Nat,
                 force_version : SUBSET {4, 5, 6}, n_requests : Nat,
                 name : STRING \cup {"WORKSTATION"}, timeout : Nat]
  /\ Chars(config.name) \in Seq(Values(U16))

\* A time of the clock as ticks.
Ticks(now) == now * TicksPerSec + EpochDiff

LEMMA ClockFits ==
  ASSUME NEW now \in ClientClocks
  PROVE  now \in Nat /\ Ticks(now) \in Nat /\ Ticks(now) <= LastTick /\ Ticks(now) < Word
<1>1. now \in Nat /\ Ticks(now) <= LastTick
  BY FieldAssumption DEF Ticks
<1>2. LastTick \in Nat /\ Word \in Nat /\ LastTick < Word
  BY TimeAssumption DEF Word
<1>3. Ticks(now) \in Nat
  BY <1>1, TimeAssumption DEF Ticks
<1> QED
  BY <1>1, <1>2, <1>3

LEMMA RequestTyped ==
  ASSUME ConfigTypeOK, file \in Files, db = file.db, NEW i \in 1..Len(db.skus),
         NEW cmid \in MachineIds, NEW now \in ClientClocks
  PROVE  Request(db.skus[i], cmid, now) \in Requests
<1> DEFINE sku == db.skus[i]
           ft == FromUnixSecs(now)
<1>1. /\ sku.guid \in Values(GuidSize) /\ sku.app_index \in Nat /\ sku.kms_index \in Nat
      /\ sku.protocol_version \in Values(U16) /\ sku.n_count_policy \in Values(U32)
  BY Product
<1>2. GuidAt(db.apps, sku.app_index) \in Values(GuidSize)
      /\ GuidAt(db.kms, sku.kms_index) \in Values(GuidSize)
  BY <1>1, Guids
<1>3. ft.low \in Values(U32) /\ ft.high \in Values(U32)
  <2>1. ft \in [low : 0..(Half - 1), high : 0..(Half - 1)]
    BY ClockFits, UnixTicks DEF Ticks
  <2> QED
    BY <2>1, Widths
<1>4. Name(Chars(config.name)) \in [1..NameLength -> Values(U16)]
  BY NameFits DEF ConfigTypeOK
<1>5. Unwrap(config.force_version, IF sku.protocol_version = 0 THEN 6 ELSE sku.protocol_version)
        \in Values(U16)
  <2>1. config.force_version \in SUBSET Values(U16)
    BY Widths DEF ConfigTypeOK
  <2>2. (IF sku.protocol_version = 0 THEN 6 ELSE sku.protocol_version) \in Values(U16)
    BY <1>1, Widths
  <2> QED
    BY <2>1, <2>2, Unwrapped
<1>6. (IF sku.n_count_policy = 0 THEN DefaultPolicy ELSE sku.n_count_policy) \in Values(U32)
  BY <1>1, Widths, FieldAssumption
<1>7. /\ cmid \in Values(GuidSize)
      /\ LicenseStatus \in Values(U32) /\ BindingExpiration \in Values(U32)
  BY FieldAssumption
<1> HIDE DEF sku, ft
<1> QED
  BY <1>1, <1>2, <1>3, <1>4, <1>5, <1>6, <1>7, Widths DEF Request, Requests, sku, ft

LEMMA Cut ==
  ASSUME NEW A, NEW s \in Seq(A), NEW n \in Nat
  PROVE  /\ UpTo(s, n) \in Seq(A)
         /\ Len(UpTo(s, n)) = IF Len(s) < n THEN Len(s) ELSE n
         /\ \A i \in 1..Len(UpTo(s, n)) : i \in 1..Len(s) /\ UpTo(s, n)[i] = s[i]
<1> DEFINE m == IF Len(s) < n THEN Len(s) ELSE n
<1>1. m \in Nat /\ m <= Len(s) /\ Len(s) \in Nat
  OBVIOUS
<1> HIDE DEF m
<1>2. \A i \in 1..m : i \in 1..Len(s) /\ s[i] \in A
  BY <1>1
<1>3. /\ SubSeq(s, 1, m) \in Seq(A) /\ Len(SubSeq(s, 1, m)) = m
      /\ \A i \in 1..m : SubSeq(s, 1, m)[i] = s[i]
  <2>1. 1 \in Int /\ m \in Int /\ m - 1 + 1 = m /\ (IF 1 <= m THEN m - 1 + 1 ELSE 0) = m
    BY <1>1
  <2>2. \A i \in 1..m : 1 + i - 1 = i
    BY <1>1
  <2>3. /\ SubSeq(s, 1, m) \in Seq(A)
        /\ Len(SubSeq(s, 1, m)) = IF 1 <= m THEN m - 1 + 1 ELSE 0
        /\ \A i \in 1..(m - 1 + 1) : SubSeq(s, 1, m)[i] = s[1 + i - 1]
    <3>1. \A i \in 1..m : s[i] \in A
      BY <1>2
    <3> QED
      BY <2>1, <3>1, SubSeqProperties
  <2> QED
    BY <2>1, <2>2, <2>3
<1>4. UpTo(s, n) = SubSeq(s, 1, m)
  BY DEF UpTo, m
<1> QED
  BY <1>2, <1>3, <1>4 DEF m

LEMMA SameSeq ==
  ASSUME NEW A, NEW s \in Seq(A), NEW B, NEW t \in Seq(B), Len(s) = Len(t),
         \A i \in 1..Len(s) : s[i] = t[i]
  PROVE  s = t
<1>1. s = [i \in 1..Len(s) |-> s[i]] /\ t = [i \in 1..Len(t) |-> t[i]]
  OBVIOUS
<1> QED
  BY <1>1

LEMMA Appended ==
  ASSUME NEW A, NEW s \in Seq(A), NEW x \in A
  PROVE  /\ Append(s, x) \in Seq(A) /\ Len(Append(s, x)) = Len(s) + 1
         /\ \A i \in 1..Len(s) : Append(s, x)[i] = s[i]
         /\ Append(s, x)[Len(s) + 1] = x
  OBVIOUS

\* The NUL behind an ePID, if there is room for it, ends it again.
LEMMA PidRead ==
  ASSUME NEW chars \in Seq(Values(U16) \ {0})
  PROVE  /\ PidUnits(chars) \in Seq(Values(U16)) /\ Len(PidUnits(chars)) <= PidLength
         /\ UpToNul(PidUnits(chars)) = UpTo(chars, PidLength)
<1> DEFINE A == Values(U16)
           ended == Append(chars, 0)
           pid == PidUnits(chars)
           n == Len(chars)
<1>1. chars \in Seq(A) /\ 0 \in A /\ \A i \in 1..Len(chars) : chars[i] \in A /\ chars[i] # 0
  <2>1. Values(U16) \ {0} \subseteq A
    OBVIOUS
  <2>2. 0 \in A
    BY Widths
  <2> HIDE DEF A
  <2> QED
    BY <2>1, <2>2 DEF A
<1>2. PidLength \in Nat \ {0}
  BY WidthAssumption
<1> HIDE DEF A
<1>3. /\ ended \in Seq(A) /\ Len(ended) = n + 1 /\ ended[n + 1] = 0
      /\ \A i \in 1..n : ended[i] = chars[i]
  BY <1>1, Appended
<1>4. n \in Nat
  BY <1>1
<1> HIDE DEF ended, n
<1>5. pid = UpTo(ended, PidLength)
  BY DEF PidUnits, ended
<1> HIDE DEF pid
<1>6. /\ pid \in Seq(A) /\ Len(pid) = IF n + 1 < PidLength THEN n + 1 ELSE PidLength
      /\ \A i \in 1..Len(pid) : pid[i] = ended[i]
  BY <1>2, <1>3, <1>5, Cut
<1>7. /\ UpTo(chars, PidLength) \in Seq(A)
      /\ Len(UpTo(chars, PidLength)) = IF n < PidLength THEN n ELSE PidLength
      /\ \A i \in 1..Len(UpTo(chars, PidLength)) : UpTo(chars, PidLength)[i] = chars[i]
  BY <1>1, <1>2, Cut DEF n
<1> DEFINE nuls == {k \in DOMAIN pid : pid[k] = 0}
<1>8. DOMAIN pid = 1..Len(pid)
  BY <1>6
<1>9. CASE n < PidLength
  <2>1. Len(pid) = n + 1 /\ pid[n + 1] = 0 /\ \A i \in 1..n : pid[i] = chars[i] /\ pid[i] # 0
    BY <1>1, <1>2, <1>3, <1>4, <1>6, <1>9 DEF n
  <2>2. nuls = {n + 1}
    BY <1>4, <1>8, <2>1
  <2>3. FirstOf({n + 1}) = n + 1
    BY <1>4 DEF FirstOf
  <2>4. UpToNul(pid) = SubSeq(pid, 1, n)
    <3>1. FirstOf(nuls) - 1 = n /\ nuls # {}
      <4> HIDE DEF nuls
      <4>1. FirstOf(nuls) = n + 1 /\ nuls # {}
        BY <2>2, <2>3
      <4> QED
        BY <1>4, <4>1
    <3> QED
      BY <3>1 DEF UpToNul
  <2>5. UpTo(pid, n) = SubSeq(pid, 1, n)
    BY <1>4, <2>1 DEF UpTo
  <2>6. /\ UpTo(pid, n) \in Seq(A) /\ Len(UpTo(pid, n)) = n
        /\ \A i \in 1..n : UpTo(pid, n)[i] = pid[i]
    BY <1>4, <1>6, <2>1, Cut
  <2>7. UpTo(pid, n) = UpTo(chars, PidLength)
    <3>1. Len(UpTo(chars, PidLength)) = n
      BY <1>7, <1>9
    <3>2. \A i \in 1..n : UpTo(pid, n)[i] = UpTo(chars, PidLength)[i]
      BY <1>7, <2>1, <2>6, <3>1
    <3> QED
      BY <1>7, <2>6, <3>1, <3>2, SameSeq
  <2> QED
    BY <1>2, <1>4, <1>6, <1>9, <2>1, <2>4, <2>5, <2>7 DEF A, pid
<1>10. CASE ~(n < PidLength)
  <2>1. Len(pid) = PidLength /\ \A i \in 1..Len(pid) : pid[i] = chars[i] /\ pid[i] # 0
    <3>1. Len(pid) = PidLength
      BY <1>2, <1>4, <1>6, <1>10
    <3>2. \A i \in 1..PidLength : i \in 1..n
      BY <1>2, <1>4, <1>10
    <3> QED
      BY <1>1, <1>3, <1>6, <3>1, <3>2 DEF n
  <2>2. nuls = {}
    BY <1>8, <2>1
  <2>3. UpToNul(pid) = pid
    BY <2>2 DEF UpToNul
  <2>4. pid = UpTo(chars, PidLength)
    <3>1. Len(UpTo(chars, PidLength)) = PidLength
      BY <1>7, <1>10
    <3>2. \A i \in 1..Len(pid) : pid[i] = UpTo(chars, PidLength)[i]
      BY <1>7, <2>1, <3>1
    <3> QED
      BY <1>6, <1>7, <2>1, <3>1, <3>2, SameSeq
  <2> QED
    BY <1>2, <1>6, <2>1, <2>3, <2>4 DEF A, pid
<1> QED
  BY <1>9, <1>10

\* The request is for a product of the database.
Asks(r, i) ==
  /\ r \in Requests
  /\ r.kms_id = db.kms[db.skus[i].kms_index + 1].guid
  /\ r.n_policy >= 1 /\ 2 * r.n_policy < Half

LEMMA RequestAsks ==
  ASSUME ConfigTypeOK, file \in Files, db = file.db, NEW i \in 1..Len(db.skus),
         NEW cmid \in MachineIds, NEW now \in ClientClocks
  PROVE  Asks(Request(db.skus[i], cmid, now), i)
<1> DEFINE sku == db.skus[i]
           r == Request(sku, cmid, now)
<1>1. r \in Requests
  BY RequestTyped
<1>2. sku.kms_index \in Nat /\ sku.kms_index < Len(db.kms)
  BY Product
<1>3. r.kms_id = db.kms[sku.kms_index + 1].guid
  BY <1>2 DEF Request, GuidAt
<1>4. r.n_policy >= 1 /\ 2 * r.n_policy < Half
  <2>1. sku.n_count_policy \in Nat /\ 2 * sku.n_count_policy < Half
    BY Product DEF Values
  <2>2. r.n_policy = IF sku.n_count_policy = 0 THEN DefaultPolicy ELSE sku.n_count_policy
    BY DEF Request
  <2> QED
    BY <2>1, <2>2, FieldAssumption
<1> QED
  BY <1>1, <1>3, <1>4 DEF Asks

\* The ePID of the CSVLK that the product's KMS item names.
EpidOf(i) == db.csvlk[db.kms[db.skus[i].kms_index + 1].epid_index + 1].epid

LEMMA ResponseOf ==
  ASSUME file \in Files, db = file.db, NEW i \in 1..Len(db.skus), NEW r, Asks(r, i)
  PROVE  LET resp == Response(r)
         IN  /\ resp \in Responses
             /\ EpidOf(i) \in Seq(Values(U16) \ {0})
             /\ resp.pid = PidUnits(EpidOf(i))
             /\ U16 * Len(resp.pid) \in Values(U32)
             /\ resp.cmid = r.cmid /\ resp.vl_renewal_interval = RenewalInterval
             /\ resp.count \in Nat /\ resp.count >= 2 * r.n_policy /\ resp.count > 0
<1> DEFINE k == db.skus[i].kms_index + 1
           index == db.kms[k].epid_index
           required == IF r.n_policy < 1 THEN 1 ELSE (r.n_policy * 2) % Half
           minimum  == IF index < Len(db.csvlk) THEN db.csvlk[index + 1].min_active ELSE 25
<1>1. k \in 1..Len(db.kms)
  <2>1. Len(db.kms) \in Nat
    BY RowAssumption
  <2> QED
    BY <2>1, Product
<1> HIDE DEF k
<1>2. /\ index \in Nat /\ index < Len(db.csvlk)
      /\ db.csvlk[index + 1].min_active \in Values(U32)
      /\ db.csvlk[index + 1].epid \in Seq(Values(U16) \ {0})
      /\ Find(db.kms, db.kms[k].guid) = {db.kms[k]}
  BY <1>1, Item
<1>3. EpidIndex(r.kms_id) = index
  <2>1. r.kms_id = db.kms[k].guid
    BY DEF Asks, k
  <2>2. {item.epid_index : item \in Find(db.kms, r.kms_id)} = {index}
    BY <1>2, <2>1
  <2> QED
    BY <2>2 DEF EpidIndex, Unwrap
<1>4. EpidOf(i) = db.csvlk[index + 1].epid /\ GetEpid(db, index) = EpidOf(i)
  BY <1>2 DEF EpidOf, GetEpid, k
<1> HIDE DEF index
<1>5. Response(r) =
        [minor_ver |-> r.minor_ver, major_ver |-> r.major_ver,
         pid |-> PidUnits(EpidOf(i)),
         cmid |-> r.cmid, time_low |-> r.time_low, time_high |-> r.time_high,
         count |-> Later(required, minimum),
         vl_activation_interval |-> ActivationInterval,
         vl_renewal_interval |-> RenewalInterval]
  BY <1>3, <1>4 DEF Response
<1>6. /\ r.n_policy \in Nat /\ r.n_policy >= 1 /\ 2 * r.n_policy < Half /\ Half \in Nat
  BY Widths DEF Asks, Requests, Values
<1>7. required = 2 * r.n_policy /\ required \in Values(U32)
  <2>1. r.n_policy * 2 = 2 * r.n_policy /\ (r.n_policy * 2) % Half = 2 * r.n_policy
    <3>1. PICK n \in Nat : n = r.n_policy
      BY <1>6
    <3>2. PICK m \in Nat : m = n * 2 /\ m = 2 * n
      <4>1. n * 2 \in Nat /\ n * 2 = 2 * n
        OBVIOUS
      <4> QED
        BY <4>1
    <3>3. m % Half = m
      BY <1>6, <3>1, <3>2
    <3> QED
      BY <3>1, <3>2, <3>3
  <2> QED
    BY <1>6, <2>1, Widths
<1>8. minimum \in Values(U32)
  BY <1>2
<1> HIDE DEF required, minimum
<1>9. Later(required, minimum) \in Values(U32) /\ Later(required, minimum) \in Nat
      /\ Later(required, minimum) >= 2 * r.n_policy /\ Later(required, minimum) > 0
  <2>1. required \in Nat /\ minimum \in Nat
    BY <1>7, <1>8 DEF Values
  <2> QED
    BY <1>6, <1>7, <1>8, <2>1 DEF Later
<1>10. PidUnits(EpidOf(i)) \in Seq(Values(U16)) /\ Len(PidUnits(EpidOf(i))) <= PidLength
  BY <1>2, <1>4, PidRead
<1>11. U16 * Len(PidUnits(EpidOf(i))) \in Values(U32)
  <2> DEFINE l == Len(PidUnits(EpidOf(i)))
  <2>1. l \in Nat /\ l <= PidLength /\ PidLength \in Nat /\ U16 \in Nat /\ U16 * PidLength < Half
    BY <1>10, WidthAssumption, Sizable
  <2> HIDE DEF l
  <2>2. U16 * l <= U16 * PidLength /\ U16 * l \in Nat /\ U16 * PidLength \in Nat
    <3>1. PICK d \in Nat : PidLength = l + d
      <4>1. PidLength - l \in Nat /\ PidLength = l + (PidLength - l)
        BY <2>1
      <4> QED
        BY <4>1
    <3>2. U16 * PidLength = U16 * l + U16 * d /\ U16 * d \in Nat /\ U16 * l \in Nat
      BY <2>1, <3>1
    <3> QED
      BY <3>2
  <2> QED
    BY <2>1, <2>2, Widths DEF l
<1>12. /\ r.minor_ver \in Values(U16) /\ r.major_ver \in Values(U16) /\ r.cmid \in Values(GuidSize)
       /\ r.time_low \in Values(U32) /\ r.time_high \in Values(U32)
  BY DEF Asks, Requests
<1>13. ActivationInterval \in Values(U32) /\ RenewalInterval \in Values(U32)
  BY FieldAssumption
<1>14. Response(r) \in Responses
  BY <1>5, <1>9, <1>10, <1>12, <1>13 DEF Responses
<1> QED
  BY <1>2, <1>4, <1>5, <1>9, <1>11, <1>14

-----------------------------------------------------------------------------
(* The command line. *)

\* An argument is the value of the one in front of it if that one takes a value and
\* is none itself.
LEMMA Owned ==
  ASSUME NEW S, NEW line \in Seq(S)
  PROVE  /\ OwnArguments(line) \subseteq 1..Len(line)
         /\ 1 \in 1..Len(line) => 1 \in OwnArguments(line)
         /\ \A i \in 1..Len(line) : i + 1 \in 1..Len(line) =>
              (i + 1 \in OwnArguments(line)
                 <=> ~(line[i] \in WithValue /\ i \in OwnArguments(line)))
<1> DEFINE n == Len(line)
           Takes(j) == j > 1 /\ line[j - 1] \in WithValue
           step == [j \in 1..n |-> [x \in BOOLEAN |-> Takes(j) /\ ~x]]
           Value2(f) == f = [i \in 0..n |-> i > 1 /\ line[i - 1] \in WithValue /\ ~f[i - 1]]
           value == CHOOSE f : Value2(f)
<1>1. n \in Nat
  OBVIOUS
<1>2. step \in [1..n -> [BOOLEAN -> BOOLEAN]] /\ FALSE \in BOOLEAN
  OBVIOUS
<1>3. PICK g \in [0..n -> BOOLEAN] : Chain(n, FALSE, step, g)
  <2> HIDE DEF step, n
  <2> QED
    BY <1>1, <1>2, Recursion
<1>4. Value2(g)
  <2>1. ASSUME NEW i \in 0..n
        PROVE  g[i] = (i > 1 /\ line[i - 1] \in WithValue /\ ~g[i - 1])
    <3>1. g[i] = IF i = 0 THEN FALSE ELSE step[i][g[i - 1]]
      BY <1>3 DEF Chain
    <3>2. CASE i = 0
      BY <3>1, <3>2
    <3>3. CASE i # 0
      <4>1. i \in 1..n /\ i - 1 \in 0..n /\ g[i - 1] \in BOOLEAN
        BY <1>1, <3>3
      <4>2. step[i][g[i - 1]] = (Takes(i) /\ ~g[i - 1])
        BY <4>1, Zenon
      <4> QED
        BY <3>1, <3>3, <4>2
    <3> QED
      BY <3>2, <3>3
  <2>2. g = [i \in 0..n |-> g[i]]
    OBVIOUS
  <2>3. [i \in 0..n |-> g[i]] = [i \in 0..n |-> i > 1 /\ line[i - 1] \in WithValue /\ ~g[i - 1]]
    BY <2>1, Zenon
  <2> QED
    BY <2>2, <2>3, Zenon
<1>5. Value2(value)
  BY <1>4, Zenon
<1>6. OwnArguments(line) = {i \in 1..n : ~value[i]}
  BY DEF OwnArguments
<1> HIDE DEF value
<1>7. \A i \in 0..n : value[i] = (i > 1 /\ line[i - 1] \in WithValue /\ ~value[i - 1])
  BY <1>5, Zenon
<1>8. \A i \in 1..n : i \in OwnArguments(line)
                        <=> ~(i > 1 /\ line[i - 1] \in WithValue /\ ~value[i - 1])
  <2>1. \A i \in 1..n : i \in 0..n
    BY <1>1
  <2> QED
    BY <1>6, <1>7, <2>1, Zenon
<1>9. ASSUME NEW i \in 1..n, i + 1 \in 1..n
      PROVE  i + 1 \in OwnArguments(line) <=> ~(line[i] \in WithValue /\ i \in OwnArguments(line))
  <2>1. i + 1 > 1 /\ (i + 1) - 1 = i
    BY <1>1
  <2>2. i \in OwnArguments(line) <=> ~value[i]
    BY <1>6
  <2> QED
    BY <1>8, <1>9, <2>1, <2>2
<1>10. 1 \in 1..n => 1 \in OwnArguments(line)
  BY <1>8
<1> QED
  BY <1>6, <1>9, <1>10

LEMMA LastAdded ==
  ASSUME NEW P \in SUBSET Nat, NEW x \in Nat, \A y \in P : y < x
  PROVE  LastOf(P \cup {x}) = x
<1> DEFINE Q == P \cup {x}
<1>1. x \in Q /\ \A y \in Q : y <= x
  OBVIOUS
<1>2. \A z \in Q : (\A y \in Q : y <= z) => z = x
  BY <1>1
<1> HIDE DEF Q
<1> QED
  BY <1>1, <1>2 DEF LastOf, Q

LEMMA FirstKept ==
  ASSUME NEW P \in SUBSET Nat, NEW x \in Nat, \A y \in P : y < x
  PROVE  FirstOf(P \cup {x}) = IF P = {} THEN x ELSE FirstOf(P)
<1> DEFINE Q == P \cup {x}
<1>1. CASE P = {}
  <2>1. Q = {x}
    BY <1>1
  <2>2. FirstOf({x}) = x
    BY DEF FirstOf
  <2> QED
    BY <1>1, <2>1, <2>2
<1>2. CASE P # {}
  <2>1. PICK f \in P : \A y \in P : f <= y
    BY <1>2, Least
  <2>2. \A z \in P : (\A y \in P : z <= y) => z = f
    BY <2>1
  <2>3. FirstOf(P) = f
    BY <2>1, <2>2 DEF FirstOf
  <2>4. f \in Q /\ \A y \in Q : f <= y
    BY <2>1
  <2>5. \A z \in Q : (\A y \in Q : z <= y) => z = f
    BY <2>4
  <2> HIDE DEF Q
  <2>6. FirstOf(Q) = f
    BY <2>4, <2>5 DEF FirstOf
  <2> QED
    BY <1>2, <2>3, <2>6 DEF Q
<1> QED
  BY <1>1, <1>2

Given(line, own, options) == {i \in own : line[i] \in options}

Hosts(line, own) == {i \in own : NoOption(line[i])}

\* The parts of what some arguments mean.
LEMMA Meaning ==
  ASSUME NEW line, NEW own
  PROVE  LET m == MeantBy(line, own)
         IN  /\ DOMAIN m = {"force_version", "host", "name", "product_index", "n_requests"}
             /\ m.force_version = IF Given(line, own, Versions) = {} THEN {}
                                  ELSE {Major(line[LastOf(Given(line, own, Versions))])}
             /\ m.host = IF Hosts(line, own) = {} THEN {} ELSE {line[FirstOf(Hosts(line, own))]}
             /\ m.name = IF Given(line, own, {"-w"}) = {} THEN "WORKSTATION"
                         ELSE line[LastOf(Given(line, own, {"-w"})) + 1]
             /\ m.product_index =
                  IF Given(line, own, {"-l"}) = {} THEN {}
                  ELSE {IF Number(line[LastOf(Given(line, own, {"-l"})) + 1]) <= 1 THEN 0
                        ELSE Number(line[LastOf(Given(line, own, {"-l"})) + 1]) - 1}
             /\ m.n_requests =
                  IF Given(line, own, {"-n"}) = {} THEN 1
                  ELSE OrElse(Number(line[LastOf(Given(line, own, {"-n"})) + 1]), 1)
  BY DEF MeantBy, Given, Hosts

\* What the client has read is what the arguments at these positions mean.
Reads(line, c, own) ==
  LET meant == MeantBy(line, own) IN \A field \in DOMAIN meant : c[field] = meant[field]

MeansFields(line, c, own) ==
  /\ c.force_version = IF Given(line, own, Versions) = {} THEN {}
                       ELSE {Major(line[LastOf(Given(line, own, Versions))])}
  /\ c.host = IF Hosts(line, own) = {} THEN {} ELSE {line[FirstOf(Hosts(line, own))]}
  /\ c.name = IF Given(line, own, {"-w"}) = {} THEN "WORKSTATION"
              ELSE line[LastOf(Given(line, own, {"-w"})) + 1]
  /\ c.product_index =
       IF Given(line, own, {"-l"}) = {} THEN {}
       ELSE {IF Number(line[LastOf(Given(line, own, {"-l"})) + 1]) <= 1 THEN 0
             ELSE Number(line[LastOf(Given(line, own, {"-l"})) + 1]) - 1}
  /\ c.n_requests =
       IF Given(line, own, {"-n"}) = {} THEN 1
       ELSE OrElse(Number(line[LastOf(Given(line, own, {"-n"})) + 1]), 1)

LEMMA ReadsMeans ==
  ASSUME NEW line, NEW c, NEW own
  PROVE  Reads(line, c, own) <=> MeansFields(line, c, own)
<1> DEFINE m == MeantBy(line, own)
<1>1. Reads(line, c, own) <=> /\ c.force_version = m.force_version /\ c.host = m.host
                        /\ c.name = m.name /\ c.product_index = m.product_index
                        /\ c.n_requests = m.n_requests
  <2>1. DOMAIN m = {"force_version", "host", "name", "product_index", "n_requests"}
    BY Meaning
  <2> HIDE DEF m
  <2> QED
    BY <2>1 DEF Reads, m
<1> QED
  BY <1>1, Meaning DEF MeansFields

LEMMA NothingRead == \A line : MeansFields(line, DefaultConfig, {})
  BY DEF MeansFields, DefaultConfig, Given, Hosts

LEMMA OneMore ==
  ASSUME NEW own, NEW i, NEW options
  PROVE  /\ Given(args, own \cup {i}, options) = IF args[i] \in options THEN Given(args, own, options) \cup {i}
                                           ELSE Given(args, own, options)
         /\ Hosts(args, own \cup {i}) =
              IF NoOption(args[i]) THEN Hosts(args, own) \cup {i} ELSE Hosts(args, own)
  BY DEF Given, Hosts

\* The arguments that speak for themselves, one further.
LEMMA NextOwn ==
  ASSUME NEW S, args \in Seq(S), at \in OwnArguments(args),
         NEW next \in Nat, next = IF args[at] \in WithValue THEN at + 2 ELSE at + 1
  PROVE  /\ at \in Nat /\ at >= 1 /\ at <= Len(args)
         /\ {i \in OwnArguments(args) : i < next} = {i \in OwnArguments(args) : i < at} \cup {at}
         /\ next \in OwnArguments(args) \/ next > Len(args)
<1>1. /\ Len(args) \in Nat /\ OwnArguments(args) \subseteq 1..Len(args) /\ at \in 1..Len(args)
      /\ \A i \in 1..Len(args) : i + 1 \in 1..Len(args) =>
           (i + 1 \in OwnArguments(args) <=> ~(args[i] \in WithValue /\ i \in OwnArguments(args)))
  BY Owned
<1>2. CASE args[at] \notin WithValue
  <2>1. next = at + 1
    BY <1>2
  <2>2. at + 1 \in 1..Len(args) => at + 1 \in OwnArguments(args)
    BY <1>1, <1>2
  <2>3. \A i \in OwnArguments(args) : i < at + 1 <=> (i < at \/ i = at)
    BY <1>1
  <2>4. {i \in OwnArguments(args) : i < at + 1} = {i \in OwnArguments(args) : i < at} \cup {at}
    BY <2>3
  <2>5. at + 1 \in OwnArguments(args) \/ at + 1 > Len(args)
    BY <1>1, <2>2
  <2> QED
    BY <1>1, <2>1, <2>4, <2>5
<1>3. CASE args[at] \in WithValue
  <2>1. next = at + 2
    BY <1>3
  <2>2. at + 1 \notin OwnArguments(args)
    <3>1. at + 1 \in 1..Len(args) => at + 1 \notin OwnArguments(args)
      BY <1>1, <1>3
    <3> QED
      BY <1>1, <3>1
  <2>3. at + 2 \in 1..Len(args) => at + 2 \in OwnArguments(args)
    <3>1. at + 2 \in 1..Len(args) => at + 1 \in 1..Len(args) /\ (at + 1) + 1 = at + 2
      BY <1>1
    <3> QED
      BY <1>1, <2>2, <3>1
  <2>4. \A i \in OwnArguments(args) : i < at + 2 <=> (i < at \/ i = at)
    <3>1. \A i \in OwnArguments(args) : i \in Nat /\ i # at + 1
      BY <1>1, <2>2
    <3> QED
      BY <1>1, <3>1
  <2>5. {i \in OwnArguments(args) : i < at + 2} = {i \in OwnArguments(args) : i < at} \cup {at}
    BY <2>4
  <2>6. at + 2 \in OwnArguments(args) \/ at + 2 > Len(args)
    BY <1>1, <2>3
  <2> QED
    BY <1>1, <2>1, <2>5, <2>6
<1> QED
  BY <1>2, <1>3

\* Positions in front of another one.
Before(P, x) == P \in SUBSET Nat /\ x \in Nat /\ \A y \in P : y < x

LEMMA NewLast ==
  ASSUME NEW P, NEW x, Before(P, x), NEW options, args[x] \in options
  PROVE  Given(args, P \cup {x}, options) # {} /\ LastOf(Given(args, P \cup {x}, options)) = x
<1>1. Given(args, P, options) \in SUBSET Nat /\ \A y \in Given(args, P, options) : y < x
  BY DEF Given, Before
<1>2. Given(args, P \cup {x}, options) = Given(args, P, options) \cup {x}
  BY OneMore
<1>3. x \in Nat
  BY DEF Before
<1> HIDE DEF Given
<1> QED
  BY <1>1, <1>2, <1>3, LastAdded

LEMMA SameGiven ==
  ASSUME NEW P, NEW x, NEW options, args[x] \notin options
  PROVE  Given(args, P \cup {x}, options) = Given(args, P, options)
  BY OneMore

LEMMA FlagRead ==
  ASSUME NEW P, Before(P, at), ConfigTypeOK, MeansFields(args, config, P),
         Flag, ~NoOption(Option)
  PROVE  MeansFields(args, config', P \cup {at}) /\ ConfigTypeOK' /\ at' = at + 1
         /\ args[at] \notin WithValue
<1>1. /\ Option \in {"-4", "-5", "-6", "-v"} /\ at' = at + 1 /\ Option = args[at]
      /\ config' = IF Option = "-v" THEN config
                   ELSE [config EXCEPT !.force_version = {Major(Option)}]
  BY DEF Flag, Versions, Option
<1>2. Hosts(args, P \cup {at}) = Hosts(args, P)
  BY <1>1, OneMore
<1>3. /\ Given(args, P \cup {at}, {"-w"}) = Given(args, P, {"-w"})
      /\ Given(args, P \cup {at}, {"-l"}) = Given(args, P, {"-l"})
      /\ Given(args, P \cup {at}, {"-n"}) = Given(args, P, {"-n"})
  BY <1>1, SameGiven
<1>4. /\ config'.host = config.host /\ config'.name = config.name
      /\ config'.product_index = config.product_index
      /\ config'.n_requests = config.n_requests
  BY <1>1 DEF ConfigTypeOK
<1>5. config'.force_version = IF Given(args, P \cup {at}, Versions) = {} THEN {}
                              ELSE {Major(args[LastOf(Given(args, P \cup {at}, Versions))])}
  <2>1. CASE Option = "-v"
    <3>1. Given(args, P \cup {at}, Versions) = Given(args, P, Versions)
      BY <1>1, <2>1, SameGiven DEF Versions
    <3> QED
      BY <1>1, <2>1, <3>1 DEF MeansFields
  <2>2. CASE Option # "-v"
    <3>1. Given(args, P \cup {at}, Versions) # {} /\ LastOf(Given(args, P \cup {at}, Versions)) = at
      BY <1>1, <2>2, NewLast DEF Versions
    <3>2. config'.force_version = {Major(Option)}
      BY <1>1, <2>2 DEF ConfigTypeOK
    <3> QED
      BY <1>1, <3>1, <3>2
  <2> QED
    BY <2>1, <2>2
<1>6. ConfigTypeOK'
  <2>1. Option # "-v" => Major(Option) \in {4, 5, 6}
    BY <1>1 DEF Major
  <2> QED
    BY <1>1, <2>1 DEF ConfigTypeOK
<1>7. MeansFields(args, config', P \cup {at})
  BY <1>2, <1>3, <1>4, <1>5 DEF MeansFields
<1> QED
  BY <1>1, <1>6, <1>7 DEF WithValue

LEMMA HostRead ==
  ASSUME NEW P, Before(P, at), ConfigTypeOK, MeansFields(args, config, P),
         Host, Option \in STRING, Option \notin Versions \cup {"-v"} \cup WithValue
  PROVE  MeansFields(args, config', P \cup {at}) /\ ConfigTypeOK' /\ at' = at + 1
         /\ args[at] \notin WithValue
<1>1. /\ at' = at + 1 /\ Option = args[at] /\ NoOption(args[at])
      /\ config' = IF config.host = {} THEN [config EXCEPT !.host = {Option}] ELSE config
  BY DEF Host, Option
<1>2. Hosts(args, P \cup {at}) = Hosts(args, P) \cup {at}
  BY <1>1, OneMore
<1>3. /\ Given(args, P \cup {at}, {"-w"}) = Given(args, P, {"-w"})
      /\ Given(args, P \cup {at}, {"-l"}) = Given(args, P, {"-l"})
      /\ Given(args, P \cup {at}, {"-n"}) = Given(args, P, {"-n"})
      /\ Given(args, P \cup {at}, Versions) = Given(args, P, Versions)
  <2>1. /\ args[at] \notin {"-w"} /\ args[at] \notin {"-l"}
        /\ args[at] \notin {"-n"} /\ args[at] \notin Versions
    BY <1>1 DEF WithValue
  <2> QED
    BY <2>1, SameGiven
<1>4. /\ config'.force_version = config.force_version /\ config'.name = config.name
      /\ config'.product_index = config.product_index
      /\ config'.n_requests = config.n_requests
      /\ config'.host = IF config.host = {} THEN {Option} ELSE config.host
  BY <1>1 DEF ConfigTypeOK
<1>5. config'.host = {args[FirstOf(Hosts(args, P \cup {at}))]} /\ Hosts(args, P \cup {at}) # {}
  <2>1. Hosts(args, P) \in SUBSET Nat /\ at \in Nat /\ \A y \in Hosts(args, P) : y < at
    BY DEF Before, Hosts
  <2>2. FirstOf(Hosts(args, P \cup {at})) =
          IF Hosts(args, P) = {} THEN at ELSE FirstOf(Hosts(args, P))
    BY <1>2, <2>1, FirstKept
  <2>3. config.host = IF Hosts(args, P) = {} THEN {} ELSE {args[FirstOf(Hosts(args, P))]}
    BY DEF MeansFields
  <2> QED
    BY <1>1, <1>2, <1>4, <2>2, <2>3
<1>6. ConfigTypeOK'
  BY <1>1 DEF ConfigTypeOK
<1>7. MeansFields(args, config', P \cup {at})
  BY <1>3, <1>4, <1>5 DEF MeansFields
<1> QED
  BY <1>1, <1>6, <1>7

\* Of the options that take a value.
LEMMA ValueRead ==
  ASSUME NEW P, Before(P, at), ConfigTypeOK, MeansFields(args, config, P), OptionWithValue,
         ~NoOption(Option), Value \in STRING, Number(Value) \in Nat \cup {NotANumber},
         Chars(Value) \in Seq(Values(U16))
  PROVE  MeansFields(args, config', P \cup {at}) /\ ConfigTypeOK' /\ at' = at + 2
         /\ args[at] \in WithValue /\ at < Len(args)
<1>1. /\ Option \in {"-l", "-n", "-w", "-t"} /\ at' = at + 2 /\ Option = args[at]
      /\ at < Len(args) /\ Value = args[at + 1]
      /\ Option = "-l" => Number(Value) # NotANumber
      /\ config' =
       CASE Option = "-l" -> [config EXCEPT !.product_index =
                                {IF Number(Value) > 0 THEN Number(Value) - 1 ELSE 0}]
         [] Option = "-n" -> [config EXCEPT !.n_requests = OrElse(Number(Value), 1)]
         [] Option = "-w" -> [config EXCEPT !.name = Value]
         [] Option = "-t" -> [config EXCEPT !.timeout = OrElse(Number(Value), @)]
  BY DEF OptionWithValue, WithValue, Option, Value
<1>2. Hosts(args, P \cup {at}) = Hosts(args, P)
  BY <1>1, OneMore
<1>3. Given(args, P \cup {at}, Versions) = Given(args, P, Versions)
  BY <1>1, SameGiven DEF Versions
<1>4. ASSUME NEW option, option # Option
      PROVE  Given(args, P \cup {at}, {option}) = Given(args, P, {option})
  BY <1>1, <1>4, SameGiven
<1>5. Given(args, P \cup {at}, {Option}) # {} /\ LastOf(Given(args, P \cup {at}, {Option})) = at
  BY <1>1, NewLast
<1>6. CASE Option = "-l"
  <2>1. PICK v \in Nat : v = Number(Value)
    BY <1>1, <1>6
  <2>2. PICK n \in Nat : n = (IF v > 0 THEN v - 1 ELSE 0) /\ n = (IF v <= 1 THEN 0 ELSE v - 1)
    <3>1. /\ (IF v > 0 THEN v - 1 ELSE 0) \in Nat
          /\ (IF v > 0 THEN v - 1 ELSE 0) = (IF v <= 1 THEN 0 ELSE v - 1)
      OBVIOUS
    <3> QED
      BY <3>1
  <2>3. config' = [config EXCEPT !.product_index = {n}]
    BY <1>1, <1>6, <2>1, <2>2
  <2>4. config'.product_index = {IF Number(Value) <= 1 THEN 0 ELSE Number(Value) - 1}
    <3>1. n = IF Number(Value) <= 1 THEN 0 ELSE Number(Value) - 1
      BY <2>1, <2>2
    <3> QED
      BY <2>3, <3>1 DEF ConfigTypeOK
  <2>5. /\ config'.force_version = config.force_version /\ config'.name = config.name
        /\ config'.host = config.host /\ config'.n_requests = config.n_requests
    BY <2>3 DEF ConfigTypeOK
  <2>6. ConfigTypeOK'
    BY <2>3 DEF ConfigTypeOK
  <2>7. MeansFields(args, config', P \cup {at})
    BY <1>1, <1>2, <1>3, <1>4, <1>5, <1>6, <2>4, <2>5 DEF MeansFields
  <2> QED
    BY <1>1, <2>6, <2>7 DEF WithValue
<1>7. CASE Option = "-n"
  <2>1. PICK n \in Nat : n = OrElse(Number(Value), 1)
    BY DEF OrElse
  <2>2. config' = [config EXCEPT !.n_requests = n]
    BY <1>1, <1>7, <2>1
  <2>3. config'.n_requests = OrElse(Number(Value), 1)
    BY <2>1, <2>2 DEF ConfigTypeOK
  <2>4. /\ config'.force_version = config.force_version /\ config'.name = config.name
        /\ config'.host = config.host /\ config'.product_index = config.product_index
    BY <2>2 DEF ConfigTypeOK
  <2>5. ConfigTypeOK'
    BY <2>2 DEF ConfigTypeOK
  <2>6. MeansFields(args, config', P \cup {at})
    BY <1>1, <1>2, <1>3, <1>4, <1>5, <1>7, <2>3, <2>4 DEF MeansFields
  <2> QED
    BY <1>1, <2>5, <2>6 DEF WithValue
<1>8. CASE Option = "-w"
  <2>1. config' = [config EXCEPT !.name = Value]
    BY <1>1, <1>8
  <2>3. config'.name = Value
    BY <2>1 DEF ConfigTypeOK
  <2>4. /\ config'.force_version = config.force_version
        /\ config'.n_requests = config.n_requests
        /\ config'.host = config.host /\ config'.product_index = config.product_index
    BY <2>1 DEF ConfigTypeOK
  <2>5. ConfigTypeOK'
    BY <2>1, <2>3 DEF ConfigTypeOK
  <2>6. MeansFields(args, config', P \cup {at})
    BY <1>1, <1>2, <1>3, <1>4, <1>5, <1>8, <2>3, <2>4 DEF MeansFields
  <2> QED
    BY <1>1, <2>5, <2>6 DEF WithValue
<1>9. CASE Option = "-t"
  <2>1. config' = [config EXCEPT !.timeout = OrElse(Number(Value), config.timeout)]
    BY <1>1, <1>9
  <2>2. OrElse(Number(Value), config.timeout) \in Nat
    BY DEF OrElse, ConfigTypeOK
  <2>4. /\ config'.force_version = config.force_version
        /\ config'.n_requests = config.n_requests /\ config'.name = config.name
        /\ config'.host = config.host /\ config'.product_index = config.product_index
    BY <2>1 DEF ConfigTypeOK
  <2>5. ConfigTypeOK'
    BY <2>1, <2>2 DEF ConfigTypeOK
  <2>6. MeansFields(args, config', P \cup {at})
    BY <1>2, <1>3, <1>4, <1>9, <2>4 DEF MeansFields
  <2> QED
    BY <1>1, <2>5, <2>6 DEF WithValue
<1> QED
  BY <1>1, <1>6, <1>7, <1>8, <1>9

-----------------------------------------------------------------------------
(* The client's invariant, and its steps. *)

\* aes_cmac_v4 returns bytes.
MacIsBytes == \A bytes \in Bytes : Mac(bytes) \in Bytes

ClientTypeOK ==
  /\ cpc \in ClientStates
  /\ cpc # "off" => args \in CommandLines /\ at \in 1..(Len(args) + 2)
  /\ left \in Nat
  /\ clock \in ClientClocks \cup {0}
  /\ raw_request \in Bytes /\ response_data \in Bytes
  /\ slot \in 0..(Word - 1)

\* A client runs only beside a daemon that serves.
Served == cpc # "off" => boot = "serving"

\* The next argument speaks for itself, and what the client has read is what those
\* in front of it mean.
ReadSoFar ==
  cpc = "args" => /\ at \in OwnArguments(args) \/ at > Len(args)
                  /\ Reads(args, config, {i \in OwnArguments(args) : i < at})

Chosen == Unwrap(config.product_index, 0) + 1

\* The request is the one for the product chosen, of the time that the clock showed.
Built ==
  cpc \in {"connect", "send", "answer", "show"} =>
    /\ Chosen <= Len(db.skus) /\ clock \in ClientClocks
    /\ \E cmid \in MachineIds : request = Request(db.skus[Chosen], cmid, clock)

\* Nothing has been read before there is a command line.
Unread == cpc = "off" => at = 1 /\ config = DefaultConfig

\* A message, with or without a MAC behind it.
Sealed(bytes, message) == bytes \in {message, message \o Mac(message)}

Sent == cpc = "answer" => Sealed(raw_request, RequestToBytes(request))

Answered ==
  cpc = "show" =>
    /\ seen = request
    /\ Sealed(response_data, ResponseToWire(Response(seen)))
    /\ slot = IF seen.major_ver > 5
              THEN TimeSlot([low |-> seen.time_low, high |-> seen.time_high]) ELSE 0

NothingShown == cpc \in {"off", "args", "connect"} => shown = <<>>

ClientInv ==
  /\ ClientTypeOK /\ ConfigTypeOK /\ Served
  /\ ReadSoFar /\ CommandLineRead
  /\ Built /\ Sent /\ Answered
  /\ Unread /\ NothingShown /\ ShownIsProduct

LEMMA EmptyBytes == <<>> \in Bytes /\ \A bytes \in Bytes : bytes \o <<>> = bytes
<1>1. <<>> \in Bytes
  BY DEF Bytes
<1>2. ASSUME NEW bytes \in Bytes
      PROVE  bytes \o <<>> = bytes
  <2>1. bytes \in Seq(Digits) /\ <<>> \in Seq(Digits) /\ Len(<<>>) = 0
    BY DEF Bytes, Digits
  <2>2. /\ bytes \o <<>> \in Seq(Digits) /\ Len(bytes \o <<>>) = Len(bytes)
        /\ \A i \in 1..Len(bytes) : (bytes \o <<>>)[i] = bytes[i]
    BY <2>1, Concat
  <2> QED
    BY <2>1, <2>2, SameSeq
<1> QED
  BY <1>1, <1>2

LEMMA Opened ==
  ASSUME MacIsBytes, NEW message \in Bytes, NEW bytes, Sealed(bytes, message)
  PROVE  bytes \in Bytes /\ \E rest \in Bytes : bytes = message \o rest
<1>1. Mac(message) \in Bytes
  BY DEF MacIsBytes
<1>2. \E rest \in Bytes : bytes = message \o rest
  BY <1>1, EmptyBytes DEF Sealed
<1>3. PICK rest \in Bytes : bytes = message \o rest
  BY <1>2
<1> QED
  BY <1>2, <1>3, EndAt

LEMMA ClientBegins == Init => ClientInv
<1> SUFFICES ASSUME Init PROVE ClientInv
  OBVIOUS
<1>1. /\ args = <<>> /\ at = 1 /\ config = DefaultConfig /\ cpc = "off" /\ left = 0
      /\ clock = 0 /\ request = <<>> /\ raw_request = <<>> /\ seen = <<>> /\ slot = 0
      /\ response_data = <<>> /\ shown = <<>>
  BY DEF Init
<1>2. ClientTypeOK
  <2>1. Word \in Nat /\ Word > 0
    BY TimeAssumption DEF Word
  <2> QED
    BY <1>1, <2>1, EmptyBytes DEF ClientTypeOK, ClientStates
<1>3. ConfigTypeOK
  BY <1>1, ArgumentAssumption DEF ConfigTypeOK, DefaultConfig
<1>4. /\ Served /\ Unread /\ ReadSoFar /\ CommandLineRead
      /\ Built /\ Sent /\ Answered /\ NothingShown
  BY <1>1 DEF Served, Unread, ReadSoFar, CommandLineRead, Built, Sent, Answered, NothingShown
<1>5. ShownIsProduct
  BY <1>1 DEF ShownIsProduct
<1> QED
  BY <1>2, <1>3, <1>4, <1>5 DEF ClientInv

LEMMA SameRequest ==
  ASSUME config' = config, db' = db
  PROVE  /\ Chosen' = Chosen
         /\ \A i, cmid, now : Request(db.skus[i], cmid, now)' = Request(db.skus[i], cmid, now)
  BY DEF Chosen, Request

\* Once the command line has been read, nothing it says and nothing built from it
\* changes.
LEMMA Steady ==
  ASSUME ClientInv, UNCHANGED <<startVars, args, at, config, clock, request>>,
         cpc \in {"connect", "send", "answer", "show"},
         cpc' \in {"connect", "send", "answer", "show", "exit0", "exit1"}
  PROVE  ConfigTypeOK' /\ Served' /\ Unread' /\ ReadSoFar' /\ CommandLineRead' /\ Built'
<1>1. /\ boot' = boot /\ db' = db /\ args' = args /\ at' = at /\ config' = config
      /\ clock' = clock /\ request' = request
  BY DEF startVars
<1>2. ConfigTypeOK' /\ Served' /\ Unread' /\ ReadSoFar'
  BY <1>1 DEF ClientInv, ConfigTypeOK, Served, Unread, ReadSoFar
<1>3. CommandLineRead'
  <2>1. Meant' = Meant
    BY <1>1 DEF Meant
  <2> QED
    BY <1>1, <2>1 DEF ClientInv, CommandLineRead
<1>4. Built'
  <2>1. /\ Chosen <= Len(db.skus) /\ clock \in ClientClocks
        /\ \E cmid \in MachineIds : request = Request(db.skus[Chosen], cmid, clock)
    BY DEF ClientInv, Built
  <2>2. PICK cmid \in MachineIds : request = Request(db.skus[Chosen], cmid, clock)
    BY <2>1
  <2>3. /\ Chosen' = Chosen
        /\ Request(db.skus[Chosen], cmid, clock)' = Request(db.skus[Chosen], cmid, clock)
    <3>1. Chosen' = Chosen
      BY <1>1, SameRequest
    <3> QED
      BY <1>1, <3>1 DEF Request
  <2>4. request' = Request(db.skus[Chosen], cmid, clock)'
    BY <1>1, <2>2, <2>3
  <2> QED
    BY <1>1, <2>1, <2>3, <2>4 DEF Built
<1> QED
  BY <1>2, <1>3, <1>4

\* What is known of the request once it is built.
LEMMA KnownRequest ==
  ASSUME StartInv, ClientInv, cpc \in {"connect", "send", "answer", "show"}
  PROVE  /\ file \in Files /\ db = file.db
         /\ Chosen \in 1..Len(db.skus) /\ Asks(request, Chosen)
         /\ clock \in ClientClocks
         /\ [low |-> request.time_low, high |-> request.time_high] = FromUnixSecs(clock)
<1>1. file \in Files /\ db = file.db
  BY DEF StartInv, StartTypeOK, StartDatabase, ClientInv, Served
<1>2. /\ Chosen <= Len(db.skus) /\ clock \in ClientClocks /\ ConfigTypeOK
      /\ \E cmid \in MachineIds : request = Request(db.skus[Chosen], cmid, clock)
  BY DEF ClientInv, Built
<1>3. PICK cmid \in MachineIds : request = Request(db.skus[Chosen], cmid, clock)
  BY <1>2
<1>4. Chosen \in 1..Len(db.skus)
  <2>1. config.product_index \in SUBSET Nat /\ 0 \in Nat
    BY <1>2 DEF ConfigTypeOK
  <2>2. Unwrap(config.product_index, 0) \in Nat
    BY <2>1, Unwrapped
  <2>3. Len(db.skus) \in Nat
    BY <1>1, RowAssumption
  <2> QED
    BY <1>2, <2>2, <2>3 DEF Chosen
<1>5. Asks(request, Chosen)
  <2> HIDE DEF Chosen
  <2> QED
    BY <1>1, <1>2, <1>3, <1>4, RequestAsks
<1>6. request.time_low = FromUnixSecs(clock).low /\ request.time_high = FromUnixSecs(clock).high
  BY <1>3 DEF Request
<1>7. FromUnixSecs(clock) \in [low : 0..(Half - 1), high : 0..(Half - 1)]
  BY <1>2, ClockFits, UnixTicks DEF Ticks
<1>8. [low |-> request.time_low, high |-> request.time_high] = FromUnixSecs(clock)
  BY <1>6, <1>7
<1> QED
  BY <1>1, <1>2, <1>4, <1>5, <1>8

\* The daemon's start is over when there is a client.
LEMMA BesideStart ==
  ASSUME ClientInv, Start, UNCHANGED clientVars
  PROVE  ClientInv'
<1>1. /\ args' = args /\ at' = at /\ config' = config /\ cpc' = cpc /\ left' = left
      /\ clock' = clock /\ request' = request /\ raw_request' = raw_request
      /\ seen' = seen /\ slot' = slot /\ response_data' = response_data /\ shown' = shown
  BY DEF clientVars
<1>2. boot # "serving"
  BY DEF Start, Load, Generate, NextYear, FoundYear, NextCsvlk, Serve
<1>3. cpc = "off"
  BY <1>2 DEF ClientInv, Served
<1>4. ClientTypeOK' /\ ConfigTypeOK'
  BY <1>1 DEF ClientInv, ClientTypeOK, ConfigTypeOK
<1>5. /\ Served' /\ ReadSoFar' /\ CommandLineRead' /\ Built' /\ Sent' /\ Answered'
      /\ Unread' /\ NothingShown' /\ ShownIsProduct'
  BY <1>1, <1>3 DEF ClientInv, Served, ReadSoFar, CommandLineRead, Built, Sent, Answered,
                    Unread, NothingShown, ShownIsProduct
<1> QED
  BY <1>4, <1>5 DEF ClientInv

LEMMA Lines ==
  ASSUME NEW line \in CommandLines
  PROVE  /\ line \in Seq(STRING) /\ Len(line) \in Nat
         /\ \A i \in 1..Len(line) :
              /\ line[i] \in STRING
              /\ Number(line[i]) \in Nat \cup {NotANumber}
              /\ Chars(line[i]) \in Seq(Values(U16))
              /\ line[i] \in Versions \cup {"-v"} \cup WithValue => ~NoOption(line[i])
<1>1. line \in Seq(STRING)
  BY ArgumentAssumption
<1>2. /\ Len(line) \in Nat /\ DOMAIN line = 1..Len(line)
      /\ \A i \in 1..Len(line) : line[i] \in STRING
  BY <1>1
<1> QED
  BY <1>1, <1>2, ArgumentAssumption

LEMMA ClientStarts ==
  ASSUME ClientInv, StartClient
  PROVE  ClientInv'
<1>1. /\ cpc = "off" /\ boot' = "serving" /\ args' \in CommandLines /\ cpc' = "args"
      /\ at' = at /\ config' = config /\ left' = left
      /\ clock' = clock /\ request' = request /\ raw_request' = raw_request
      /\ seen' = seen /\ slot' = slot /\ response_data' = response_data /\ shown' = shown
  BY DEF StartClient, startVars
<1>2. at = 1 /\ config = DefaultConfig /\ shown = <<>>
  BY <1>1 DEF ClientInv, Unread, NothingShown
<1>3. PICK line \in CommandLines : line = args'
  BY <1>1
<1>4. Len(line) \in Nat /\ OwnArguments(line) \subseteq 1..Len(line)
      /\ (1 \in 1..Len(line) => 1 \in OwnArguments(line))
  BY Lines, Owned
<1>5. ClientTypeOK'
  BY <1>1, <1>2, <1>3, <1>4 DEF ClientInv, ClientTypeOK, ClientStates
<1>6. ConfigTypeOK' /\ Served' /\ Unread' /\ NothingShown'
  BY <1>1, <1>2 DEF ClientInv, ConfigTypeOK, Served, Unread, NothingShown
<1>7. ReadSoFar'
  <2>1. 1 \in OwnArguments(line) \/ 1 > Len(line)
    BY <1>4
  <2>2. {i \in OwnArguments(line) : i < 1} = {}
    BY <1>4
  <2>3. Reads(line, DefaultConfig, {})
    BY NothingRead, ReadsMeans
  <2> QED
    BY <1>1, <1>2, <1>3, <2>1, <2>2, <2>3 DEF ReadSoFar
<1>8. CommandLineRead' /\ Built' /\ Sent' /\ Answered' /\ ShownIsProduct'
  BY <1>1 DEF CommandLineRead, Built, Sent, Answered, ShownIsProduct
<1> QED
  BY <1>5, <1>6, <1>7, <1>8 DEF ClientInv

LEMMA ArgParsed ==
  ASSUME ClientInv, ParseArg
  PROVE  ClientInv'
<1>1. /\ cpc = "args" /\ at <= Len(args) /\ boot' = boot /\ args' = args /\ left' = left
      /\ clock' = clock /\ request' = request /\ raw_request' = raw_request
      /\ seen' = seen /\ slot' = slot /\ response_data' = response_data /\ shown' = shown
  BY DEF ParseArg, startVars
<1>2. /\ args \in CommandLines /\ at \in 1..(Len(args) + 2) /\ ClientTypeOK /\ ConfigTypeOK
      /\ boot = "serving"
  BY <1>1 DEF ClientInv, ClientTypeOK, Served
<1>3. /\ args \in Seq(STRING) /\ Len(args) \in Nat
      /\ \A i \in 1..Len(args) :
           /\ args[i] \in STRING
           /\ Number(args[i]) \in Nat \cup {NotANumber}
           /\ Chars(args[i]) \in Seq(Values(U16))
           /\ args[i] \in Versions \cup {"-v"} \cup WithValue => ~NoOption(args[i])
  BY <1>2, Lines
<1>4. /\ at \in OwnArguments(args) /\ at \in 1..Len(args)
      /\ Reads(args, config, {i \in OwnArguments(args) : i < at})
  BY <1>1, <1>2, <1>3 DEF ClientInv, ReadSoFar
<1> DEFINE P == {i \in OwnArguments(args) : i < at}
<1>5. Before(P, at) /\ MeansFields(args, config, P)
  <2>1. OwnArguments(args) \subseteq 1..Len(args)
    BY <1>3, Owned
  <2>2. Before(P, at)
    BY <1>4, <2>1 DEF Before
  <2> QED
    BY <1>4, <2>2, ReadsMeans
<1>6. CASE GiveUp
  <2>1. cpc' = "exit0" /\ at' = at /\ config' = config
    BY <1>6 DEF GiveUp
  <2>2. ClientTypeOK' /\ ConfigTypeOK'
    BY <1>1, <1>2, <2>1 DEF ClientTypeOK, ClientStates, ConfigTypeOK
  <2>3. /\ Served' /\ ReadSoFar' /\ CommandLineRead' /\ Built' /\ Sent' /\ Answered'
        /\ Unread' /\ NothingShown' /\ ShownIsProduct'
    BY <1>1, <1>2, <2>1 DEF Served, ReadSoFar, CommandLineRead, Built, Sent, Answered,
                      Unread, NothingShown, ShownIsProduct
  <2> QED
    BY <2>2, <2>3 DEF ClientInv
<1>7. CASE Flag \/ Host \/ OptionWithValue
  <2>1. /\ MeansFields(args, config', P \cup {at}) /\ ConfigTypeOK'
        /\ at' = IF args[at] \in WithValue THEN at + 2 ELSE at + 1
        /\ args[at] \in WithValue => at < Len(args)
    <3>1. Option = args[at] /\ args[at] \in STRING
          /\ (args[at] \in Versions \cup {"-v"} \cup WithValue => ~NoOption(args[at]))
      BY <1>3, <1>4 DEF Option
    <3>2. CASE Flag
      <4>1. ~NoOption(Option)
        BY <3>1, <3>2 DEF Flag
      <4> QED
        BY <1>2, <1>5, <3>2, <4>1, FlagRead
    <3>3. CASE Host
      <4>1. Option \notin Versions \cup {"-v"} \cup WithValue
        BY <3>1, <3>3 DEF Host
      <4>2. Option \in STRING
        BY <3>1
      <4> QED
        BY <1>2, <1>5, <3>3, <4>1, <4>2, HostRead
    <3>4. CASE OptionWithValue
      <4>1. ~NoOption(Option) /\ at < Len(args)
        BY <3>1, <3>4 DEF OptionWithValue
      <4>2. at + 1 \in 1..Len(args) /\ Value = args[at + 1]
        BY <1>3, <1>4, <4>1 DEF Value
      <4>3. /\ Value \in STRING /\ Number(Value) \in Nat \cup {NotANumber}
            /\ Chars(Value) \in Seq(Values(U16))
        BY <1>3, <4>2
      <4> QED
        BY <1>2, <1>5, <3>4, <4>1, <4>3, ValueRead
    <3> QED
      BY <1>7, <3>2, <3>3, <3>4
  <2>2. cpc' = "args"
    BY <1>1, <1>7 DEF Flag, Host, OptionWithValue
  <2>3. PICK next \in Nat : next = at' /\ next \in 1..(Len(args) + 2)
    BY <1>3, <1>4, <2>1
  <2>4. /\ {i \in OwnArguments(args) : i < next} = P \cup {at}
        /\ next \in OwnArguments(args) \/ next > Len(args)
    BY <1>3, <1>4, <2>1, <2>3, NextOwn
  <2>5. ReadSoFar'
    <3>1. Reads(args, config', P \cup {at})
      BY <2>1, ReadsMeans
    <3>2. Reads(args, config', {i \in OwnArguments(args) : i < next})
      BY <2>4, <3>1
    <3> QED
      BY <1>1, <2>3, <2>4, <3>2 DEF ReadSoFar
  <2>6. ClientTypeOK'
    BY <1>1, <1>2, <2>2, <2>3 DEF ClientTypeOK, ClientStates
  <2>7. /\ Served' /\ CommandLineRead' /\ Built' /\ Sent' /\ Answered'
        /\ Unread' /\ NothingShown' /\ ShownIsProduct'
    BY <1>1, <1>2, <2>2 DEF ClientInv, Served, CommandLineRead, Built, Sent, Answered,
                      Unread, NothingShown, ShownIsProduct
  <2> QED
    BY <2>1, <2>5, <2>6, <2>7 DEF ClientInv
<1> QED
  BY <1>6, <1>7 DEF ParseArg

\* Behind the last argument all of them have been read.
LEMMA AllRead ==
  ASSUME ClientInv, cpc = "args", at > Len(args)
  PROVE  Reads(args, config, OwnArguments(args))
<1>1. args \in CommandLines /\ at \in 1..(Len(args) + 2)
  BY DEF ClientInv, ClientTypeOK
<1>2. Len(args) \in Nat /\ OwnArguments(args) \subseteq 1..Len(args)
  BY <1>1, Lines, Owned
<1>3. {i \in OwnArguments(args) : i < at} = OwnArguments(args)
  BY <1>1, <1>2
<1> QED
  BY <1>3 DEF ClientInv, ReadSoFar

LEMMA RequestBuilt ==
  ASSUME StartInv, ClientInv, BuildRequest
  PROVE  ClientInv'
<1>1. /\ cpc = "args" /\ at > Len(args) /\ boot' = boot /\ db' = db /\ args' = args
      /\ at' = at /\ config' = config /\ raw_request' = raw_request
      /\ seen' = seen /\ slot' = slot /\ response_data' = response_data /\ shown' = shown
  BY DEF BuildRequest, startVars
<1>2. /\ ClientTypeOK /\ ConfigTypeOK /\ boot = "serving"
  BY <1>1 DEF ClientInv, ClientTypeOK, Served
<1>3. ConfigTypeOK' /\ Served' /\ Unread'
  <2>1. cpc' \in {"connect", "exit1"}
    BY DEF BuildRequest
  <2> QED
    BY <1>1, <1>2, <2>1 DEF ConfigTypeOK, Served, Unread
<1>4. CASE cpc' = "exit1"
  <2>1. request' = request /\ clock' = clock /\ left' = left
    BY <1>4 DEF BuildRequest
  <2>2. ClientTypeOK'
    BY <1>1, <1>2, <1>4, <2>1 DEF ClientTypeOK, ClientStates
  <2>3. /\ ReadSoFar' /\ CommandLineRead' /\ Built' /\ Sent' /\ Answered'
        /\ NothingShown' /\ ShownIsProduct'
    BY <1>1, <1>4 DEF ReadSoFar, CommandLineRead, Built, Sent, Answered, NothingShown,
                      ShownIsProduct
  <2> QED
    BY <1>3, <2>2, <2>3 DEF ClientInv
<1>5. CASE cpc' # "exit1"
  <2>1. /\ ~(Unwrap(config.product_index, 0) >= Len(db.skus))
        /\ \E cmid \in MachineIds, now \in ClientClocks :
                /\ request' = Request(db.skus[Chosen], cmid, now)
                /\ clock' = now /\ left' = config.n_requests /\ cpc' = "connect"
    BY <1>5 DEF BuildRequest, Chosen
  <2>2. PICK cmid \in MachineIds, now \in ClientClocks :
                /\ request' = Request(db.skus[Chosen], cmid, now)
                /\ clock' = now /\ left' = config.n_requests /\ cpc' = "connect"
    BY <2>1
  <2>3. Chosen <= Len(db.skus)
    <3>1. config.product_index \in SUBSET Nat /\ 0 \in Nat
      BY <1>2 DEF ConfigTypeOK
    <3>2. Unwrap(config.product_index, 0) \in Nat
      BY <3>1, Unwrapped
    <3>3. Len(db.skus) \in Nat
      <4>1. file \in Files /\ db = file.db
        BY <1>2 DEF StartInv, StartTypeOK, StartDatabase
      <4> QED
        BY <4>1, RowAssumption
    <3> QED
      BY <2>1, <3>2, <3>3 DEF Chosen
  <2>4. Built'
    <3>1. Chosen' = Chosen
      BY <1>1, SameRequest
    <3>2. Request(db.skus[Chosen], cmid, clock)' = Request(db.skus[Chosen], cmid, now)
      BY <1>1, <2>2, <3>1 DEF Request
    <3> QED
      BY <1>1, <2>2, <2>3, <3>1, <3>2 DEF Built
  <2>5. ClientTypeOK'
    BY <1>1, <1>2, <2>2 DEF ClientTypeOK, ClientStates, ConfigTypeOK
  <2>6. CommandLineRead'
    <3>1. Reads(args, config, OwnArguments(args))
      BY <1>1, AllRead
    <3> QED
      BY <1>1, <3>1 DEF CommandLineRead, Meant, Reads
  <2>7. NothingShown'
    BY <1>1 DEF ClientInv, NothingShown
  <2>8. ReadSoFar' /\ Sent' /\ Answered' /\ ShownIsProduct'
    BY <2>2 DEF ReadSoFar, Sent, Answered, ShownIsProduct
  <2> QED
    BY <1>3, <2>4, <2>5, <2>6, <2>7, <2>8 DEF ClientInv
<1> QED
  BY <1>4, <1>5

LEMMA Connected ==
  ASSUME ClientInv, Connect
  PROVE  ClientInv'
<1>1. /\ cpc = "connect" /\ cpc' \in {"send", "exit1"} /\ UNCHANGED startVars
      /\ args' = args /\ at' = at /\ config' = config /\ left' = left
      /\ clock' = clock /\ request' = request /\ raw_request' = raw_request
      /\ seen' = seen /\ slot' = slot /\ response_data' = response_data /\ shown' = shown
  BY DEF Connect
<1>2. ConfigTypeOK' /\ Served' /\ Unread' /\ ReadSoFar' /\ CommandLineRead' /\ Built'
  BY <1>1, Steady
<1>3. ClientTypeOK'
  BY <1>1 DEF ClientInv, ClientTypeOK, ClientStates
<1>4. shown' = <<>>
  BY <1>1 DEF ClientInv, NothingShown
<1>5. Sent' /\ Answered' /\ NothingShown' /\ ShownIsProduct'
  BY <1>1, <1>4 DEF Sent, Answered, NothingShown, ShownIsProduct
<1> QED
  BY <1>2, <1>3, <1>5 DEF ClientInv

LEMMA RequestSent ==
  ASSUME MacIsBytes, StartInv, ClientInv, SendRequest
  PROVE  ClientInv'
<1>1. /\ cpc = "send" /\ left > 0 /\ left' = left - 1 /\ cpc' = "answer" /\ UNCHANGED startVars
      /\ args' = args /\ at' = at /\ config' = config
      /\ clock' = clock /\ request' = request
      /\ seen' = seen /\ slot' = slot /\ response_data' = response_data /\ shown' = shown
  BY DEF SendRequest
<1>2. ConfigTypeOK' /\ Served' /\ Unread' /\ ReadSoFar' /\ CommandLineRead' /\ Built'
  BY <1>1, Steady
<1>3. Sealed(raw_request', RequestToBytes(request))
  BY DEF SendRequest, Sealed
<1>4. raw_request' \in Bytes
  <2>1. request \in Requests
    BY <1>1, KnownRequest DEF Asks
  <2> QED
    BY <1>3, <2>1, RequestBytes, Opened
<1>5. ClientTypeOK'
  <2>1. left' \in Nat
    BY <1>1 DEF ClientInv, ClientTypeOK
  <2> QED
    BY <1>1, <1>4, <2>1 DEF ClientInv, ClientTypeOK, ClientStates
<1>6. Sent' /\ Answered' /\ NothingShown' /\ ShownIsProduct'
  BY <1>1, <1>3 DEF Sent, Answered, NothingShown, ShownIsProduct
<1> QED
  BY <1>2, <1>5, <1>6 DEF ClientInv

\* The server reads the request as it was built.
LEMMA SeenIsRequest ==
  ASSUME MacIsBytes, StartInv, ClientInv, Answer
  PROVE  seen' = request
<1>1. request \in Requests /\ Sealed(raw_request, RequestToBytes(request))
  BY KnownRequest DEF Asks, ClientInv, Sent, Answer
<1>2. PICK rest \in Bytes : raw_request = RequestToBytes(request) \o rest
  BY <1>1, RequestBytes, Opened
<1>3. RequestFromBytes(raw_request) = request
  BY <1>1, <1>2, RequestRoundTrip
<1> QED
  BY <1>3 DEF Answer

LEMMA SlotType ==
  ASSUME NEW now \in ClientClocks
  PROVE  /\ TimeSlot(FromUnixSecs(now)) = (Ticks(now) \div TimeC1) * TimeC2 + TimeC3
         /\ TimeSlot(FromUnixSecs(now)) \in 0..(Word - 1)
<1>1. /\ now \in Nat /\ Ticks(now) \in Nat /\ Ticks(now) <= LastTick /\ Ticks(now) < Word
  BY ClockFits
<1>2. /\ FromUnixSecs(now) \in [low : 0..(Half - 1), high : 0..(Half - 1)]
      /\ AsU64(FromUnixSecs(now)) = Ticks(now)
  BY <1>1, UnixTicks DEF Ticks
<1>3. TimeSlot(FromUnixSecs(now)) = (Ticks(now) \div TimeC1) * TimeC2 + TimeC3
  BY <1>1, <1>2, SlotFits
<1>4. TimeSlot(FromUnixSecs(now)) = ((Ticks(now) \div TimeC1) * TimeC2 + TimeC3) % Word
  BY <1>2 DEF TimeSlot
<1>5. (Ticks(now) \div TimeC1) * TimeC2 + TimeC3 \in Nat
  <2>1. Ticks(now) \div TimeC1 \in Nat /\ TimeC2 \in Nat /\ TimeC3 \in Nat
    BY <1>1, Division, TimeAssumption
  <2> QED
    BY <2>1
<1>6. Word \in Nat /\ Word > 0
  BY TimeAssumption DEF Word
<1> QED
  BY <1>3, <1>4, <1>5, <1>6, RemainderIn

LEMMA AnswerGiven ==
  ASSUME MacIsBytes, StartInv, ClientInv, Answer
  PROVE  ClientInv'
<1>1. /\ cpc = "answer" /\ cpc' = "show" /\ UNCHANGED startVars /\ db' = db
      /\ args' = args /\ at' = at /\ config' = config /\ left' = left
      /\ clock' = clock /\ request' = request /\ raw_request' = raw_request
      /\ shown' = shown
  BY DEF Answer, startVars
<1>2. ConfigTypeOK' /\ Served' /\ Unread' /\ ReadSoFar' /\ CommandLineRead' /\ Built'
  BY <1>1, Steady
<1>3. seen' = request
  BY SeenIsRequest
<1>4. /\ file \in Files /\ db = file.db /\ Chosen \in 1..Len(db.skus)
      /\ Asks(request, Chosen) /\ clock \in ClientClocks
      /\ [low |-> request.time_low, high |-> request.time_high] = FromUnixSecs(clock)
  BY <1>1, KnownRequest
<1> DEFINE wire == ResponseToWire(Response(request))
<1>5. Sealed(response_data', wire)
  BY <1>3 DEF Answer, Sealed
<1>6. slot' = IF request.major_ver > 5
              THEN TimeSlot([low |-> request.time_low, high |-> request.time_high]) ELSE 0
  BY <1>3 DEF Answer
<1>7. wire \in Bytes
  <2>1. PICK resp : resp = Response(request)
    OBVIOUS
  <2>2. resp \in Responses /\ U16 * Len(resp.pid) \in Values(U32)
    <3> HIDE DEF Chosen
    <3> QED
      BY <1>4, <2>1, ResponseOf
  <2> QED
    BY <2>1, <2>2, EmptyBytes, ResponseRoundTrip
<1>8. response_data' \in Bytes
  <2> HIDE DEF wire
  <2> QED
    BY <1>5, <1>7, Opened
<1>9. slot' \in 0..(Word - 1)
  <2>1. Word \in Nat /\ Word > 0
    BY TimeAssumption DEF Word
  <2> QED
    BY <1>4, <1>6, <2>1, SlotType
<1>10. ClientTypeOK'
  BY <1>1, <1>8, <1>9 DEF ClientInv, ClientTypeOK, ClientStates
<1>11. Answered'
  <2>1. Response(seen)' = Response(request)
    BY <1>1, <1>3 DEF Response, EpidIndex
  <2>2. ResponseToWire(Response(seen))' = wire
    BY <2>1 DEF ResponseToWire
  <2>3. Sealed(response_data, ResponseToWire(Response(seen)))'
    BY <1>5, <2>2 DEF Sealed
  <2> QED
    BY <1>1, <1>3, <1>6, <2>3 DEF Answered
<1>12. Sent' /\ NothingShown' /\ ShownIsProduct'
  BY <1>1 DEF Sent, NothingShown, ShownIsProduct
<1> QED
  BY <1>2, <1>10, <1>11, <1>12 DEF ClientInv

LEMMA Divided ==
  ASSUME NEW a \in Nat \ {0}, NEW n \in Nat
  PROVE  (a * n) \div a = n
<1>1. n * a = a * n /\ a * n \in Nat
  OBVIOUS
<1>2. PICK q \in Nat, r \in 0..(a - 1) : q = (a * n) \div a /\ a * n = q * a + r
  <2>1. PICK v \in Nat : v = a * n
    BY <1>1
  <2> QED
    BY <2>1, Division
<1>3. n = q
  <2>1. CASE q >= n + 1
    <3>1. PICK k \in Nat : q = n + 1 + k
      <4>1. q - n - 1 \in Nat /\ q = n + 1 + (q - n - 1)
        BY <2>1
      <4> QED
        BY <4>1
    <3>2. q * a = n * a + a + k * a /\ k * a \in Nat
      BY <3>1
    <3> QED
      BY <1>1, <1>2, <3>2
  <2>2. CASE n >= q + 1
    <3>1. PICK k \in Nat : n = q + 1 + k
      <4>1. n - q - 1 \in Nat /\ n = q + 1 + (n - q - 1)
        BY <2>2
      <4> QED
        BY <4>1
    <3>2. n * a = q * a + a + k * a /\ k * a \in Nat
      BY <3>1
    <3> QED
      BY <1>1, <1>2, <3>2
  <2> QED
    BY <2>1, <2>2
<1> QED
  BY <1>2, <1>3

LEMMA AnswerShown ==
  ASSUME MacIsBytes, StartInv, ClientInv, Show
  PROVE  ClientInv'
<1>1. /\ cpc = "show" /\ cpc' = "send" /\ UNCHANGED startVars /\ db' = db
      /\ args' = args /\ at' = at /\ config' = config /\ left' = left
      /\ clock' = clock /\ request' = request /\ raw_request' = raw_request
      /\ seen' = seen /\ slot' = slot /\ response_data' = response_data
  BY DEF Show, startVars
<1>2. ConfigTypeOK' /\ Served' /\ Unread' /\ ReadSoFar' /\ CommandLineRead' /\ Built'
  BY <1>1, Steady
<1>3. ClientTypeOK'
  BY <1>1 DEF ClientInv, ClientTypeOK, ClientStates
<1>4. Sent' /\ Answered' /\ NothingShown'
  BY <1>1 DEF Sent, Answered, NothingShown
<1>5. /\ file \in Files /\ db = file.db /\ Chosen \in 1..Len(db.skus)
      /\ Asks(request, Chosen)
  BY <1>1, KnownRequest
<1>6. PICK resp : resp = Response(request)
  OBVIOUS
<1>7. /\ resp \in Responses
      /\ EpidOf(Chosen) \in Seq(Values(U16) \ {0})
      /\ resp.pid = PidUnits(EpidOf(Chosen))
      /\ U16 * Len(resp.pid) \in Values(U32)
      /\ resp.cmid = request.cmid /\ resp.vl_renewal_interval = RenewalInterval
      /\ resp.count \in Nat /\ resp.count >= 2 * request.n_policy /\ resp.count > 0
  <2> HIDE DEF Chosen
  <2> QED
    BY <1>5, <1>6, ResponseOf
<1>8. Sealed(response_data, ResponseToWire(resp))
  BY <1>1, <1>6 DEF ClientInv, Answered
<1>9. PICK rest \in Bytes : response_data = ResponseToWire(resp) \o rest
  <2>1. ResponseToWire(resp) \in Bytes
    BY <1>7, EmptyBytes, ResponseRoundTrip
  <2> QED
    BY <1>8, <2>1, Opened
<1>10. /\ FromLe(SubSeq(response_data, 2 * U16 + 1, HeadSize)) = U16 * Len(resp.pid)
       /\ UnitsAt(response_data, HeadSize, Len(resp.pid)) = resp.pid
       /\ Decode(TailFields, response_data, HeadSize + U16 * Len(resp.pid))
            = [n \in TailNames |-> resp[n]]
  BY <1>7, <1>9, ResponseRoundTrip
<1>11. (U16 * Len(resp.pid)) \div U16 = Len(resp.pid)
  <2>1. Len(resp.pid) \in Nat
    BY <1>7 DEF Responses
  <2> QED
    BY <2>1, Divided, Sizable
<1>12. shown' = [epid |-> UpToNul(resp.pid), tail |-> [n \in TailNames |-> resp[n]]]
  BY <1>10, <1>11 DEF Show, HeadSize
<1>13. UpToNul(resp.pid) = UpTo(EpidOf(Chosen), PidLength)
  BY <1>7, PidRead
<1>14. /\ shown'.epid = UpTo(EpidOf(Chosen), PidLength)
       /\ shown'.tail.count = resp.count /\ shown'.tail.cmid = resp.cmid
       /\ shown'.tail.vl_renewal_interval = resp.vl_renewal_interval
  BY <1>12, <1>13 DEF TailNames
<1>15. ShownIsProduct'
  <2>1. Chosen' = Chosen /\ EpidOf(Chosen)' = EpidOf(Chosen)
    BY <1>1 DEF Chosen, EpidOf
  <2>2. /\ shown'.epid = UpTo(EpidOf(Chosen), PidLength)'
        /\ shown'.tail.count >= 2 * request'.n_policy /\ shown'.tail.count > 0
        /\ shown'.tail.cmid = request'.cmid
        /\ shown'.tail.vl_renewal_interval = RenewalInterval
    BY <1>1, <1>7, <1>14, <2>1
  <2> QED
    BY <2>2 DEF ShownIsProduct, EpidOf, Chosen
<1> QED
  BY <1>2, <1>3, <1>4, <1>15 DEF ClientInv

LEMMA ClientEnds ==
  ASSUME ClientInv, Exit
  PROVE  ClientInv'
<1>1. /\ cpc = "send" /\ cpc' = "exit0" /\ UNCHANGED startVars
      /\ args' = args /\ at' = at /\ config' = config /\ left' = left
      /\ clock' = clock /\ request' = request /\ raw_request' = raw_request
      /\ seen' = seen /\ slot' = slot /\ response_data' = response_data /\ shown' = shown
  BY DEF Exit
<1>2. ConfigTypeOK' /\ Served' /\ Unread' /\ ReadSoFar' /\ CommandLineRead' /\ Built'
  BY <1>1, Steady
<1>3. ClientTypeOK'
  BY <1>1 DEF ClientInv, ClientTypeOK, ClientStates
<1>4. Sent' /\ Answered' /\ NothingShown' /\ ShownIsProduct'
  BY <1>1 DEF Sent, Answered, NothingShown, ShownIsProduct
<1> QED
  BY <1>2, <1>3, <1>4 DEF ClientInv

LEMMA ClientRests ==
  ASSUME ClientInv, UNCHANGED vars
  PROVE  ClientInv'
<1>1. /\ boot' = boot /\ db' = db
      /\ args' = args /\ at' = at /\ config' = config /\ cpc' = cpc /\ left' = left
      /\ clock' = clock /\ request' = request /\ raw_request' = raw_request
      /\ seen' = seen /\ slot' = slot /\ response_data' = response_data /\ shown' = shown
  BY DEF vars, startVars, clientVars
<1>2. /\ ClientTypeOK' /\ ConfigTypeOK' /\ Served' /\ Unread'
      /\ ReadSoFar' /\ Sent' /\ NothingShown'
  BY <1>1 DEF ClientInv, ClientTypeOK, ConfigTypeOK, Served, Unread, ReadSoFar, Sent,
              NothingShown
<1>3. CommandLineRead'
  BY <1>1 DEF ClientInv, CommandLineRead, Meant
<1>4. Built'
  BY <1>1 DEF ClientInv, Built, Chosen, Request
<1>5. Answered'
  <2>1. Response(seen)' = Response(seen)
    BY <1>1 DEF Response, EpidIndex
  <2>2. ResponseToWire(Response(seen))' = ResponseToWire(Response(seen))
    BY <2>1 DEF ResponseToWire
  <2> QED
    BY <1>1, <2>2 DEF ClientInv, Answered, Sealed
<1>6. ShownIsProduct'
  BY <1>1 DEF ClientInv, ShownIsProduct
<1> QED
  BY <1>2, <1>3, <1>4, <1>5, <1>6 DEF ClientInv

-----------------------------------------------------------------------------
(* What always holds. *)

LEMMA ClientAlways == ASSUME MacIsBytes PROVE Spec => [](StartInv /\ ClientInv)
<1>1. Init => ClientInv
  BY ClientBegins
<1>2. StartInv /\ ClientInv /\ [Next]_vars => ClientInv'
  <2> SUFFICES ASSUME StartInv, ClientInv, [Next]_vars PROVE ClientInv'
    OBVIOUS
  <2>1. CASE Start /\ UNCHANGED clientVars
    BY <2>1, BesideStart
  <2>2. CASE Client
    BY <2>2, ClientStarts, ArgParsed, RequestBuilt, Connected, RequestSent, AnswerGiven,
       AnswerShown, ClientEnds DEF Client
  <2>3. CASE Finished \/ UNCHANGED vars
    BY <2>3, ClientRests DEF Finished
  <2> QED
    BY <2>1, <2>2, <2>3 DEF Next
<1> QED
  BY <1>1, <1>2, StartAlways, PTL DEF Spec

\* The client's state has its types, in every run of every command line: among them,
\* its loop never reads behind the arguments by more than a value, and both messages
\* are bytes.
THEOREM ActivationTypes == ASSUME MacIsBytes PROVE Spec => []TypeOK
<1>1. StartInv /\ ClientInv => TypeOK
  BY DEF StartInv, ClientInv, ClientTypeOK, TypeOK
<1> QED
  BY <1>1, ClientAlways, PTL

\* Request::from_le_bytes on the server gives back the request that build_request
\* made, whatever MAC create_request_v4 put behind its bytes.
THEOREM RequestsArrive == ASSUME MacIsBytes PROVE Spec => []RequestArrives
<1>1. ClientInv => RequestArrives
  BY DEF ClientInv, Answered, RequestArrives
<1> QED
  BY <1>1, ClientAlways, PTL

\* When parse_args returns, the configuration is what the command line means, for
\* every sequence of arguments: no value is taken for an option and none is lost.
THEOREM CommandLinesAreRead == ASSUME MacIsBytes PROVE Spec => []CommandLineRead
<1>1. ClientInv => CommandLineRead
  BY DEF ClientInv
<1> QED
  BY <1>1, ClientAlways, PTL

\* parse_and_display_response prints the ePID of the CSVLK behind the chosen product,
\* cut to a PID buffer, with a count that activates it, for every database whose rows
\* refer to each other.
THEOREM ProductsAreShown == ASSUME MacIsBytes PROVE Spec => []ShownIsProduct
<1>1. ClientInv => ShownIsProduct
  BY DEF ClientInv
<1> QED
  BY <1>1, ClientAlways, PTL

\* The server reads the second in which the client built its request, and computes
\* the time slot of the V6 answer's MAC from it without overflow.
THEOREM TimesArrive == ASSUME MacIsBytes PROVE Spec => []TimeArrives
<1>1. StartInv /\ ClientInv => TimeArrives
  <2> SUFFICES ASSUME StartInv, ClientInv, cpc = "show"
               PROVE  LET ft == [low |-> seen.time_low, high |-> seen.time_high]
                      IN  /\ ToUnixSecs(ft) = clock
                          /\ seen.major_ver > 5 =>
                               slot = ((clock * TicksPerSec + EpochDiff) \div TimeC1) * TimeC2 + TimeC3
    BY DEF TimeArrives
  <2>1. /\ clock \in ClientClocks
        /\ [low |-> request.time_low, high |-> request.time_high] = FromUnixSecs(clock)
    BY KnownRequest
  <2>2. /\ seen = request
        /\ slot = IF seen.major_ver > 5
              THEN TimeSlot([low |-> seen.time_low, high |-> seen.time_high]) ELSE 0
    BY DEF ClientInv, Answered
  <2>3. ToUnixSecs(FromUnixSecs(clock)) = clock
    BY <2>1, ClockFits, UnixRoundTrip DEF Ticks
  <2>4. TimeSlot(FromUnixSecs(clock)) =
          ((clock * TicksPerSec + EpochDiff) \div TimeC1) * TimeC2 + TimeC3
    BY <2>1, SlotType DEF Ticks
  <2> QED
    BY <2>1, <2>2, <2>3, <2>4
<1> QED
  BY <1>1, ClientAlways, PTL
=============================================================================
