--------------------------- MODULE SettingsProofs ---------------------------
(***************************************************************************)
(* Proofs about Settings for every environment, directory, certificate and *)
(* order in which os.Environ() gives its entries.                          *)
(*                                                                         *)
(* The properties speak of the environment and the code of its pointers.   *)
(* The invariant relates the two: a key that a loop has passed has the     *)
(* pointer that the environment says, and no pointer has anything else.    *)
(*                                                                         *)
(* What the recursive definitions of Settings compute, for every input, is *)
(* by induction over the natural numbers, which is stated here for sets.   *)
(***************************************************************************)
EXTENDS Settings, TLAPS, WellFoundedInduction, FiniteSetTheorems

-----------------------------------------------------------------------------
(* Recursion.                                                              *)

\* Induction over the natural numbers, for a set of them.
LEMMA SetInduction ==
  ASSUME NEW S, 0 \in S, \A n \in Nat : n \in S => n + 1 \in S
  PROVE  \A n \in Nat : n \in S
<1> DEFINE R == OpToRel(<, Nat)
           T == Nat \ S
<1>1. SUFFICES ASSUME T # {} PROVE FALSE
  OBVIOUS
<1>2. IsWellFoundedOn(R, Nat)
  BY NatLessThanWellFounded
<1>3. \A x, y \in Nat : x < y => <<x, y>> \in R
  BY DEF OpToRel
<1> HIDE DEF R
<1>4. PICK x \in T : \A y \in T : ~ (<<y, x>> \in R)
  BY <1>1, <1>2, WFMin
<1>5. x # 0 /\ x \in Nat /\ x - 1 \in Nat /\ x - 1 < x
  BY <1>4
<1>6. x - 1 \in S
  BY <1>3, <1>4, <1>5
<1>7. (x - 1) + 1 = x
  BY <1>5
<1>8. x \in S
  BY <1>5, <1>6, <1>7
<1> QED
  BY <1>4, <1>8

\* f is base at 0, and from there on what H makes of the value before.
Recurs(f, base, H) ==
  f[0] = base /\ \A n \in Nat \ {0} : f[n] = H[<<n, f[n - 1]>>]

\* f follows H from base, as far as n.
Follows(f, n, D, base, H) ==
  /\ f \in [0..n -> D] /\ f[0] = base
  /\ \A i \in 1..n : f[i] = H[<<i, f[i - 1]>>]

\* A function defined by recursion on a natural number exists.
LEMMA RecursionExists ==
  ASSUME NEW D, NEW base \in D, NEW H \in [Nat \X D -> D]
  PROVE  \E f \in [Nat -> D] : Recurs(f, base, H)
<1> DEFINE Upto(n) == {g \in [0..n -> D] : Follows(g, n, D, base, H)}
           Defined == {n \in Nat : Upto(n) # {}}
           Agreed == {k \in Nat : \A m, n \in Nat :
                        k <= m /\ k <= n =>
                          \A g \in Upto(m), h \in Upto(n) : g[k] = h[k]}
<1>1. \A n \in Nat : n \in Defined
  <2>1. 0 \in Defined
    <3>1. [i \in 0..0 |-> base] \in Upto(0)
      BY DEF Follows
    <3> QED BY <3>1
  <2>2. ASSUME NEW n \in Nat, n \in Defined PROVE n + 1 \in Defined
    <3>1. PICK g \in [0..n -> D] : Follows(g, n, D, base, H)
      BY <2>2
    <3> DEFINE x == H[<<n + 1, g[n]>>]
               h == [i \in 0..(n + 1) |-> IF i = n + 1 THEN x ELSE g[i]]
    <3>2. x \in D
      BY n \in 0..n, n + 1 \in Nat
    <3> HIDE DEF x
    <3>3. h \in [0..(n + 1) -> D]
      BY <3>2
    <3>4. h[0] = base
      BY <3>1 DEF Follows
    <3>5. ASSUME NEW i \in 1..(n + 1) PROVE h[i] = H[<<i, h[i - 1]>>]
      <4>1. CASE i = n + 1
        <5>1. h[i] = x /\ h[i - 1] = g[n]
          BY <4>1, i - 1 = n
        <5> QED BY <4>1, <5>1 DEF x
      <4>2. CASE i \in 1..n
        <5>1. i \in 1..n /\ i - 1 \in 0..n /\ i \in 0..n /\ i # n + 1 /\ i - 1 # n + 1
          BY <4>2
        <5>2. h[i] = g[i] /\ h[i - 1] = g[i - 1]
          BY <5>1, i \in 0..(n + 1), i - 1 \in 0..(n + 1)
        <5> HIDE DEF h
        <5> QED BY <3>1, <5>1, <5>2 DEF Follows
      <4> QED BY <4>1, <4>2
    <3> HIDE DEF h
    <3>6. h \in Upto(n + 1)
      BY <3>3, <3>4, <3>5 DEF Follows
    <3> QED BY <3>6
  <2> HIDE DEF Defined
  <2> QED BY <2>1, <2>2, SetInduction
<1>2. \A k \in Nat : k \in Agreed
  <2>1. 0 \in Agreed
    BY DEF Follows
  <2>2. ASSUME NEW k \in Nat, k \in Agreed PROVE k + 1 \in Agreed
    <3>1. SUFFICES ASSUME NEW m \in Nat, NEW n \in Nat, k + 1 <= m, k + 1 <= n,
                          NEW g \in Upto(m), NEW h \in Upto(n)
                   PROVE  g[k + 1] = h[k + 1]
      OBVIOUS
    <3>2. g[k] = h[k]
      <4>1. k <= m /\ k <= n
        BY <3>1
      <4> HIDE DEF Upto
      <4> QED BY <2>2, <4>1
    <3>3. /\ k + 1 \in 1..m /\ k + 1 \in 1..n /\ (k + 1) - 1 = k
      BY <3>1
    <3>4. g[k + 1] = H[<<k + 1, g[k]>>] /\ h[k + 1] = H[<<k + 1, h[k]>>]
      <4>1. Follows(g, m, D, base, H) /\ Follows(h, n, D, base, H)
        OBVIOUS
      <4> QED BY <4>1, <3>3 DEF Follows
    <3> HIDE DEF Upto
    <3> QED BY <3>2, <3>4
  <2> HIDE DEF Agreed
  <2> QED BY <2>1, <2>2, SetInduction
<1> DEFINE a == [n \in Nat |-> CHOOSE g \in Upto(n) : TRUE]
           f == [n \in Nat |-> a[n][n]]
<1>3. \A n \in Nat : a[n] \in Upto(n)
  <2> TAKE n \in Nat
  <2>1. \E g \in Upto(n) : TRUE
    BY <1>1
  <2> HIDE DEF Upto
  <2> QED BY <2>1
<1> HIDE DEF a
<1>4. \A n \in Nat : f[n] \in D
  <2> TAKE n \in Nat
  <2>1. a[n] \in [0..n -> D] /\ n \in 0..n
    BY <1>3
  <2> QED BY <2>1
<1>5. f[0] = base
  BY <1>3 DEF Follows
<1>6. ASSUME NEW n \in Nat \ {0} PROVE f[n] = H[<<n, f[n - 1]>>]
  <2>1. n - 1 \in Nat /\ n - 1 <= n /\ n - 1 <= n - 1 /\ n \in 1..n
    OBVIOUS
  <2>2. a[n] \in Upto(n) /\ a[n - 1] \in Upto(n - 1)
    BY <1>3, <2>1
  <2>3. a[n][n] = H[<<n, a[n][n - 1]>>]
    BY <2>1, <2>2 DEF Follows
  <2>4. a[n][n - 1] = a[n - 1][n - 1]
    <3>1. n - 1 \in Agreed
      BY <1>2, <2>1
    <3> QED BY <2>1, <2>2, <3>1
  <2> QED BY <2>1, <2>3, <2>4
<1> QED
  <2>1. f \in [Nat -> D]
    BY <1>4
  <2> HIDE DEF f
  <2> QED BY <2>1, <1>5, <1>6 DEF Recurs

-----------------------------------------------------------------------------
(* int64 and time.Duration.                                                *)

\* The number that eight columns stand for.
Value(c) ==
  c[0] + 256 * (c[1] + 256 * (c[2] + 256 * (c[3]
       + 256 * (c[4] + 256 * (c[5] + 256 * (c[6] + 256 * c[7]))))))

TwoTo64 == 18446744073709551616

\* Bytes are integers.
LEMMA WordColumns == ASSUME NEW w \in Word PROVE w \in [0..7 -> Int]
BY DEF Word

\* The carry of a column is that of the one below it and its own.
LEMMA TotalOf ==
  ASSUME NEW c \in [0..7 -> Int]
  PROVE  /\ Total(c) \in [0..7 -> Int]
         /\ Total(c)[0] = c[0]
         /\ \A i \in 1..7 : Total(c)[i] = c[i] + Total(c)[i - 1] \div 256
<1> DEFINE H == [p \in Nat \X Int |->
                   IF p[1] \in 1..7 THEN c[p[1]] + p[2] \div 256 ELSE 0]
           IsTotal(f) == f = [i \in 0..7 |->
                                c[i] + (IF i = 0 THEN 0 ELSE f[i - 1] \div 256)]
<1>1. H \in [Nat \X Int -> Int]
  <2>1. \A x \in Int : x \div 256 \in Int
    OBVIOUS
  <2> QED BY <2>1
<1>2. c[0] \in Int
  OBVIOUS
<1>3. PICK f \in [Nat -> Int] : Recurs(f, c[0], H)
  <2> HIDE DEF H
  <2> QED BY <1>1, <1>2, RecursionExists
<1> DEFINE t == [i \in 0..7 |-> f[i]]
<1>4. t[0] = c[0] /\ t \in [0..7 -> Int]
  BY <1>3 DEF Recurs
<1>5. \A i \in 1..7 : t[i] = c[i] + t[i - 1] \div 256
  <2> TAKE i \in 1..7
  <2>1. f[i] = H[<<i, f[i - 1]>>] /\ f[i - 1] \in Int /\ i - 1 \in 0..7
    <3> HIDE DEF H
    <3> QED BY <1>3 DEF Recurs
  <2>2. H[<<i, f[i - 1]>>] = c[i] + f[i - 1] \div 256
    BY <2>1
  <2> HIDE DEF H
  <2> QED BY <2>1, <2>2
<1>6. IsTotal(t)
  <2>1. \A i \in 0..7 : t[i] = c[i] + (IF i = 0 THEN 0 ELSE t[i - 1] \div 256)
    <3> TAKE i \in 0..7
    <3> HIDE DEF t
    <3>1. CASE i = 0
      BY <1>4, <3>1, <1>2
    <3>2. CASE i \in 1..7
      BY <1>5, <3>2
    <3> QED BY <3>1, <3>2
  <2>2. t = [i \in 0..7 |-> t[i]]
    OBVIOUS
  <2> HIDE DEF t
  <2> QED BY <2>1, <2>2
<1>7. Total(c) = CHOOSE g : IsTotal(g)
  BY DEF Total
<1> HIDE DEF IsTotal, t
<1>8. IsTotal(Total(c))
  BY <1>6, <1>7
<1> DEFINE u == Total(c)
<1>9. u = [i \in 0..7 |-> c[i] + (IF i = 0 THEN 0 ELSE u[i - 1] \div 256)]
  BY <1>8 DEF IsTotal
<1> HIDE DEF u
<1>10. u[0] = c[0] /\ \A i \in 1..7 : u[i] = c[i] + u[i - 1] \div 256
  BY <1>2, <1>9
<1>11. \A i \in 0..7 : u[i] \in Int
  <2>1. \A i \in 1..7 : u[i - 1] \in Int => u[i] \in Int
    BY <1>10
  <2>2. u[0] \in Int /\ u[1] \in Int /\ u[2] \in Int /\ u[3] \in Int
    BY <1>2, <1>10, <2>1
  <2>3. u[4] \in Int /\ u[5] \in Int /\ u[6] \in Int /\ u[7] \in Int
    BY <2>1, <2>2
  <2> QED BY <2>2, <2>3
<1>12. u \in [0..7 -> Int]
  BY <1>9, <1>11
<1> QED
  BY <1>10, <1>12 DEF u

\* What goes over from a column is what the next one gets.
LEMMA Telescope ==
  ASSUME NEW c, NEW v \in [0..7 -> Int], NEW w \in [0..7 -> Int],
         /\ c[0] = 256 * v[0] + w[0]
         /\ c[1] = 256 * v[1] + w[1] - v[0] /\ c[2] = 256 * v[2] + w[2] - v[1]
         /\ c[3] = 256 * v[3] + w[3] - v[2] /\ c[4] = 256 * v[4] + w[4] - v[3]
         /\ c[5] = 256 * v[5] + w[5] - v[4] /\ c[6] = 256 * v[6] + w[6] - v[5]
         /\ c[7] = 256 * v[7] + w[7] - v[6]
  PROVE  Value(c) = Value(w) + TwoTo64 * v[7]
<1> DEFINE sum == (256 * v[0] + w[0]) + 256 * ((256 * v[1] + w[1] - v[0])
             + 256 * ((256 * v[2] + w[2] - v[1]) + 256 * ((256 * v[3] + w[3] - v[2])
             + 256 * ((256 * v[4] + w[4] - v[3]) + 256 * ((256 * v[5] + w[5] - v[4])
             + 256 * ((256 * v[6] + w[6] - v[5]) + 256 * (256 * v[7] + w[7] - v[6])))))))
<1>1. Value(c) = sum
  BY DEF Value
<1>2. /\ v[0] \in Int /\ v[1] \in Int /\ v[2] \in Int /\ v[3] \in Int
      /\ v[4] \in Int /\ v[5] \in Int /\ v[6] \in Int /\ v[7] \in Int
  OBVIOUS
<1>3. /\ w[0] \in Int /\ w[1] \in Int /\ w[2] \in Int /\ w[3] \in Int
      /\ w[4] \in Int /\ w[5] \in Int /\ w[6] \in Int /\ w[7] \in Int
  OBVIOUS
<1>4. sum = Value(w) + TwoTo64 * v[7]
  BY <1>2, <1>3, SMT DEF Value, TwoTo64
<1> HIDE DEF sum
<1> QED
  BY <1>1, <1>4

\* What a carry does to a number is to take off a multiple of 2^64.
LEMMA CarryOf ==
  ASSUME NEW c \in [0..7 -> Int]
  PROVE  /\ Carry(c) \in Word
         /\ \E k \in Int : Value(c) = Value(Carry(c)) + TwoTo64 * k
<1> DEFINE t == Total(c)
           w == Carry(c)
<1>1. /\ t \in [0..7 -> Int] /\ t[0] = c[0]
      /\ \A i \in 1..7 : t[i] = c[i] + t[i - 1] \div 256
  BY TotalOf
<1> HIDE DEF t
<1>2. \A x \in Int : x % 256 \in 0..255 /\ x \div 256 \in Int
  OBVIOUS
<1>13. ASSUME NEW x \in Int PROVE x % 256 = x - 256 * (x \div 256)
  OBVIOUS
<1>3. \A i \in 0..7 : w[i] = t[i] % 256
  BY DEF Carry, t
<1>4. w \in Word
  <2>1. \A i \in 0..7 : t[i] % 256 \in 0..255
    <3> TAKE i \in 0..7
    <3>1. t[i] \in Int
      BY <1>1
    <3> QED BY <3>1, <1>2
  <2> QED BY <2>1 DEF Carry, Word, t
<1> HIDE DEF w
<1> DEFINE over == [i \in 0..7 |-> t[i] \div 256]
<1>5. \A i \in 0..7 : over[i] \in Int /\ t[i] = 256 * over[i] + w[i] /\ w[i] \in Int
  BY <1>1, <1>2, <1>3, <1>13
<1>6. \A i \in 1..7 : t[i] = c[i] + over[i - 1]
  BY <1>1
<1> HIDE DEF over
<1>7. /\ c[0] = 256 * over[0] + w[0]
      /\ c[1] = 256 * over[1] + w[1] - over[0] /\ c[2] = 256 * over[2] + w[2] - over[1]
      /\ c[3] = 256 * over[3] + w[3] - over[2] /\ c[4] = 256 * over[4] + w[4] - over[3]
      /\ c[5] = 256 * over[5] + w[5] - over[4] /\ c[6] = 256 * over[6] + w[6] - over[5]
      /\ c[7] = 256 * over[7] + w[7] - over[6]
  <2>1. \A i \in 1..7 : c[i] = 256 * over[i] + w[i] - over[i - 1]
    <3> TAKE i \in 1..7
    <3>1. /\ t[i] = 256 * over[i] + w[i] /\ t[i] = c[i] + over[i - 1]
          /\ over[i] \in Int /\ over[i - 1] \in Int /\ c[i] \in Int /\ w[i] \in Int
      BY <1>5, <1>6
    <3> QED BY <3>1
  <2>2. /\ c[1] = 256 * over[1] + w[1] - over[0] /\ c[2] = 256 * over[2] + w[2] - over[1]
        /\ c[3] = 256 * over[3] + w[3] - over[2] /\ c[4] = 256 * over[4] + w[4] - over[3]
    BY <2>1
  <2>3. /\ c[5] = 256 * over[5] + w[5] - over[4] /\ c[6] = 256 * over[6] + w[6] - over[5]
        /\ c[7] = 256 * over[7] + w[7] - over[6]
    BY <2>1
  <2> QED BY <1>1, <1>5, <2>2, <2>3
<1>8. Value(c) = Value(w) + TwoTo64 * over[7]
  <2>1. over \in [0..7 -> Int] /\ w \in [0..7 -> Int]
    BY <1>4, <1>5, WordColumns DEF over
  <2> QED BY <1>7, <2>1, Telescope
<1> QED
  BY <1>4, <1>5, <1>8 DEF w

\* The bytes of a word are those of one number below 2^64.
LEMMA ValueOfWord ==
  ASSUME NEW w \in Word
  PROVE  Value(w) \in Nat /\ Value(w) < TwoTo64
<1> DEFINE y6 == w[6] + 256 * w[7]
           y5 == w[5] + 256 * y6
           y4 == w[4] + 256 * y5
           y3 == w[3] + 256 * y4
           y2 == w[2] + 256 * y3
           y1 == w[1] + 256 * y2
           y0 == w[0] + 256 * y1
<1>1. \A i \in 0..7 : w[i] \in Nat /\ w[i] <= 255
  <2> TAKE i \in 0..7
  <2>1. w[i] \in 0..255
    BY DEF Word
  <2> QED BY <2>1
<1>2. y6 \in Nat /\ y6 < 65536
  <2>1. w[7] \in Nat /\ w[7] <= 255 /\ w[6] \in Nat /\ w[6] <= 255
    BY <1>1
  <2> QED BY <2>1
<1> HIDE DEF y6
<1>3. y5 \in Nat /\ y5 < 16777216
  <2>1. w[5] \in Nat /\ w[5] <= 255
    BY <1>1
  <2> QED BY <1>2, <2>1
<1> HIDE DEF y5
<1>4. y4 \in Nat /\ y4 < 4294967296
  <2>1. w[4] \in Nat /\ w[4] <= 255
    BY <1>1
  <2> QED BY <1>3, <2>1, SMT
<1> HIDE DEF y4
<1>5. y3 \in Nat /\ y3 < 1099511627776
  <2>1. w[3] \in Nat /\ w[3] <= 255
    BY <1>1
  <2> QED BY <1>4, <2>1, SMT
<1> HIDE DEF y3
<1>6. y2 \in Nat /\ y2 < 281474976710656
  <2>1. w[2] \in Nat /\ w[2] <= 255
    BY <1>1
  <2> QED BY <1>5, <2>1, SMT
<1> HIDE DEF y2
<1>7. y1 \in Nat /\ y1 < 72057594037927936
  <2>1. w[1] \in Nat /\ w[1] <= 255
    BY <1>1
  <2> QED BY <1>6, <2>1, SMT
<1> HIDE DEF y1
<1>8. y0 \in Nat /\ y0 < TwoTo64
  <2>1. w[0] \in Nat /\ w[0] <= 255
    BY <1>1
  <2> QED BY <1>7, <2>1, SMT DEF TwoTo64
<1> QED
  BY <1>8 DEF Value, y1, y2, y3, y4, y5, y6

\* The columns of a product are those of long multiplication, as far as the eighth.
LEMMA ColumnsAre ==
  ASSUME NEW a \in Word, NEW b \in Word
  PROVE  LET c == Columns(a, b)
         IN  /\ c \in [0..7 -> Int]
             /\ c[0] = a[0] * b[0]
             /\ c[1] = a[0] * b[1] + a[1] * b[0]
             /\ c[2] = a[0] * b[2] + a[1] * b[1] + a[2] * b[0]
             /\ c[3] = a[0] * b[3] + a[1] * b[2] + a[2] * b[1] + a[3] * b[0]
             /\ c[4] = a[0] * b[4] + a[1] * b[3] + a[2] * b[2] + a[3] * b[1] + a[4] * b[0]
             /\ c[5] = a[0] * b[5] + a[1] * b[4] + a[2] * b[3] + a[3] * b[2] + a[4] * b[1]
                        + a[5] * b[0]
             /\ c[6] = a[0] * b[6] + a[1] * b[5] + a[2] * b[4] + a[3] * b[3] + a[4] * b[2]
                        + a[5] * b[1] + a[6] * b[0]
             /\ c[7] = a[0] * b[7] + a[1] * b[6] + a[2] * b[5] + a[3] * b[4] + a[4] * b[3]
                        + a[5] * b[2] + a[6] * b[1] + a[7] * b[0]
<1> DEFINE c == Columns(a, b)
<1>1. \A i, j \in 0..7 : a[i] * b[j] \in Int
  <2>1. \A x, y \in 0..255 : x * y \in Int
    OBVIOUS
  <2> QED BY <2>1 DEF Word
<1>2. \A i \in 0..7 :
        c[i] = Column(a, b, i, 0) + Column(a, b, i, 1) + Column(a, b, i, 2)
               + Column(a, b, i, 3) + Column(a, b, i, 4) + Column(a, b, i, 5)
               + Column(a, b, i, 6) + Column(a, b, i, 7)
  BY DEF Columns
<1>3. \A i, j \in 0..7 : Column(a, b, i, j) = IF j <= i THEN a[j] * b[i - j] ELSE 0
  BY DEF Column
<1>4. \A i, j \in 0..7 : Column(a, b, i, j) \in Int
  <2> TAKE i, j \in 0..7
  <2>1. CASE j <= i
    <3>1. i - j \in 0..7
      BY <2>1
    <3> QED BY <1>1, <1>3, <2>1, <3>1
  <2> QED BY <1>3, <2>1
<1>5. c \in [0..7 -> Int]
  BY <1>4 DEF Columns
<1> HIDE DEF c
<1>6. c[0] = a[0] * b[0]
  BY <1>1, <1>2, <1>3
<1>7. c[1] = a[0] * b[1] + a[1] * b[0]
  BY <1>1, <1>2, <1>3
<1>8. c[2] = a[0] * b[2] + a[1] * b[1] + a[2] * b[0]
  BY <1>1, <1>2, <1>3
<1>9. c[3] = a[0] * b[3] + a[1] * b[2] + a[2] * b[1] + a[3] * b[0]
  BY <1>1, <1>2, <1>3
<1>10. c[4] = a[0] * b[4] + a[1] * b[3] + a[2] * b[2] + a[3] * b[1] + a[4] * b[0]
  BY <1>1, <1>2, <1>3
<1>11. c[5] = a[0] * b[5] + a[1] * b[4] + a[2] * b[3] + a[3] * b[2] + a[4] * b[1] + a[5] * b[0]
  BY <1>1, <1>2, <1>3
<1>12. c[6] = a[0] * b[6] + a[1] * b[5] + a[2] * b[4] + a[3] * b[3] + a[4] * b[2] + a[5] * b[1] + a[6] * b[0]
  BY <1>1, <1>2, <1>3
<1>13. c[7] = a[0] * b[7] + a[1] * b[6] + a[2] * b[5] + a[3] * b[4] + a[4] * b[3] + a[5] * b[2] + a[6] * b[1] + a[7] * b[0]
  BY <1>1, <1>2, <1>3
<1> QED
  BY <1>5, <1>6, <1>7, <1>8, <1>9, <1>10, <1>11, <1>12, <1>13 DEF c

\* The columns that are left out make a multiple of 2^64.
LEMMA LongMultiplication ==
  ASSUME NEW a \in Word, NEW b \in Word
  PROVE  \E k \in Int : Value(a) * Value(b) = Value(Columns(a, b)) + TwoTo64 * k
<1> DEFINE c == Columns(a, b)
           a0 == a[0]  a1 == a[1]  a2 == a[2]  a3 == a[3]
           a4 == a[4]  a5 == a[5]  a6 == a[6]  a7 == a[7]
           b0 == b[0]  b1 == b[1]  b2 == b[2]  b3 == b[3]
           b4 == b[4]  b5 == b[5]  b6 == b[6]  b7 == b[7]
           over == (a1 * b7 + a2 * b6 + a3 * b5 + a4 * b4 + a5 * b3 + a6 * b2 + a7 * b1)
             + 256 * ((a2 * b7 + a3 * b6 + a4 * b5 + a5 * b4 + a6 * b3 + a7 * b2)
             + 256 * ((a3 * b7 + a4 * b6 + a5 * b5 + a6 * b4 + a7 * b3)
             + 256 * ((a4 * b7 + a5 * b6 + a6 * b5 + a7 * b4)
             + 256 * ((a5 * b7 + a6 * b6 + a7 * b5)
             + 256 * ((a6 * b7 + a7 * b6) + 256 * (a7 * b7))))))
           va == a0 + 256 * (a1 + 256 * (a2 + 256 * (a3 + 256 * (a4 + 256 * (a5
                    + 256 * (a6 + 256 * a7))))))
           vb == b0 + 256 * (b1 + 256 * (b2 + 256 * (b3 + 256 * (b4 + 256 * (b5
                    + 256 * (b6 + 256 * b7))))))
           vc == a0 * b0
             + 256 * ((a0 * b1 + a1 * b0)
             + 256 * ((a0 * b2 + a1 * b1 + a2 * b0)
             + 256 * ((a0 * b3 + a1 * b2 + a2 * b1 + a3 * b0)
             + 256 * ((a0 * b4 + a1 * b3 + a2 * b2 + a3 * b1 + a4 * b0)
             + 256 * ((a0 * b5 + a1 * b4 + a2 * b3 + a3 * b2 + a4 * b1 + a5 * b0)
             + 256 * ((a0 * b6 + a1 * b5 + a2 * b4 + a3 * b3 + a4 * b2 + a5 * b1 + a6 * b0)
             + 256 * (a0 * b7 + a1 * b6 + a2 * b5 + a3 * b4 + a4 * b3 + a5 * b2 + a6 * b1
                      + a7 * b0)))))))
<1>1. Value(a) = va /\ Value(b) = vb
  BY DEF Value
<1>2. Value(c) = vc
  BY ColumnsAre DEF Value
<1>3. /\ a0 \in Int /\ a1 \in Int /\ a2 \in Int /\ a3 \in Int
      /\ a4 \in Int /\ a5 \in Int /\ a6 \in Int /\ a7 \in Int
      /\ b0 \in Int /\ b1 \in Int /\ b2 \in Int /\ b3 \in Int
      /\ b4 \in Int /\ b5 \in Int /\ b6 \in Int /\ b7 \in Int
  <2>1. a \in [0..7 -> Int] /\ b \in [0..7 -> Int]
    BY WordColumns
  <2> QED BY <2>1
<1> HIDE DEF a0, a1, a2, a3, a4, a5, a6, a7, b0, b1, b2, b3, b4, b5, b6, b7, c
<1>4. va * vb = vc + TwoTo64 * over
  BY <1>3, SMT DEF TwoTo64
<1>5. over \in Int
  BY <1>3
<1> HIDE DEF va, vb, vc, over
<1> QED
  BY <1>1, <1>2, <1>4, <1>5 DEF c

LEMMA ColumnsCommute ==
  ASSUME NEW a \in Word, NEW b \in Word
  PROVE  Columns(a, b) = Columns(b, a)
<1> DEFINE c == Columns(a, b)
           d == Columns(b, a)
<1>1. \A i, j \in 0..7 : a[i] * b[j] = b[j] * a[i] /\ a[i] * b[j] \in Int
  <2>1. \A x, y \in 0..255 : x * y = y * x /\ x * y \in Int
    OBVIOUS
  <2> QED BY <2>1 DEF Word
<1>2. c[0] = d[0] /\ c[1] = d[1] /\ c[2] = d[2] /\ c[3] = d[3]
  BY <1>1, ColumnsAre
<1>3. c[4] = d[4] /\ c[5] = d[5] /\ c[6] = d[6] /\ c[7] = d[7]
  BY <1>1, ColumnsAre
<1>4. c \in [0..7 -> Int] /\ d \in [0..7 -> Int]
  BY ColumnsAre
<1> HIDE DEF c, d
<1>5. c = d
  BY <1>2, <1>3, <1>4
<1> QED
  BY <1>5 DEF c, d

\* The bytes of a number.
LEMMA WordOfNumber ==
  ASSUME NEW n \in Int
  PROVE  /\ WordOf(n) \in Word
         /\ n \in Nat /\ n < TwoTo64 => Value(WordOf(n)) = n
<1> DEFINE c == [i \in 0..7 |-> IF i = 0 THEN n ELSE 0]
           w == WordOf(n)
<1>1. c \in [0..7 -> Int]
  OBVIOUS
<1>2. Value(c) = n
  BY DEF Value
<1>3. w = Carry(c)
  BY DEF WordOf
<1> HIDE DEF c, w
<1>4. w \in Word
  BY <1>1, <1>3, CarryOf
<1>5. PICK k \in Int : n = Value(w) + TwoTo64 * k
  BY <1>1, <1>2, <1>3, CarryOf
<1>6. Value(w) \in Nat /\ Value(w) < TwoTo64
  BY <1>4, ValueOfWord
<1>7. ASSUME n \in Nat, n < TwoTo64 PROVE Value(w) = n
  BY <1>5, <1>6, <1>7, SMT DEF TwoTo64
<1> QED
  BY <1>4, <1>7 DEF w

\* The product of two int64 is that of the numbers, modulo 2^64, and it does not
\* matter which is the first.
LEMMA TimesOf ==
  ASSUME NEW a \in Word, NEW b \in Word
  PROVE  /\ Times(a, b) \in Word
         /\ Times(a, b) = Times(b, a)
         /\ Value(Times(a, b)) = (Value(a) * Value(b)) % TwoTo64
<1> DEFINE c == Columns(a, b)
           w == Times(a, b)
           x == Value(a) * Value(b)
<1>1. c \in [0..7 -> Int] /\ w = Carry(c)
  BY ColumnsAre DEF Times
<1>2. w = Times(b, a)
  BY ColumnsCommute DEF Times
<1>3. PICK k \in Int : x = Value(c) + TwoTo64 * k
  BY LongMultiplication
<1> HIDE DEF c, w, x
<1>4. w \in Word
  BY <1>1, CarryOf
<1>5. PICK m \in Int : Value(c) = Value(w) + TwoTo64 * m
  BY <1>1, CarryOf
<1>6. Value(w) \in Nat /\ Value(w) < TwoTo64
  BY <1>4, ValueOfWord
<1>7. Value(w) = x % TwoTo64
  <2>1. x = Value(w) + TwoTo64 * (k + m)
    BY <1>3, <1>5, <1>6, SMT DEF TwoTo64
  <2>2. ASSUME NEW y \in Nat, y < TwoTo64, NEW z \in Int
        PROVE  (y + TwoTo64 * z) % TwoTo64 = y
    BY <2>2, SMT DEF TwoTo64
  <2>3. k + m \in Int
    OBVIOUS
  <2> QED BY <1>6, <2>1, <2>2, <2>3
<1> QED
  BY <1>2, <1>4, <1>7 DEF w, x

LEMMA SecondsTyped == Second \in Word /\ Hour \in Word
BY WordOfNumber, TimesOf DEF Second, Hour

LEMMA SecondIs == Value(Second) = 1000000000
<1>1. 1000000000 \in Nat /\ 1000000000 < TwoTo64
  BY SMT DEF TwoTo64
<1> QED
  BY <1>1, WordOfNumber, SMT DEF Second

\* A number of seconds in the environment is waited for as long as it says, up to
\* the 292 years that an int64 of nanoseconds can hold.
THEOREM SecondsDoNotWrap ==
  \A n \in Nat : n <= 9223372036
    => Value(Wait(Duration(WordOf(n)))) = n * 1000000000
<1> SUFFICES ASSUME NEW n \in Nat, n <= 9223372036
             PROVE  Value(Wait(Duration(WordOf(n)))) = n * 1000000000
  BY SMT
<1>1. n < TwoTo64
  BY SMT DEF TwoTo64
<1>2. WordOf(n) \in Word /\ Value(WordOf(n)) = n
  BY <1>1, WordOfNumber, SMT
<1>3. Value(Times(Second, WordOf(n))) = (1000000000 * n) % TwoTo64
  BY <1>2, SecondIs, SecondsTyped, TimesOf, SMT
<1>4. (1000000000 * n) % TwoTo64 = n * 1000000000
  BY SMT DEF TwoTo64
<1> QED
  BY <1>3, <1>4, SMT DEF Wait, Duration

\* "1 hour", which is what server.go:64 says of the default, is 91 years: 3600 times
\* 10^9 times 10^9 nanoseconds wrap 195 times.
THEOREM DefaultWaitIsNinetyOneYears == Value(Wait(Hour)) = 2884905626637434880
<1>1. WordOf(3600) \in Word /\ Value(WordOf(3600)) = 3600
  <2>1. 3600 \in Int /\ 3600 \in Nat /\ 3600 < TwoTo64
    BY SMT DEF TwoTo64
  <2> QED BY <2>1, WordOfNumber, SMT
<1>2. Value(Hour) = 3600000000000
  <2>1. (3600 * 1000000000) % TwoTo64 = 3600000000000
    BY SMT DEF TwoTo64
  <2> QED BY <1>1, <2>1, SecondIs, SecondsTyped, TimesOf, SMT DEF Hour
<1>3. (1000000000 * 3600000000000) % TwoTo64 = 2884905626637434880
  BY SMT DEF TwoTo64
<1>4. Value(Times(Second, Hour)) = (Value(Second) * Value(Hour)) % TwoTo64
  BY SecondsTyped, TimesOf
<1>5. Wait(Hour) = Times(Second, Hour)
  BY DEF Wait
<1> QED
  BY <1>2, <1>3, <1>4, <1>5, SecondIs, SMT

-----------------------------------------------------------------------------
(* Certificates.                                                           *)

\* Each step trusts the intermediates that the ones before have issued.
LEMMA TrustedOf ==
  ASSUME NEW rs \in SUBSET Cert, NEW is
  PROVE  /\ Trusted(rs, is)[0] = rs
         /\ \A n \in Nat : LET t == Trusted(rs, is)
                           IN  t[n + 1] = t[n] \cup (is \cap Issued(t[n]))
<1> DEFINE D == SUBSET Cert
           H == [p \in Nat \X D |-> p[2] \cup (is \cap Issued(p[2]))]
           IsTrusted(g) == g = [n \in Nat |->
             IF n = 0 THEN rs ELSE g[n - 1] \cup (is \cap Issued(g[n - 1]))]
<1>1. H \in [Nat \X D -> D]
  BY DEF Issued
<1>2. PICK f \in [Nat -> D] : Recurs(f, rs, H)
  <2>1. rs \in D
    OBVIOUS
  <2> HIDE DEF H, D
  <2> QED BY <1>1, <2>1, RecursionExists
<1>3. IsTrusted(f)
  <2>1. f[0] = rs
    BY <1>2 DEF Recurs
  <2>2. \A n \in Nat \ {0} : f[n] = f[n - 1] \cup (is \cap Issued(f[n - 1]))
    <3> TAKE n \in Nat \ {0}
    <3>1. n - 1 \in Nat /\ f[n - 1] \in D
      OBVIOUS
    <3>2. f[n] = H[<<n, f[n - 1]>>]
      <4> HIDE DEF H
      <4> QED BY <1>2 DEF Recurs
    <3>3. H[<<n, f[n - 1]>>] = f[n - 1] \cup (is \cap Issued(f[n - 1]))
      BY <3>1
    <3> QED BY <3>2, <3>3
  <2>3. \A n \in Nat : f[n] = IF n = 0 THEN rs ELSE f[n - 1] \cup (is \cap Issued(f[n - 1]))
    BY <2>1, <2>2
  <2>4. f = [n \in Nat |-> f[n]]
    OBVIOUS
  <2> QED BY <2>3, <2>4
<1>4. Trusted(rs, is) = CHOOSE g : IsTrusted(g)
  BY DEF Trusted
<1> HIDE DEF IsTrusted
<1>5. IsTrusted(Trusted(rs, is))
  BY <1>3, <1>4
<1> DEFINE t == Trusted(rs, is)
<1>6. t = [n \in Nat |-> IF n = 0 THEN rs ELSE t[n - 1] \cup (is \cap Issued(t[n - 1]))]
  BY <1>5 DEF IsTrusted
<1> HIDE DEF t
<1>7. t[0] = rs
  BY <1>6
<1>8. \A n \in Nat : t[n + 1] = t[n] \cup (is \cap Issued(t[n]))
  <2> TAKE n \in Nat
  <2>1. n + 1 \in Nat /\ n + 1 # 0 /\ (n + 1) - 1 = n
    OBVIOUS
  <2> QED BY <1>6, <2>1
<1> QED
  BY <1>7, <1>8 DEF t

\* The authorities in the directory of the environment, and those that issued themselves.
Directory == IF Says("TLS_CA_POOL") \in DOMAIN Pool
             THEN Pool[Says("TLS_CA_POOL")] \cap CA ELSE {}
Anchors == {c \in Directory : Issuer[c] = Subject[c]}
Rootless(S) ==
  /\ S \cap Anchors = {}
  /\ \A c \in S, p \in Directory : Issuer[c] = Subject[p] => p \in S

PoolsOK == roots \subseteq Anchors /\ intermediates \subseteq Directory

\* However many intermediates lie between, a certificate that verifies is in no set
\* without a root of the directory to which its issuers belong.
LEMMA VerifiedChains ==
  ASSUME PoolsOK, Directory \subseteq Cert, NEW S, Rootless(S), NEW c \in S
  PROVE  ~Verifies(c)
<1> DEFINE t == Trusted(roots, intermediates)
           Clean == {n \in Nat : t[n] \subseteq Directory /\ t[n] \cap S = {}}
<1>1. t[0] = roots /\ \A n \in Nat : t[n + 1] = t[n] \cup (intermediates \cap Issued(t[n]))
  BY TrustedOf DEF PoolsOK, Anchors
<1> HIDE DEF t
<1>2. 0 \in Clean
  BY <1>1 DEF PoolsOK, Anchors, Rootless
<1>3. ASSUME NEW n \in Nat, n \in Clean PROVE n + 1 \in Clean
  <2>1. t[n + 1] \subseteq Directory
    BY <1>1, <1>3 DEF PoolsOK
  <2>2. ASSUME NEW x \in Issued(t[n]) PROVE x \notin S
    BY <1>3, <2>2 DEF Issued, Rootless
  <2>3. t[n + 1] \cap S = {}
    BY <1>1, <1>3, <2>2
  <2> QED BY <2>1, <2>3
<1> HIDE DEF Clean
<1>4. \A n \in Nat : n \in Clean
  BY <1>2, <1>3, SetInduction
<1>5. Cardinality(Cert) \in Nat
  BY CertAssumption, FS_CardinalityType
<1> DEFINE all == t[Cardinality(Cert)]
<1>6. all \subseteq Directory /\ all \cap S = {}
  BY <1>4, <1>5 DEF Clean
<1>7. Verifies(c) <=> c \in all \cup Issued(all)
  BY DEF Verifies, t
<1> HIDE DEF all
<1>8. c \notin all /\ c \notin Issued(all)
  BY <1>6 DEF Issued, Rootless
<1> QED
  BY <1>7, <1>8

-----------------------------------------------------------------------------
(* The invariant.                                                          *)

GivenOK ==
  /\ env \in Environ
  /\ given \in [Key -> Text \cup {Unset}]
  /\ unread \subseteq DOMAIN env
  /\ \A k \in Key : given[k] \in {Unset, Says(k)}
  /\ pc \in {"database", "environ", "tlsEnviron", "pool", "serving"}
  /\ pc = "environ" => \A k \in ServerKey : k \in unread \/ given[k] = Says(k)

\* How far setupTLS has come.
Stages ==
  /\ pc = "pool" => \A k \in TLSKey : given[k] # Unset
  /\ roots # {} => pc = "serving"
  /\ TLSAsAsked

\* What NewServer has made of the pointers, which the loop of setupTLS leaves alone.
ServerOK ==
  /\ server \in [time: Word, interval: Word, retry: Word, net: Text, addr: Text]
  /\ pc \in {"tlsEnviron", "pool", "serving"} =>
       /\ \A k \in ServerKey : given[k] = Says(k)
       /\ server.time = ResolveDuration("KEEPALIVE_TIME", Defaults.time)
       /\ server.interval = ResolveDuration("KEEPALIVE_INTERVAL", Defaults.interval)
       /\ server.retry = ResolveNumber("KEEPALIVE_RETRY", Defaults.retry)
       /\ server.net = Resolve("NETWORK", Defaults.net)
       /\ server.addr = Resolve("ADDRESS", Defaults.addr)

\* Who was let in.
ClientsOK ==
  /\ PoolsOK
  /\ admitted \subseteq Cert
  /\ \A S \in SUBSET Cert : Rootless(S) => S \cap admitted = {}

IInv == GivenOK /\ Stages /\ ServerOK /\ ClientsOK

\* The variables of setupTLS and NewServer are not the same.
LEMMA Keys ==
  /\ ServerKey \subseteq Key /\ TLSKey \subseteq Key
  /\ "NETWORK" \in ServerKey /\ "TLS_CA_POOL" \in TLSKey
  /\ ServerKey \cap TLSKey = {}
  BY DEF Key, ServerKey, TLSKey, Numeric

\* Cut text is text, and so is what the environment says.
LEMMA SaysText ==
  ASSUME env \in Environ, NEW k \in Key
  PROVE  /\ Says(k) \in Text \cup {Unset}
         /\ k \in DOMAIN env => Says(k) = Cut[env[k]] /\ Says(k) \in Text
         /\ k \notin DOMAIN env => Says(k) = Unset
  BY EnvironAssumption, TextAssumption DEF Says

\* The network that NewServer takes when its loop is over.
LEMMA NetworkResolved ==
  ASSUME GivenOK, pc = "environ", unread = {}, Says("NETWORK") \in TLSNetworks
  PROVE  Resolve("NETWORK", Defaults.net) \in TLSNetworks
<1>1. given["NETWORK"] = Says("NETWORK")
  BY Keys DEF GivenOK
<1>2. Says("NETWORK") # Unset
  BY TextAssumption
<1> QED
  BY <1>1, <1>2 DEF Resolve

\* Atoi's numbers and the defaults are int64.
LEMMA ResolvedTyped ==
  ASSUME given \in [Key -> Text \cup {Unset}], NEW k \in Key
  PROVE  /\ \A d \in Word : ResolveDuration(k, d) \in Word /\ ResolveNumber(k, d) \in Word
         /\ \A d \in Text : Resolve(k, d) \in Text
<1>1. \A t : Atoi(t) \in Word
  BY NumberAssumption, WordOfNumber DEF Atoi
<1> QED
  BY <1>1 DEF ResolveDuration, ResolveNumber, Resolve, Duration

LEMMA DefaultsTyped ==
  Defaults \in [time: Word, interval: Word, retry: Word, net: Text, addr: Text]
<1>1. WordOf(5) \in Word
  BY WordOfNumber
<1>2. Times(WordOf(5), Second) \in Word
  BY <1>1, SecondsTyped, TimesOf
<1> QED
  BY <1>1, <1>2, SecondsTyped, DefaultsAssumption DEF Defaults

\* The directory is part of the environment, which stays.
LEMMA SameDirectory ==
  ASSUME env' = env
  PROVE  Directory' = Directory /\ Anchors' = Anchors /\ \A S : Rootless(S)' = Rootless(S)
<1>1. Says("TLS_CA_POOL")' = Says("TLS_CA_POOL")
  BY DEF Says
<1>2. Directory' = Directory
  BY <1>1 DEF Directory
<1> QED
  BY <1>2 DEF Anchors, Rootless

LEMMA DirectoryTyped == env \in Environ => Directory \subseteq Cert /\ Anchors \subseteq CA
BY CertAssumption DEF Directory, Anchors

\* A step that neither reads an authority nor lets anybody in.
LEMMA ClientsFrame ==
  ASSUME ClientsOK, env' = env, UNCHANGED pools, admitted' = admitted \/ admitted' = {}
  PROVE  ClientsOK'
BY SameDirectory DEF ClientsOK, PoolsOK, pools

\* A step of main after NewServer.
LEMMA ServerFrame ==
  ASSUME GivenOK, ServerOK, env' = env, server' = server,
         pc' \in {"tlsEnviron", "pool", "serving"} => pc \in {"tlsEnviron", "pool", "serving"},
         pc \in {"tlsEnviron", "pool", "serving"}
           => \A k \in ServerKey : given'[k] = given[k]
  PROVE  ServerOK'
<1>1. \A k : Says(k)' = Says(k)
  BY DEF Says
<1>2. CASE pc' \notin {"tlsEnviron", "pool", "serving"}
  BY <1>2 DEF ServerOK
<1>3. CASE pc' \in {"tlsEnviron", "pool", "serving"}
  <2>1. \A k \in ServerKey : given'[k] = given[k]
    BY <1>3
  <2>2. {"KEEPALIVE_TIME", "KEEPALIVE_INTERVAL", "KEEPALIVE_RETRY", "NETWORK", "ADDRESS"}
          \subseteq ServerKey
    BY DEF ServerKey, Numeric
  <2> QED
    BY <1>1, <1>3, <2>1, <2>2 DEF ServerOK, ResolveDuration, ResolveNumber, Resolve
<1> QED
  BY <1>2, <1>3

LEMMA IInvInit == Init => IInv
<1> SUFFICES ASSUME Init PROVE IInv
  OBVIOUS
<1>1. GivenOK
  BY Keys DEF Init, GivenOK, NothingGiven
<1>2. Stages
  BY DEF Init, Stages, TLSAsAsked, Serving
<1>3. ServerOK
  BY DefaultsTyped DEF Init, ServerOK
<1>4. ClientsOK
  BY DEF Init, ClientsOK, PoolsOK
<1> QED
  BY <1>1, <1>2, <1>3, <1>4 DEF IInv

LEMMA IInvNext == IInv /\ [Next]_vars => IInv'
<1> SUFFICES ASSUME IInv, [Next]_vars PROVE IInv'
  OBVIOUS
<1> USE DEF IInv
<1>0. ASSUME env' = env PROVE \A k \in Key : Says(k)' = Says(k)
  BY <1>0 DEF Says
<1>1. CASE OpenDatabase
  <2>1. GivenOK'
    BY <1>1, <1>0, Keys, SaysText DEF OpenDatabase, GivenOK
  <2>2. Stages'
    BY <1>1 DEF OpenDatabase, Stages, TLSAsAsked, Serving, pools
  <2>3. ServerOK'
    BY <1>1, ServerFrame DEF OpenDatabase
  <2>4. ClientsOK'
    BY <1>1, ClientsFrame DEF OpenDatabase
  <2> QED
    BY <2>1, <2>2, <2>3, <2>4
<1>2. ASSUME NEW k \in Key, Read(k) PROVE IInv'
  <2>1. env' = env /\ pc' = pc /\ roots' = roots /\ unread' = unread \ {k}
        /\ k \in unread /\ pc \in {"environ", "tlsEnviron"}
    BY <1>2 DEF Read, pools
  <2>2. Cut[env[k]] = Says(k) /\ Says(k) \in Text
    BY <2>1, SaysText DEF GivenOK
  <2>3. \/ /\ given' = [given EXCEPT ![k] = Says(k)]
           /\ k \in (IF pc = "environ" THEN ServerKey ELSE TLSKey)
        \/ given' = given /\ k \notin (IF pc = "environ" THEN ServerKey ELSE TLSKey)
    BY <1>2, <2>2 DEF Read
  <2>4. GivenOK'
    <3>1. given' \in [Key -> Text \cup {Unset}] /\ unread' \subseteq DOMAIN env'
      BY <2>1, <2>2, <2>3 DEF GivenOK
    <3>2. \A x \in Key : given'[x] \in {Unset, Says(x)'}
      BY <2>1, <2>3, <1>0 DEF GivenOK
    <3>3. pc' = "environ" => \A x \in ServerKey : x \in unread' \/ given'[x] = Says(x)'
      BY <2>1, <2>3, <1>0, Keys DEF GivenOK
    <3> QED
      BY <2>1, <3>1, <3>2, <3>3 DEF GivenOK
  <2>5. Stages'
    BY <2>1 DEF Stages, TLSAsAsked, Serving
  <2>6. ServerOK'
    <3>1. pc = "tlsEnviron" => \A x \in ServerKey : given'[x] = given[x]
      <4> SUFFICES ASSUME pc = "tlsEnviron", NEW x \in ServerKey PROVE given'[x] = given[x]
        OBVIOUS
      <4>1. k # x \/ given' = given
        BY <2>3, Keys
      <4> QED
        BY <2>3, <4>1, Keys DEF GivenOK
    <3>2. server' = server
      BY <1>2 DEF Read
    <3> QED
      BY <2>1, <3>1, <3>2, ServerFrame
  <2>7. ClientsOK'
    BY <1>2, ClientsFrame DEF Read
  <2> QED
    BY <2>4, <2>5, <2>6, <2>7
<1>3. CASE NewServer
  <2>1. env' = env /\ given' = given /\ roots' = roots /\ pc = "environ" /\ unread = {}
    BY <1>3 DEF NewServer, pools
  <2>2. server'.net = Resolve("NETWORK", Defaults.net)
    BY <1>3 DEF NewServer
  <2>3. \/ pc' = "tlsEnviron" /\ unread' = DOMAIN env
        \/ pc' = "serving" /\ unread' = unread /\ server'.net \notin TLSNetworks
    BY <1>3 DEF NewServer
  <2>4. GivenOK'
    BY <2>1, <2>3, <1>0 DEF GivenOK
  <2>5. pc' = "serving" => Says("NETWORK") \notin TLSNetworks
    BY <2>1, <2>2, <2>3, NetworkResolved
  <2>6. Stages'
    BY <2>1, <2>3, <2>5, <1>0, Keys DEF Stages, TLSAsAsked, Serving
  <2>7. ServerOK'
    <3>1. \A k \in ServerKey : given'[k] = Says(k)'
      BY <2>1, <1>0, Keys DEF GivenOK
    <3>2. /\ server'.time = ResolveDuration("KEEPALIVE_TIME", Defaults.time)
          /\ server'.interval = ResolveDuration("KEEPALIVE_INTERVAL", Defaults.interval)
          /\ server'.retry = ResolveNumber("KEEPALIVE_RETRY", Defaults.retry)
          /\ server'.net = Resolve("NETWORK", Defaults.net)
          /\ server'.addr = Resolve("ADDRESS", Defaults.addr)
      BY <1>3 DEF NewServer
    <3>3. server' \in [time: Word, interval: Word, retry: Word, net: Text, addr: Text]
      <4>1. {"KEEPALIVE_TIME", "KEEPALIVE_INTERVAL", "KEEPALIVE_RETRY", "NETWORK", "ADDRESS"}
              \subseteq Key
        BY DEF Key, ServerKey, Numeric
      <4>2. /\ Defaults.time \in Word /\ Defaults.interval \in Word /\ Defaults.retry \in Word
            /\ Defaults.net \in Text /\ Defaults.addr \in Text
        BY DefaultsTyped
      <4>3. /\ ResolveDuration("KEEPALIVE_TIME", Defaults.time) \in Word
            /\ ResolveDuration("KEEPALIVE_INTERVAL", Defaults.interval) \in Word
            /\ ResolveNumber("KEEPALIVE_RETRY", Defaults.retry) \in Word
            /\ Resolve("NETWORK", Defaults.net) \in Text
            /\ Resolve("ADDRESS", Defaults.addr) \in Text
        BY <4>1, <4>2, ResolvedTyped DEF GivenOK
      <4> QED
        BY <1>3, <4>3 DEF NewServer
    <3> QED
      BY <2>1, <3>1, <3>2, <3>3 DEF ServerOK, ResolveDuration, ResolveNumber, Resolve
  <2>8. ClientsOK'
    BY <1>3, ClientsFrame DEF NewServer
  <2> QED
    BY <2>4, <2>6, <2>7, <2>8
<1>4. CASE LoadCertificate
  <2>1. GivenOK'
    BY <1>4, <1>0 DEF LoadCertificate, GivenOK
  <2>2. Stages'
    BY <1>4 DEF LoadCertificate, Stages, TLSAsAsked, Serving, pools
  <2>3. ServerOK'
    BY <1>4, ServerFrame DEF LoadCertificate
  <2>4. ClientsOK'
    BY <1>4, ClientsFrame DEF LoadCertificate
  <2> QED
    BY <2>1, <2>2, <2>3, <2>4
<1>5. CASE WalkPool
  <2>1. env' = env /\ given' = given /\ unread' = unread /\ pc = "pool"
        /\ pc' = "serving"
    BY <1>5 DEF WalkPool
  <2>2. GivenOK'
    BY <2>1, <1>0 DEF GivenOK
  <2>3. \A k \in TLSKey : Says(k) # Unset /\ given[k] = Says(k)
    BY <2>1, Keys DEF Stages, GivenOK
  <2>4. PICK read \in SUBSET Pool[given["TLS_CA_POOL"]] :
             /\ roots' = {c \in read : IsRoot(c)} /\ roots' # {}
             /\ intermediates' = {c \in read : c \in CA /\ ~IsRoot(c)}
    BY <1>5 DEF WalkPool, Enough
  <2>5. \E c \in roots' : Issuer[c] = Subject[c] /\ c \in Pool[Says("TLS_CA_POOL")]
    BY <2>3, <2>4, Keys DEF IsRoot
  <2>6. TLSAsAsked'
    BY <2>1, <2>3, <2>5, <1>0, Keys DEF TLSAsAsked
  <2>7. Stages'
    BY <2>1, <2>6 DEF Stages
  <2>8. ServerOK'
    BY <1>5, <2>1, ServerFrame DEF WalkPool
  <2>9. ClientsOK'
    <3>1. Directory = Pool[given["TLS_CA_POOL"]] \cap CA
      BY <1>5, <2>3, Keys DEF WalkPool, Directory
    <3>2. roots' \subseteq Anchors /\ intermediates' \subseteq Directory
      BY <2>4, <3>1 DEF IsRoot, Anchors
    <3>3. admitted' = admitted
      BY <1>5 DEF WalkPool
    <3> QED
      BY <2>1, <3>2, <3>3, SameDirectory DEF ClientsOK, PoolsOK
  <2> QED
    BY <2>2, <2>7, <2>8, <2>9
<1>6. CASE Handshake
  <2>1. GivenOK' /\ Stages'
    BY <1>6, <1>0 DEF Handshake, GivenOK, Stages, TLSAsAsked, Serving, pools, Says
  <2>2. ServerOK'
    BY <1>6, ServerFrame DEF Handshake
  <2>3. ClientsOK'
    <3>1. PICK sent \in SUBSET Cert : /\ \A c \in sent : Verifies(c)
                                     /\ admitted' = admitted \cup sent
      BY <1>6 DEF Handshake
    <3>2. Directory \subseteq Cert /\ PoolsOK
      BY DirectoryTyped DEF GivenOK, ClientsOK
    <3>3. \A S \in SUBSET Cert : Rootless(S) => S \cap sent = {}
      BY <3>1, <3>2, VerifiedChains
    <3>4. \A S \in SUBSET Cert : Rootless(S) => S \cap admitted' = {}
      BY <3>1, <3>3 DEF ClientsOK
    <3>5. admitted' \subseteq Cert
      BY <3>1 DEF ClientsOK
    <3>6. PoolsOK' /\ env' = env
      BY <1>6, SameDirectory DEF Handshake, ClientsOK, PoolsOK, pools
    <3> QED
      BY <3>4, <3>5, <3>6, SameDirectory DEF ClientsOK
  <2> QED
    BY <2>1, <2>2, <2>3
<1>7. CASE Dies
  <2>1. GivenOK'
    BY <1>7, Keys DEF Dies, GivenOK, NothingGiven
  <2>2. Stages'
    BY <1>7 DEF Dies, Stages, TLSAsAsked, Serving
  <2>3. ServerOK'
    BY <1>7, DefaultsTyped DEF Dies, ServerOK
  <2>4. ClientsOK'
    BY <1>7 DEF Dies, ClientsOK, PoolsOK
  <2> QED
    BY <2>1, <2>2, <2>3, <2>4
<1>8. CASE UNCHANGED vars
  <2>1. GivenOK' /\ Stages'
    BY <1>8 DEF vars, GivenOK, Stages, TLSAsAsked, Serving, Says, pools
  <2>2. ServerOK'
    BY <1>8, ServerFrame DEF vars
  <2>3. ClientsOK'
    BY <1>8, ClientsFrame DEF vars, pools
  <2> QED
    BY <2>1, <2>2, <2>3
<1> QED
  BY <1>1, <1>2, <1>3, <1>4, <1>5, <1>6, <1>7, <1>8 DEF Next

LEMMA Invariant == Spec => []IInv
BY IInvInit, IInvNext, PTL DEF Spec

\* Every setting has its type, and only certificates are trusted or let in, authorities
\* as roots and intermediates.
THEOREM SettingsTypeCorrect == Spec => []TypeOK
<1>1. IInv => TypeOK
  <2> SUFFICES ASSUME IInv PROVE TypeOK
    OBVIOUS
  <2>1. unread \subseteq Key
    BY EnvironAssumption DEF IInv, GivenOK
  <2>2. roots \subseteq CA /\ intermediates \subseteq CA
    BY DEF IInv, ClientsOK, PoolsOK, Anchors, Directory
  <2> QED
    BY <2>1, <2>2 DEF IInv, GivenOK, ServerOK, ClientsOK, TypeOK
<1> QED
  BY <1>1, Invariant, PTL

\* Each setting of a server that listens is the one of its own variable, in whichever
\* order the environment came.
THEOREM SettingsAreGiven == Spec => []SettingsAsGiven
<1>1. IInv => SettingsAsGiven
  <2>1. {"KEEPALIVE_RETRY", "NETWORK", "ADDRESS"} \subseteq ServerKey
    BY DEF ServerKey, Numeric
  <2> QED
    BY <2>1 DEF IInv, ServerOK, SettingsAsGiven, Serving, ResolveNumber, Resolve, Defaults
<1> QED
  BY <1>1, Invariant, PTL

\* The number in a variable is the seconds that run() waits, for every number.
THEOREM DurationsAreSeconds == Spec => []WaitsInSeconds
<1>1. IInv => WaitsInSeconds
  <2> SUFFICES ASSUME IInv, Serving PROVE WaitsInSeconds
    BY DEF WaitsInSeconds
  <2>1. {"KEEPALIVE_TIME", "KEEPALIVE_INTERVAL"} \subseteq ServerKey
    BY DEF ServerKey, Numeric
  <2>2. \A t : Times(Second, Atoi(t)) = Times(Atoi(t), Second)
    <3>1. \A t : Atoi(t) \in Word
      BY NumberAssumption, WordOfNumber DEF Atoi
    <3> QED
      BY <3>1, SecondsTyped, TimesOf
  <2>3. /\ Says("KEEPALIVE_TIME") # Unset => server.time = Atoi(Says("KEEPALIVE_TIME"))
        /\ Says("KEEPALIVE_INTERVAL") # Unset
             => server.interval = Atoi(Says("KEEPALIVE_INTERVAL"))
    BY <2>1 DEF IInv, ServerOK, Serving, ResolveDuration, Duration
  <2> QED
    BY <2>2, <2>3 DEF WaitsInSeconds, Wait
<1> QED
  BY <1>1, Invariant, PTL

\* A server asked for TLS listens with a certificate, a directory and a root out
\* of it, or not at all.
THEOREM NeverPlainWhenAskedForTLS == Spec => []TLSAsAsked
<1>1. IInv => TLSAsAsked
  BY DEF IInv, Stages
<1> QED
  BY <1>1, Invariant, PTL

\* Whatever the directory, the files of it that could not be read, and the length of
\* the chain, a client that was let in has a certificate that leads to a root of it.
THEOREM ClientsChainToARoot == Spec => []AdmittedChain
<1>1. IInv => AdmittedChain
  BY DEF IInv, ClientsOK, AdmittedChain, Rootless, Anchors, Directory
<1> QED
  BY <1>1, Invariant, PTL
=============================================================================
