---------------------------- MODULE FramingProofs ----------------------------
(***************************************************************************)
(* Encoding, reassembly and decoding of frames, for bytes, fields, frames  *)
(* and connections of any size and number.                                 *)
(***************************************************************************)
EXTENDS Framing, SequenceTheorems, WellFoundedInduction, TLAPS

\* Induction over the numbers, on a set of them.
LEMMA NumbersInSet ==
    ASSUME NEW S, S \subseteq Nat, 0 \in S, \A n \in S : n + 1 \in S
    PROVE  S = Nat
<1> DEFINE T == Nat \ S  R == OpToRel(<, Nat)
<1> SUFFICES ASSUME T # {} PROVE FALSE
  BY Zenon
<1>1. \E n \in T : \A k \in T : ~(<<k, n>> \in R)
  <2> HIDE DEF R
  <2>1. IsWellFoundedOn(R, Nat)
    BY Zenon, NatLessThanWellFounded DEF R
  <2>2. T \subseteq Nat
    OBVIOUS
  <2> HIDE DEF T
  <2> QED BY Zenon, <2>1, <2>2, WFMin
<1>2. PICK n \in T : \A k \in T : ~(<<k, n>> \in R)
  BY Zenon, <1>1
<1>3. n \in Nat /\ n # 0
  OBVIOUS
<1>4. n - 1 \in Nat /\ n - 1 < n /\ (n - 1) + 1 = n
  BY <1>3
<1>5. <<n - 1, n>> \in R
  BY <1>3, <1>4 DEF OpToRel
<1>6. n - 1 \in S
  BY Zenon, <1>2, <1>4, <1>5
<1> QED BY <1>4, <1>6

\* A function can be defined by its first value and by how each value follows
\* from the one before.
Definable(X, a, step) ==
    \E f \in [Nat -> X] : f[0] = a /\ \A n \in Nat : f[n + 1] = step[<<n, f[n]>>]

\* Recursion over the numbers, with the step as a function.
LEMMA DefinedStepwise ==
    ASSUME NEW X, NEW a \in X, NEW step \in [Nat \X X -> X]
    PROVE  Definable(X, a, step)
<1> DEFINE Upto(n) == {f \in [0..n -> X] : f[0] = a /\
                          \A i \in 0..(n - 1) : f[i + 1] = step[<<i, f[i]>>]}
<1>1. \A n, f : f \in Upto(n) <=> f \in [0..n -> X] /\ f[0] = a
                    /\ \A i \in 0..(n - 1) : f[i + 1] = step[<<i, f[i]>>]
  BY Zenon
<1> HIDE DEF Upto
<1>2. \A n \in Nat : Upto(n) # {}
  <2> DEFINE S == {n \in Nat : Upto(n) # {}}
  <2>1. 0 \in S
    <3> DEFINE f == [i \in 0..0 |-> a]
    <3>1. f \in [0..0 -> X] /\ f[0] = a /\ \A i \in 0..(0 - 1) : FALSE
      OBVIOUS
    <3> HIDE DEF f
    <3>2. f \in Upto(0)
      BY Zenon, <1>1, <3>1
    <3> QED BY Zenon, <3>2
  <2>2. ASSUME NEW n \in S PROVE n + 1 \in S
    <3>1. PICK f : f \in Upto(n)
      BY Zenon
    <3> DEFINE g == [i \in 0..(n + 1) |-> IF i <= n THEN f[i] ELSE step[<<n, f[n]>>]]
    <3>2. n \in Nat /\ n + 1 \in Nat /\ (n + 1) - 1 = n
      OBVIOUS
    <3>3. f \in [0..n -> X] /\ f[0] = a /\ \A i \in 0..(n - 1) : f[i + 1] = step[<<i, f[i]>>]
      BY Zenon, <1>1, <3>1
    <3>4. step[<<n, f[n]>>] \in X
      BY <3>2, <3>3
    <3>5. g \in [0..(n + 1) -> X] /\ g[0] = a
      BY <3>2, <3>3, <3>4
    <3>6. ASSUME NEW i \in 0..n PROVE g[i + 1] = step[<<i, g[i]>>]
      <4>1. i \in 0..(n + 1) /\ i + 1 \in 0..(n + 1) /\ i <= n
        BY <3>2
      <4>2. g[i] = f[i] /\ g[i + 1] = IF i + 1 <= n THEN f[i + 1] ELSE step[<<n, f[n]>>]
        BY Zenon, <4>1
      <4> HIDE DEF g
      <4>3. CASE i = n
        <5>1. ~(i + 1 <= n)
          BY <3>2, <4>3
        <5> QED BY Zenon, <4>2, <4>3, <5>1
      <4>4. CASE i # n
        <5>1. i \in 0..(n - 1) /\ i + 1 <= n
          BY <3>2, <4>4
        <5> QED BY Zenon, <3>3, <4>2, <5>1
      <4> QED BY Zenon, <4>3, <4>4
    <3> HIDE DEF g
    <3>7. g \in Upto(n + 1)
      BY Zenon, <1>1, <3>2, <3>5, <3>6
    <3> QED BY Zenon, <3>2, <3>7
  <2>3. S = Nat
    <3>1. S \subseteq Nat
      BY Zenon
    <3> HIDE DEF S
    <3> QED BY Zenon, <2>1, <2>2, <3>1, NumbersInSet
  <2> QED BY Zenon, <2>3
<1> DEFINE Same(i) == \A m, n \in Nat : \A f, g :
                        f \in Upto(m) /\ g \in Upto(n) /\ i <= m /\ i <= n => f[i] = g[i]
<1>3. \A i \in Nat : Same(i)
  <2> DEFINE S == {i \in Nat : Same(i)}
  <2>1. 0 \in S
    BY Zenon, <1>1
  <2>2. ASSUME NEW i \in S PROVE i + 1 \in S
    <3>1. i \in Nat /\ i + 1 \in Nat /\ Same(i)
      OBVIOUS
    <3> HIDE DEF S
    <3>2. ASSUME NEW m \in Nat, NEW n \in Nat, NEW f, NEW g, f \in Upto(m), g \in Upto(n),
                 i + 1 <= m, i + 1 <= n
          PROVE  f[i + 1] = g[i + 1]
      <4>1. i \in 0..(m - 1) /\ i \in 0..(n - 1) /\ i <= m /\ i <= n
        BY <3>1, <3>2
      <4>2. f[i] = g[i]
        BY Zenon, <3>1, <3>2, <4>1
      <4> HIDE DEF Same
      <4>3. f[i + 1] = step[<<i, f[i]>>]
        <5>1. \A j \in 0..(m - 1) : f[j + 1] = step[<<j, f[j]>>]
          BY Zenon, <1>1, <3>2
        <5> QED BY Zenon, <4>1, <5>1
      <4>4. g[i + 1] = step[<<i, g[i]>>]
        <5>1. \A j \in 0..(n - 1) : g[j + 1] = step[<<j, g[j]>>]
          BY Zenon, <1>1, <3>2
        <5> QED BY Zenon, <4>1, <5>1
      <4> QED BY Zenon, <4>2, <4>3, <4>4
    <3>3. Same(i + 1)
      BY Zenon, <3>2
    <3> HIDE DEF Same
    <3> QED BY Zenon, <3>1, <3>3 DEF S
  <2>3. S = Nat
    <3>1. S \subseteq Nat
      BY Zenon
    <3> HIDE DEF S
    <3> QED BY Zenon, <2>1, <2>2, <3>1, NumbersInSet
  <2> QED BY Zenon, <2>3
<1> DEFINE part(n) == CHOOSE f : f \in Upto(n)
           F == [n \in Nat |-> part(n)[n]]
<1>4. \A n \in Nat : part(n) \in Upto(n)
  BY Zenon, <1>2
<1> HIDE DEF part
<1>5. \A n \in Nat : part(n)[n] \in X
  <2> TAKE n \in Nat
  <2>1. part(n) \in [0..n -> X]
    BY Zenon, <1>1, <1>4
  <2>2. n \in 0..n
    OBVIOUS
  <2> QED BY Zenon, <2>1, <2>2
<1>6. F \in [Nat -> X]
  BY Zenon, <1>5
<1>7. F[0] = a
  <2>1. part(0)[0] = a
    BY Zenon, <1>1, <1>4
  <2> QED BY Zenon, <2>1
<1>8. ASSUME NEW n \in Nat PROVE F[n + 1] = step[<<n, F[n]>>]
  <2>1. n + 1 \in Nat /\ n <= n /\ n <= n + 1 /\ n \in 0..((n + 1) - 1)
    OBVIOUS
  <2>2. part(n) \in Upto(n) /\ part(n + 1) \in Upto(n + 1)
    BY Zenon, <1>4, <2>1
  <2>3. part(n + 1)[n + 1] = step[<<n, part(n + 1)[n]>>]
    <3>1. \A j \in 0..((n + 1) - 1) : part(n + 1)[j + 1] = step[<<j, part(n + 1)[j]>>]
      BY Zenon, <1>1, <2>2
    <3> QED BY Zenon, <2>1, <3>1
  <2>4. part(n + 1)[n] = part(n)[n]
    <3> HIDE DEF F
    <3>1. Same(n)
      BY Zenon, <1>3
    <3>2. \A f, g : f \in Upto(n + 1) /\ g \in Upto(n) => f[n] = g[n]
      <4> SUFFICES ASSUME NEW f, NEW g, f \in Upto(n + 1), g \in Upto(n)
                   PROVE  f[n] = g[n]
        BY Zenon
      <4> QED BY <2>1, <3>1
    <3> HIDE DEF Same
    <3> QED BY Zenon, <2>2, <3>2
  <2> QED BY Zenon, <2>1, <2>3, <2>4
<1> HIDE DEF F
<1> QED BY Zenon, <1>6, <1>7, <1>8 DEF Definable

\* Power is what its equation says.
LEMMA PowerDef ==
    /\ Power \in [Nat -> Nat \ {0}]
    /\ Power[0] = 1
    /\ \A k \in Nat : Power[k + 1] = Base * Power[k]
<1>0. Base \in Nat /\ Base > 7
  BY BytesAssumption
<1> DEFINE step == [x \in Nat \X (Nat \ {0}) |-> Base * x[2]]
<1>1. step \in [Nat \X (Nat \ {0}) -> Nat \ {0}]
  <2> SUFFICES ASSUME NEW x \in Nat \X (Nat \ {0}) PROVE Base * x[2] \in Nat \ {0}
    BY Zenon
  <2>1. x[2] \in Nat /\ x[2] >= 1
    OBVIOUS
  <2>2. PICK y \in Nat : y = x[2]
    BY <2>1
  <2>3. Base * y \in Nat /\ Base * y >= 1
    BY <1>0, <2>1, <2>2
  <2> QED BY <2>2, <2>3
<1>2. PICK f \in [Nat -> Nat \ {0}] :
        f[0] = 1 /\ \A n \in Nat : f[n + 1] = step[<<n, f[n]>>]
  <2> HIDE DEF step
  <2>1. 1 \in Nat \ {0}
    OBVIOUS
  <2>2. Definable(Nat \ {0}, 1, step)
    BY Zenon, <1>1, <2>1, DefinedStepwise
  <2> QED BY Zenon, <2>2 DEF Definable
<1>3. \A n \in Nat : f[n + 1] = Base * f[n]
  <2> TAKE n \in Nat
  <2>1. <<n, f[n]>> \in Nat \X (Nat \ {0}) /\ <<n, f[n]>>[2] = f[n]
    OBVIOUS
  <2>2. step[<<n, f[n]>>] = Base * f[n]
    BY Zenon, <2>1
  <2> HIDE DEF step
  <2> QED BY Zenon, <1>2, <2>2
<1> HIDE DEF step
<1>4. f = [k \in Nat |-> IF k = 0 THEN 1 ELSE Base * f[k - 1]]
  <2>1. ASSUME NEW k \in Nat PROVE f[k] = IF k = 0 THEN 1 ELSE Base * f[k - 1]
    <3>1. CASE k = 0
      BY <1>2, <3>1
    <3>2. CASE k # 0
      <4>1. k - 1 \in Nat /\ (k - 1) + 1 = k
        BY <3>2
      <4>2. f[(k - 1) + 1] = Base * f[k - 1]
        BY Zenon, <1>3, <4>1
      <4> QED BY Zenon, <3>2, <4>1, <4>2
    <3> QED BY Zenon, <3>1, <3>2
  <2> QED BY Zenon, <2>1
<1>5. Power = [k \in Nat |-> IF k = 0 THEN 1 ELSE Base * Power[k - 1]]
  BY Zenon, <1>4 DEF Power
<1>6. Power[0] = 1 /\ \A k \in Nat : Power[k + 1] = Base * Power[k]
  <2>1. Power[0] = 1
    BY Zenon, <1>5
  <2>2. ASSUME NEW k \in Nat PROVE Power[k + 1] = Base * Power[k]
    <3>1. k + 1 \in Nat /\ k + 1 # 0 /\ (k + 1) - 1 = k
      OBVIOUS
    <3>2. Power[k + 1] = IF k + 1 = 0 THEN 1 ELSE Base * Power[(k + 1) - 1]
      BY Zenon, <1>5, <3>1
    <3> QED BY Zenon, <3>1, <3>2
  <2> QED BY Zenon, <2>1, <2>2
<1>7. \A k \in Nat : Power[k] = f[k]
  <2> DEFINE S == {k \in Nat : Power[k] = f[k]}
  <2>1. 0 \in S
    BY Zenon, <1>2, <1>6
  <2>2. ASSUME NEW k \in S PROVE k + 1 \in S
    <3>1. k \in Nat /\ k + 1 \in Nat /\ Power[k] = f[k]
      OBVIOUS
    <3>2. Power[k + 1] = f[k + 1]
      BY Zenon, <1>3, <1>6, <3>1
    <3> QED BY Zenon, <3>1, <3>2
  <2>3. S \subseteq Nat
    BY Zenon
  <2>4. S = Nat
    <3> HIDE DEF S
    <3> QED BY Zenon, <2>1, <2>2, <2>3, NumbersInSet
  <2> QED BY Zenon, <2>4
<1>8. Power \in [Nat -> Nat \ {0}]
  <2>1. Power = [k \in Nat |-> f[k]]
    BY Zenon, <1>5, <1>7
  <2> QED BY Zenon, <1>2, <2>1
<1> QED BY Zenon, <1>6, <1>8

\* FromBE reads the bytes from the front.
LEMMA FromBEDef ==
    ASSUME NEW s \in Seq(Byte)
    PROVE  \E f \in [0..Len(s) -> Nat] :
              /\ f[0] = 0
              /\ \A k \in 1..Len(s) : f[k] = f[k - 1] * Base + s[k]
              /\ FromBE(s) = f[Len(s)]
<1>0. Base \in Nat /\ Base > 7 /\ Len(s) \in Nat
  BY BytesAssumption
<1>s. \A i, m \in Nat : i + 1 <= m => i + 1 \in 0..m /\ i + 1 \in 1..m /\ i + 1 # 0
                                       /\ (i + 1) - 1 = i /\ i <= m
  OBVIOUS
<1> DEFINE byte(n) == IF n + 1 \in 1..Len(s) THEN s[n + 1] ELSE 0
           step == [x \in Nat \X Nat |-> x[2] * Base + byte(x[1])]
<1>1. step \in [Nat \X Nat -> Nat]
  <2> SUFFICES ASSUME NEW x \in Nat \X Nat PROVE x[2] * Base + byte(x[1]) \in Nat
    BY Zenon
  <2>a. \A i \in 1..Len(s) : s[i] \in Nat
    BY <1>0 DEF Byte
  <2>b. 0 \in Nat
    OBVIOUS
  <2>c. byte(x[1]) \in Nat
    BY Zenon, <2>a, <2>b
  <2> HIDE DEF byte
  <2>1. x[2] \in Nat /\ byte(x[1]) \in Nat
    BY <2>c
  <2>2. PICK y \in Nat, z \in Nat : y = x[2] /\ z = byte(x[1])
    BY Zenon, <2>1
  <2>3. y * Base + z \in Nat
    BY <1>0
  <2> QED BY Zenon, <2>2, <2>3
<1>2. PICK f \in [Nat -> Nat] :
        f[0] = 0 /\ \A n \in Nat : f[n + 1] = step[<<n, f[n]>>]
  <2> HIDE DEF step
  <2>1. 0 \in Nat
    OBVIOUS
  <2>2. Definable(Nat, 0, step)
    BY Zenon, <1>1, <2>1, DefinedStepwise
  <2> QED BY Zenon, <2>2 DEF Definable
<1>3. \A n \in Nat : f[n + 1] = f[n] * Base + byte(n)
  <2> HIDE DEF byte
  <2> TAKE n \in Nat
  <2>1. <<n, f[n]>> \in Nat \X Nat /\ <<n, f[n]>>[2] = f[n] /\ <<n, f[n]>>[1] = n
    BY Zenon
  <2>2. step[<<n, f[n]>>] = f[n] * Base + byte(n)
    BY Zenon, <2>1
  <2> HIDE DEF step
  <2> QED BY Zenon, <1>2, <2>2
<1> HIDE DEF step
<1>4. \A k \in 1..Len(s) : f[k] = f[k - 1] * Base + s[k]
  <2> TAKE k \in 1..Len(s)
  <2>1. k - 1 \in Nat /\ (k - 1) + 1 = k
    BY <1>0
  <2>2. f[(k - 1) + 1] = f[k - 1] * Base + byte(k - 1)
    BY Zenon, <1>3, <2>1
  <2>3. byte(k - 1) = s[k]
    BY Zenon, <2>1
  <2> HIDE DEF byte
  <2> QED BY Zenon, <2>1, <2>2, <2>3
<1> DEFINE g == [k \in 0..Len(s) |-> f[k]]
           Eqn(h) == h = [k \in 0..Len(s) |-> IF k = 0 THEN 0 ELSE h[k - 1] * Base + s[k]]
<1>5. g \in [0..Len(s) -> Nat] /\ g[0] = 0 /\ \A k \in 1..Len(s) : g[k] = g[k - 1] * Base + s[k]
  <2>1. \A k \in 0..Len(s) : g[k] = f[k] /\ f[k] \in Nat
    BY <1>0
  <2>2. 0 \in 0..Len(s) /\ \A k \in 1..Len(s) : k \in 0..Len(s) /\ k - 1 \in 0..Len(s)
    BY <1>0
  <2>3. g \in [0..Len(s) -> Nat]
    BY Zenon, <2>1
  <2> QED BY Zenon, <1>2, <1>4, <2>1, <2>2, <2>3
<1> HIDE DEF g
<1>6. Eqn(g)
  <2>1. ASSUME NEW k \in 0..Len(s) PROVE g[k] = IF k = 0 THEN 0 ELSE g[k - 1] * Base + s[k]
    <3>1. k # 0 => k \in 1..Len(s)
      BY <1>0
    <3> QED BY Zenon, <1>5, <3>1
  <2> QED BY Zenon, <1>5, <2>1
<1> DEFINE first == CHOOSE h : Eqn(h)
<1>7. Eqn(first)
  <2> HIDE DEF Eqn
  <2> QED BY Zenon, <1>6
<1>8. \A k \in 0..Len(s) : first[k] = g[k]
  <2> HIDE DEF first
  <2> DEFINE S == {k \in Nat : k <= Len(s) => first[k] = g[k]}
  <2>1. 0 \in S
    <3>1. first[0] = 0
      BY <1>0, <1>7
    <3> QED BY Zenon, <1>5, <3>1
  <2>2. ASSUME NEW k \in S PROVE k + 1 \in S
    <3>1. k \in Nat /\ k + 1 \in Nat /\ (k <= Len(s) => first[k] = g[k])
      OBVIOUS
    <3>2. ASSUME k + 1 <= Len(s) PROVE first[k + 1] = g[k + 1]
      <4>0. k \in Nat /\ Len(s) \in Nat /\ k + 1 <= Len(s)
        BY Zenon, <1>0, <3>1, <3>2
      <4>1. k + 1 \in 0..Len(s) /\ k + 1 \in 1..Len(s) /\ k + 1 # 0 /\ (k + 1) - 1 = k /\ k <= Len(s)
        BY Zenon, <1>s, <4>0
      <4>2. first[k + 1] = first[k] * Base + s[k + 1]
        BY Zenon, <1>7, <4>1
      <4>3. g[k + 1] = g[k] * Base + s[k + 1]
        BY Zenon, <1>5, <4>1
      <4> QED BY Zenon, <3>1, <4>1, <4>2, <4>3
    <3> QED BY Zenon, <3>1, <3>2
  <2>3. S \subseteq Nat
    BY Zenon
  <2>4. S = Nat
    <3> HIDE DEF S
    <3> QED BY Zenon, <2>1, <2>2, <2>3, NumbersInSet
  <2>5. \A k \in 0..Len(s) : k \in Nat /\ k <= Len(s)
    BY <1>0
  <2> QED BY Zenon, <2>4, <2>5
<1>9. FromBE(s) = g[Len(s)]
  <2>1. FromBE(s) = first[Len(s)]
    BY Zenon DEF FromBE
  <2>2. Len(s) \in 0..Len(s)
    BY <1>0
  <2> HIDE DEF first
  <2> QED BY Zenon, <1>8, <2>1, <2>2
<1> QED BY Zenon, <1>5, <1>9

\* Quotient and remainder are the only ones.
LEMMA QuotientUnique ==
    ASSUME NEW d \in Nat \ {0}, NEW q \in Int, NEW p \in Int, NEW r \in 0..(d - 1), NEW u \in 0..(d - 1),
           d * q + r = d * p + u
    PROVE  q = p
<1>1. d * (q - p) = u - r
  OBVIOUS
<1>2. CASE q > p
  <2>1. PICK j \in Nat : q - p = j + 1
    <3>1. q - p - 1 \in Nat /\ q - p = (q - p - 1) + 1
      BY <1>2
    <3> QED BY <3>1
  <2>2. d * (q - p) = d * j + d
    BY <2>1
  <2>3. d * j >= 0
    OBVIOUS
  <2> QED BY <1>1, <2>2, <2>3
<1>3. CASE q < p
  <2>1. PICK j \in Nat : p - q = j + 1
    <3>1. p - q - 1 \in Nat /\ p - q = (p - q - 1) + 1
      BY <1>3
    <3> QED BY <3>1
  <2>2. d * (q - p) = -(d * j) - d
    BY <2>1
  <2>3. d * j >= 0
    OBVIOUS
  <2> QED BY <1>1, <2>2, <2>3
<1> QED BY <1>2, <1>3

\* A number is its quotient times the divisor, and a remainder.
LEMMA DivMod ==
    ASSUME NEW d \in Nat \ {0}, NEW n \in Nat
    PROVE  n % d \in 0..(d - 1) /\ n \div d \in Nat /\ n = d * (n \div d) + (n % d)
<1>1. n % d \in 0..(d - 1) /\ n \div d \in Int
  OBVIOUS
<1>2. n = d * (n \div d) + (n % d)
  OBVIOUS
<1>3. n \div d >= 0
  <2> SUFFICES ASSUME n \div d < 0 PROVE FALSE
    BY <1>1
  <2>1. PICK j \in Nat : n \div d = -j - 1
    <3>1. -(n \div d) - 1 \in Nat /\ n \div d = -(-(n \div d) - 1) - 1
      BY <1>1
    <3> QED BY <3>1
  <2>2. d * (n \div d) = -(d * j) - d
    BY <2>1
  <2>3. d * j >= 0
    OBVIOUS
  <2> QED BY <1>1, <1>2, <2>2, <2>3
<1> QED BY <1>1, <1>2, <1>3

\* The quotient by a larger number is zero.
LEMMA SmallQuotient ==
    ASSUME NEW d \in Nat \ {0}, NEW n \in Nat, n < d
    PROVE  n \div d = 0
<1> DEFINE q == n \div d  r == n % d
<1>1. r \in 0..(d - 1) /\ q \in Nat /\ n = d * q + r
  BY Zenon, DivMod
<1> HIDE DEF q, r
<1>2. n \in 0..(d - 1) /\ d * q + r = d * 0 + n /\ q \in Int /\ 0 \in Int
  BY <1>1
<1>3. q = 0
  BY Zenon, <1>1, <1>2, QuotientUnique
<1> QED BY <1>3 DEF q

\* Shifting by one byte less brings in the next byte of a number.
LEMMA NextByte ==
    ASSUME NEW n \in Nat, NEW p \in Nat \ {0}
    PROVE  n \div p = (n \div (Base * p)) * Base + ((n \div p) % Base)
<1>0. Base \in Nat \ {0}
  BY BytesAssumption
<1>1. Base * p \in Nat \ {0}
  BY <1>0
<1> DEFINE m == n \div p  r == n % p  q == m \div Base  t == m % Base
           bp == Base * p  Q == n \div bp  u == n % bp
<1>2. r \in 0..(p - 1) /\ m \in Nat /\ n = p * m + r
  BY Zenon, DivMod
<1>3. t \in 0..(Base - 1) /\ q \in Nat /\ m = Base * q + t
  BY Zenon, <1>0, <1>2, DivMod
<1>4. u \in 0..(bp - 1) /\ Q \in Nat /\ n = bp * Q + u
  BY Zenon, <1>1, DivMod
<1> HIDE DEF m, r, q, t, Q, u
<1>5. p * t + r \in 0..(bp - 1)
  <2>1. PICK j \in Nat : Base = t + 1 + j
    <3>1. Base - t - 1 \in Nat /\ Base = t + 1 + (Base - t - 1)
      BY <1>0, <1>3
    <3> QED BY Zenon, <3>1
  <2>2. bp = p * t + p + p * j
    <3>1. Base * p = (t + 1 + j) * p
      BY <2>1
    <3>2. t \in Nat /\ (t + 1 + j) * p = p * t + p + p * j
      BY <1>3
    <3> QED BY <3>1, <3>2
  <2>3. p * j \in Nat /\ p * t \in Nat
    BY <1>3
  <2> QED BY <1>2, <2>2, <2>3
<1>6. n = bp * q + (p * t + r)
  <2>1. t \in Nat /\ p * (Base * q + t) = (Base * p) * q + p * t
    BY <1>0, <1>3
  <2>2. n = ((Base * p) * q + p * t) + r
    BY Zenon, <1>2, <1>3, <2>1
  <2>3. (Base * p) * q \in Nat /\ p * t \in Nat /\ r \in Nat
    BY <1>0, <1>2, <1>3, <2>1
  <2>4. PICK a \in Nat, b \in Nat : a = (Base * p) * q /\ b = p * t
    BY Zenon, <2>3
  <2>5. n = (a + b) + r
    BY Zenon, <2>2, <2>4
  <2>6. n = a + (b + r)
    BY <2>3, <2>5
  <2> QED BY Zenon, <2>4, <2>6
<1>7. q = Q
  <2> HIDE DEF bp
  <2>1. bp \in Nat \ {0}
    BY <1>1 DEF bp
  <2> QED BY <1>3, <1>4, <1>5, <1>6, <2>1, QuotientUnique
<1>8. m = Q * Base + t
  BY <1>0, <1>3, <1>7
<1> QED BY <1>8 DEF m, Q, t

\* A number that fits into k bytes is read as it was written.
LEMMA NumberRoundTrip ==
    ASSUME NEW k \in Nat, NEW n \in Nat, n < Power[k]
    PROVE  /\ ToBE(n, k) \in Seq(Byte) /\ Len(ToBE(n, k)) = k
           /\ FromBE(ToBE(n, k)) = n
<1>0. Base \in Nat \ {0}
  BY BytesAssumption
<1> DEFINE s == ToBE(n, k)
<1>1. \A i \in 1..k : k - i \in Nat /\ Power[k - i] \in Nat \ {0}
                      /\ (n \div Power[k - i]) % Base \in Byte
  <2> TAKE i \in 1..k
  <2>1. k - i \in Nat
    OBVIOUS
  <2>2. Power[k - i] \in Nat \ {0}
    BY Zenon, <2>1, PowerDef
  <2>3. n \div Power[k - i] \in Nat
    BY Zenon, <2>2, DivMod
  <2>4. (n \div Power[k - i]) % Base \in Byte
    BY <1>0, <2>3, DivMod DEF Byte
  <2> QED BY Zenon, <2>1, <2>2, <2>4
<1>2. s \in [1..k -> Byte]
  BY Zenon, <1>1 DEF ToBE
<1>3. s \in Seq(Byte) /\ Len(s) = k
  <2> HIDE DEF s
  <2> QED BY <1>2
<1>4. PICK f \in [0..k -> Nat] : /\ f[0] = 0
                                 /\ \A j \in 1..k : f[j] = f[j - 1] * Base + s[j]
                                 /\ FromBE(s) = f[k]
  <2> HIDE DEF s
  <2> QED BY Zenon, <1>3, FromBEDef
<1> DEFINE S == {j \in Nat : j <= k => f[j] = n \div Power[k - j]}
<1>5. 0 \in S
  <2>1. Power[k] \in Nat \ {0}
    BY Zenon, PowerDef
  <2>4. n \div Power[k] = 0
    BY Zenon, <2>1, SmallQuotient
  <2>5. k - 0 = k
    OBVIOUS
  <2> QED BY Zenon, <1>4, <2>4, <2>5
<1>6. ASSUME NEW j \in S PROVE j + 1 \in S
  <2>1. j \in Nat /\ j + 1 \in Nat /\ (j <= k => f[j] = n \div Power[k - j])
    OBVIOUS
  <2>2. ASSUME j + 1 <= k PROVE f[j + 1] = n \div Power[k - (j + 1)]
    <3>1. j + 1 \in 1..k /\ (j + 1) - 1 = j /\ j <= k /\ k - (j + 1) \in Nat
          /\ (k - (j + 1)) + 1 = k - j
      BY <2>1, <2>2
    <3>2. f[j + 1] = f[j] * Base + s[j + 1]
      BY Zenon, <1>4, <3>1
    <3>3. s[j + 1] = (n \div Power[k - (j + 1)]) % Base
      BY Zenon, <3>1 DEF ToBE
    <3>4. Power[k - j] = Base * Power[k - (j + 1)] /\ Power[k - (j + 1)] \in Nat \ {0}
      BY Zenon, <3>1, PowerDef
    <3>5. n \div Power[k - (j + 1)]
            = (n \div (Base * Power[k - (j + 1)])) * Base + ((n \div Power[k - (j + 1)]) % Base)
      BY Zenon, <3>4, NextByte
    <3> QED BY Zenon, <2>1, <3>1, <3>2, <3>3, <3>4, <3>5
  <2> QED BY Zenon, <2>1, <2>2
<1>7. S = Nat
  <2>1. S \subseteq Nat
    BY Zenon
  <2> HIDE DEF S
  <2> QED BY Zenon, <1>5, <1>6, <2>1, NumbersInSet
<1>8. f[k] = n
  <2>1. f[k] = n \div Power[k - k]
    BY <1>7
  <2>2. k - k = 0 /\ n \div 1 = n
    OBVIOUS
  <2> QED BY Zenon, <2>1, <2>2, PowerDef
<1> QED BY Zenon, <1>3, <1>4, <1>8


\* Byte strings, and their concatenation under a name of its own: the provers
\* then leave it alone and use the lemmas about it.
Bytes == Seq(Byte)
Cat(a, b) == a \o b

\* Concatenation adds the lengths.
LEMMA Joined ==
    \A a, b \in Bytes : Cat(a, b) \in Bytes /\ Len(Cat(a, b)) = Len(a) + Len(b)
                        /\ Len(a) \in Nat /\ Len(b) \in Nat
<1> TAKE a, b \in Bytes
<1>1. Cat(a, b) \in Bytes /\ Len(Cat(a, b)) = Len(a) + Len(b)
  BY ConcatProperties DEF Cat, Bytes
<1>2. Len(a) \in Nat /\ Len(b) \in Nat
  BY LenProperties DEF Bytes
<1> QED BY Zenon, <1>1, <1>2

\* Brackets do not matter.
LEMMA Regroup == \A a, b, c \in Bytes : Cat(Cat(a, b), c) = Cat(a, Cat(b, c))
BY ConcatAssociative DEF Cat, Bytes

\* The empty string adds nothing, and only it has length zero.
LEMMA Nothing ==
    /\ <<>> \in Bytes /\ Len(<<>>) = 0
    /\ \A a \in Bytes : /\ Cat(<<>>, a) = a /\ Cat(a, <<>>) = a
                        /\ Len(a) \in Nat /\ (Len(a) = 0 => a = <<>>)
BY ConcatEmptySeq, EmptySeq, LenProperties DEF Cat, Bytes

\* A field in the middle of a sequence.
LEMMA MiddleField ==
    ASSUME NEW a \in Seq(Byte), NEW b \in Seq(Byte), NEW c \in Seq(Byte),
           NEW P, P = a \o (b \o c)
    PROVE  Field(P, Len(a), Len(b)) = b
<1>1. b \o c \in Seq(Byte) /\ Len(b \o c) = Len(b) + Len(c)
      /\ Len(a) \in Nat /\ Len(b) \in Nat /\ Len(c) \in Nat
  BY ConcatProperties, LenProperties
<1>2. P \in Seq(Byte) /\ Len(P) = Len(a) + (Len(b) + Len(c))
  BY <1>1, ConcatProperties
<1>3. \A i \in 1..Len(b) : P[Len(a) + i] = b[i]
  <2> TAKE i \in 1..Len(b)
  <2>1. Len(a) + i \in 1..(Len(a) + Len(b \o c)) /\ ~(Len(a) + i <= Len(a))
        /\ (Len(a) + i) - Len(a) = i /\ i \in 1..(Len(b) + Len(c)) /\ i <= Len(b)
    BY <1>1
  <2>2. P[Len(a) + i] = (b \o c)[i]
    BY <1>1, <2>1, ConcatProperties
  <2>3. (b \o c)[i] = b[i]
    BY <2>1, ConcatProperties
  <2> QED BY Zenon, <2>2, <2>3
<1> DEFINE m == Len(a) + 1  n == Len(a) + Len(b)
<1>4. \A i \in m..n : P[i] \in Byte
  <2> TAKE i \in m..n
  <2>1. i \in 1..Len(P)
    BY <1>1, <1>2
  <2> QED BY <1>2, <2>1, ElementOfSeq
<1>5. /\ m \in Int /\ n \in Int /\ n - m + 1 = Len(b) /\ (IF m <= n THEN n - m + 1 ELSE 0) = Len(b)
      /\ \A i \in 1..Len(b) : m + i - 1 = Len(a) + i
  BY <1>1
<1>6. /\ SubSeq(P, m, n) \in Seq(Byte) /\ Len(SubSeq(P, m, n)) = Len(b)
      /\ \A i \in 1..Len(b) : SubSeq(P, m, n)[i] = P[Len(a) + i]
  <2> HIDE DEF m, n
  <2>1. /\ SubSeq(P, m, n) \in Seq(Byte)
        /\ Len(SubSeq(P, m, n)) = IF m <= n THEN n - m + 1 ELSE 0
        /\ \A i \in 1..(n - m + 1) : SubSeq(P, m, n)[i] = P[m + i - 1]
    BY <1>4, <1>5, SubSeqProperties
  <2> QED BY Zenon, <1>5, <2>1
<1>7. SubSeq(P, m, n) = b
  <2> HIDE DEF m, n
  <2>1. \A i \in 1..Len(b) : SubSeq(P, m, n)[i] = b[i]
    BY Zenon, <1>3, <1>6
  <2> QED BY Zenon, <1>6, <2>1, SeqEqual
<1> QED BY Zenon, <1>7 DEF Field

\* The field behind a and before c.
LEMMA FieldIs ==
    \A a, b, c \in Bytes : Field(Cat(a, Cat(b, c)), Len(a), Len(b)) = b
BY Zenon, MiddleField DEF Cat, Bytes

\* What comes behind the first n bytes.
Behind(P, n) == SubSeq(P, n + 1, Len(P))

\* Both parts of a concatenation.
LEMMA BothParts ==
    \A a, b \in Bytes : /\ Field(Cat(a, b), 0, Len(a)) = a
                        /\ Behind(Cat(a, b), Len(a)) = b
<1> TAKE a, b \in Bytes
<1>1. Cat(a, b) \in Bytes /\ Len(Cat(a, b)) = Len(a) + Len(b) /\ Len(a) \in Nat /\ Len(b) \in Nat
  BY Joined
<1>2. Field(Cat(a, b), 0, Len(a)) = a
  <2>1. Field(Cat(<<>>, Cat(a, b)), Len(<<>>), Len(a)) = a
    BY Nothing, FieldIs
  <2> QED BY <1>1, <2>1, Nothing
<1>3. Field(Cat(a, b), Len(a), Len(b)) = b
  <2>1. Field(Cat(a, Cat(b, <<>>)), Len(a), Len(b)) = b
    BY Nothing, FieldIs
  <2> QED BY <2>1, Nothing
<1>4. Behind(Cat(a, b), Len(a)) = b
  BY Zenon, <1>1, <1>3 DEF Behind, Field
<1> QED BY Zenon, <1>2, <1>4

\* Any string can be cut in two.
LEMMA CutInTwo ==
    ASSUME NEW P \in Bytes, NEW n \in 0..Len(P)
    PROVE  /\ SubSeq(P, 1, n) \in Bytes /\ Len(SubSeq(P, 1, n)) = n
           /\ Behind(P, n) \in Bytes /\ P = Cat(SubSeq(P, 1, n), Behind(P, n))
<1>1. Len(P) \in Nat /\ P \in Seq(Byte)
  BY Nothing DEF Bytes
<1>2. \A i \in 1..Len(P) : P[i] \in Byte
  BY <1>1, ElementOfSeq
<1>3. SubSeq(P, 1, n) \in Bytes /\ Len(SubSeq(P, 1, n)) = n
  <2>1. \A i \in 1..n : P[i] \in Byte
    BY <1>1, <1>2
  <2>2. SubSeq(P, 1, n) \in Seq(Byte) /\ Len(SubSeq(P, 1, n)) = IF 1 <= n THEN n - 1 + 1 ELSE 0
    BY <2>1, SubSeqProperties
  <2> QED BY <2>2 DEF Bytes
<1>4. Behind(P, n) \in Bytes
  <2>1. n + 1 \in Int /\ Len(P) \in Int /\ (\A i \in (n + 1)..Len(P) : P[i] \in Byte)
    BY <1>1, <1>2
  <2> QED BY Zenon, <2>1, SubSeqProperties DEF Bytes, Behind
<1>5. SubSeq(P, 1, n) \o SubSeq(P, n + 1, Len(P)) = SubSeq(P, 1, Len(P))
  <2>1. 1 \in 1..(Len(P) + 1) /\ n \in (1 - 1)..Len(P) /\ Len(P) \in n..Len(P)
    BY <1>1
  <2> QED BY Zenon, <1>1, <2>1, ConcatAdjacentSubSeq
<1>6. SubSeq(P, 1, Len(P)) = P
  BY <1>1, SubSeqFull
<1> QED BY Zenon, <1>3, <1>4, <1>5, <1>6 DEF Cat, Behind


\* A header has HEADER_SIZE bytes and is read as it was written, whatever
\* follows it.
LEMMA HeaderRoundTrip ==
    ASSUME NEW type \in Byte, NEW len \in Nat, len < Power[LenBytes],
           NEW id \in Nat, id < Power[IdBytes]
    PROVE  /\ Header(type, len, id) \in Bytes
           /\ HEADER_SIZE \in Nat \ {0} /\ Len(Header(type, len, id)) = HEADER_SIZE
           /\ \A R \in Bytes :
                  decode_header(Cat(Header(type, len, id), R))
                      = [valid |-> TRUE, type |-> type, payload_len |-> len, msg_id |-> id]
<1> DEFINE M == Magic  T == <<type>>  L == ToBE(len, LenBytes)  I == ToBE(id, IdBytes)
           MT == Cat(M, T)  MTL == Cat(MT, L)  H == Cat(MTL, I)
<1>1. M \in Bytes /\ T \in Bytes /\ Len(T) = 1
  BY BytesAssumption DEF Bytes
<1>2. L \in Bytes /\ Len(L) = LenBytes /\ FromBE(L) = len /\ LenBytes \in Nat \ {0}
  BY Zenon, BytesAssumption, NumberRoundTrip DEF Bytes
<1>3. I \in Bytes /\ Len(I) = IdBytes /\ FromBE(I) = id /\ IdBytes \in Nat \ {0}
  BY Zenon, BytesAssumption, NumberRoundTrip DEF Bytes
<1>t. T[1] = type
  OBVIOUS
<1>h. H = Header(type, len, id)
  BY Zenon DEF Header, Cat
<1>m. HEADER_SIZE = Len(M) + 1 + LenBytes + IdBytes
  BY DEF HEADER_SIZE
<1>d. ASSUME NEW P
      PROVE  decode_header(P) = [valid |-> Field(P, 0, Len(M)) = M, type |-> P[Len(M) + 1],
                                 payload_len |-> FromBE(Field(P, Len(M) + 1, LenBytes)),
                                 msg_id |-> FromBE(Field(P, Len(M) + 1 + LenBytes, IdBytes))]
  BY Zenon DEF decode_header
<1> HIDE DEF M, T, L, I, MT, MTL, H
<1>4. MT \in Bytes /\ Len(MT) = Len(M) + 1 /\ Len(M) \in Nat
  <2>1. Cat(M, T) \in Bytes /\ Len(Cat(M, T)) = Len(M) + Len(T) /\ Len(M) \in Nat
    BY Zenon, <1>1, Joined
  <2> QED BY Zenon, <1>1, <2>1 DEF MT
<1>5. MTL \in Bytes /\ Len(MTL) = Len(M) + 1 + LenBytes
  <2>1. Cat(MT, L) \in Bytes /\ Len(Cat(MT, L)) = Len(MT) + Len(L)
    BY Zenon, <1>2, <1>4, Joined
  <2> QED BY Zenon, <1>2, <1>4, <2>1 DEF MTL
<1>6. H \in Bytes /\ Len(H) = Len(M) + 1 + LenBytes + IdBytes
  <2>1. Cat(MTL, I) \in Bytes /\ Len(Cat(MTL, I)) = Len(MTL) + Len(I)
    BY Zenon, <1>3, <1>5, Joined
  <2> QED BY Zenon, <1>3, <1>5, <2>1 DEF H
<1>7. Len(H) = HEADER_SIZE /\ HEADER_SIZE \in Nat \ {0}
  BY <1>2, <1>3, <1>4, <1>6, <1>m
<1>8. ASSUME NEW R \in Bytes
      PROVE  decode_header(Cat(H, R))
                 = [valid |-> TRUE, type |-> type, payload_len |-> len, msg_id |-> id]
  <2> DEFINE P == Cat(H, R)  X == Cat(I, R)  Y == Cat(L, X)  Z == Cat(T, Y)
  <2> HIDE DEF P, X, Y, Z
  <2>1. X \in Bytes
    BY Zenon, <1>3, Joined DEF X
  <2>2. Y \in Bytes
    BY Zenon, <1>2, <2>1, Joined DEF Y
  <2>3. Z \in Bytes /\ Len(Z) = 1 + Len(Y) /\ Len(Y) \in Nat
    <3>1. Cat(T, Y) \in Bytes /\ Len(Cat(T, Y)) = Len(T) + Len(Y) /\ Len(Y) \in Nat
      BY Zenon, <1>1, <2>2, Joined
    <3> QED BY Zenon, <1>1, <3>1 DEF Z
  <2>4. P = Cat(MTL, X)
    BY <1>3, <1>5, Regroup DEF P, H, X
  <2>5. P = Cat(MT, Y)
    BY <1>2, <1>4, <2>1, <2>4, Regroup DEF MTL, Y
  <2>6. P = Cat(M, Z)
    BY <1>1, <2>2, <2>5, Regroup DEF MT, Z
  <2>7. Field(P, Len(M) + 1 + LenBytes, IdBytes) = I
    BY <1>3, <1>5, <2>4, FieldIs DEF X
  <2>8. Field(P, Len(M) + 1, LenBytes) = L
    BY <1>2, <1>4, <2>1, <2>5, FieldIs DEF Y
  <2>9. Field(P, 0, Len(M)) = M
    BY <1>1, <2>3, <2>6, BothParts
  <2>10. P[Len(M) + 1] = type
    <3>1. P = M \o Z /\ Z = T \o Y
      BY <2>6 DEF Cat, Z
    <3>2. M \in Seq(Byte) /\ T \in Seq(Byte) /\ Y \in Seq(Byte) /\ Z \in Seq(Byte)
      BY <1>1, <2>2, <2>3 DEF Bytes
    <3>3. Len(M) + 1 \in 1..(Len(M) + Len(Z)) /\ ~(Len(M) + 1 <= Len(M)) /\ (Len(M) + 1) - Len(M) = 1
          /\ 1 \in 1..(Len(T) + Len(Y)) /\ 1 <= Len(T)
      BY <1>1, <1>4, <2>3
    <3>4. P[Len(M) + 1] = Z[1]
      BY <3>1, <3>2, <3>3, ConcatProperties
    <3>5. Z[1] = T[1]
      BY <3>1, <3>2, <3>3, ConcatProperties
    <3> QED BY Zenon, <1>t, <3>4, <3>5
  <2>11. decode_header(P) = [valid |-> TRUE, type |-> type, payload_len |-> len, msg_id |-> id]
    BY Zenon, <1>2, <1>3, <1>d, <2>7, <2>8, <2>9, <2>10
  <2> QED BY Zenon, <2>11 DEF P
<1> QED BY Zenon, <1>6, <1>7, <1>8, <1>h


\* A string behind its length is found again, whatever follows it, if the
\* length fits into its field.
LEMMA CountedRoundTrip ==
    ASSUME NEW t \in Bytes, Uint16(Len(t)) = Len(t)
    PROVE  /\ TopicLenBytes \in Nat \ {0} /\ Len(t) \in Nat
           /\ Counted(t) \in Bytes /\ Len(Counted(t)) = TopicLenBytes + Len(t)
           /\ \A R \in Bytes :
                 /\ Cat(Counted(t), R) \in Bytes
                 /\ Len(Cat(Counted(t), R)) = TopicLenBytes + Len(t) + Len(R)
                 /\ FromBE(Field(Cat(Counted(t), R), 0, TopicLenBytes)) = Len(t)
                 /\ Field(Cat(Counted(t), R), TopicLenBytes, Len(t)) = t
                 /\ Behind(Cat(Counted(t), R), TopicLenBytes + Len(t)) = R
<1> DEFINE w == TopicLenBytes  N == ToBE(Len(t), w)  C == Cat(N, t)
<1>1. w \in Nat \ {0} /\ Len(t) \in Nat
  BY BytesAssumption, Nothing
<1>2. Power[w] \in Nat \ {0}
  BY Zenon, <1>1, PowerDef
<1>3. Len(t) % Power[w] \in 0..(Power[w] - 1)
  BY Zenon, <1>1, <1>2, DivMod
<1>4. Len(t) < Power[w]
  BY <1>1, <1>2, <1>3 DEF Uint16
<1>5. N \in Bytes /\ Len(N) = w /\ FromBE(N) = Len(t)
  BY Zenon, <1>1, <1>4, NumberRoundTrip DEF Bytes
<1>c. C = Counted(t)
  BY Zenon DEF Counted, Cat
<1> HIDE DEF N, C
<1>6. C \in Bytes /\ Len(C) = w + Len(t)
  <2>1. Cat(N, t) \in Bytes /\ Len(Cat(N, t)) = Len(N) + Len(t)
    BY Zenon, <1>5, Joined
  <2> QED BY Zenon, <1>5, <2>1 DEF C
<1>7. ASSUME NEW R \in Bytes
      PROVE  /\ Cat(C, R) \in Bytes /\ Len(Cat(C, R)) = w + Len(t) + Len(R)
             /\ FromBE(Field(Cat(C, R), 0, w)) = Len(t)
             /\ Field(Cat(C, R), w, Len(t)) = t
             /\ Behind(Cat(C, R), w + Len(t)) = R
  <2>1. Cat(C, R) \in Bytes /\ Len(Cat(C, R)) = Len(C) + Len(R) /\ Len(R) \in Nat
    BY Zenon, <1>6, Joined
  <2>2. Cat(t, R) \in Bytes
    BY Zenon, Joined
  <2>3. Cat(C, R) = Cat(N, Cat(t, R))
    BY <1>5, Regroup DEF C
  <2>4. Field(Cat(C, R), 0, w) = N
    BY <1>5, <2>2, <2>3, BothParts
  <2>5. Field(Cat(C, R), w, Len(t)) = t
    BY <1>5, <2>3, FieldIs
  <2>6. Behind(Cat(C, R), w + Len(t)) = R
    BY <1>6, BothParts
  <2>7. Len(Cat(C, R)) = w + Len(t) + Len(R)
    BY Zenon, <1>6, <2>1
  <2> QED BY Zenon, <1>5, <2>1, <2>4, <2>5, <2>6, <2>7
<1> QED BY Zenon, <1>1, <1>6, <1>7, <1>c

\* decode_publish and decodeEventPayload give back topic and body.
LEMMA DataRead ==
    ASSUME NEW t \in Bytes, NEW r \in Bytes, Uint16(Len(t)) = Len(t)
    PROVE  /\ Cat(Counted(t), r) \in Bytes
           /\ Len(Cat(Counted(t), r)) = TopicLenBytes + Len(t) + Len(r)
           /\ decode_publish(Cat(Counted(t), r)) = [topic |-> t, rest |-> r]
           /\ decodeEventPayload(Cat(Counted(t), r)) = [topic |-> t, rest |-> r]
<1> DEFINE w == TopicLenBytes  P == Cat(Counted(t), r)
<1>1. /\ w \in Nat \ {0} /\ Len(t) \in Nat /\ P \in Bytes /\ Len(P) = w + Len(t) + Len(r)
      /\ FromBE(Field(P, 0, w)) = Len(t) /\ Field(P, w, Len(t)) = t
      /\ Behind(P, w + Len(t)) = r
  BY Zenon, CountedRoundTrip
<1>2. Len(r) \in Nat
  BY Nothing
<1> HIDE DEF P
<1>3. ~(Len(P) < w \/ Len(P) < w + Len(t))
  BY <1>1, <1>2
<1>4. decode_publish(P) = [topic |-> t, rest |-> r]
  <2>1. SubSeq(P, w + Len(t) + 1, Len(P)) = r
    BY Zenon, <1>1 DEF Behind
  <2> QED BY Zenon, <1>1, <1>3, <2>1 DEF decode_publish
<1>5. decodeEventPayload(P) = [topic |-> t, rest |-> r]
  <2> DEFINE end == IF w + Len(t) < Len(P) THEN w + Len(t) ELSE Len(P)
  <2>1. end = w + Len(t)
    BY <1>1, <1>2
  <2>2. SubSeq(P, w + 1, end) = t /\ SubSeq(P, end + 1, Len(P)) = r
    <3> HIDE DEF end
    <3> QED BY Zenon, <1>1, <2>1 DEF Behind, Field
  <2> QED BY Zenon, <1>1, <1>3, <2>2 DEF decodeEventPayload
<1> QED BY Zenon, <1>1, <1>4, <1>5 DEF P

\* decode_subscribe gives back topic and group.
LEMMA SubscribeRead ==
    ASSUME NEW t \in Bytes, NEW g \in Bytes, Uint16(Len(t)) = Len(t), Uint16(Len(g)) = Len(g)
    PROVE  /\ Cat(Counted(t), Counted(g)) \in Bytes
           /\ Len(Cat(Counted(t), Counted(g))) = 2 * TopicLenBytes + Len(t) + Len(g)
           /\ decode_subscribe(Cat(Counted(t), Counted(g))) = [topic |-> t, rest |-> g]
<1> DEFINE w == TopicLenBytes  P == Cat(Counted(t), Counted(g))
<1>1. w \in Nat \ {0} /\ Counted(g) \in Bytes /\ Len(Counted(g)) = w + Len(g) /\ Len(g) \in Nat
  BY Zenon, CountedRoundTrip
<1>2. /\ Len(t) \in Nat /\ P \in Bytes /\ Len(P) = w + Len(t) + Len(Counted(g))
      /\ FromBE(Field(P, 0, w)) = Len(t) /\ Field(P, w, Len(t)) = t
      /\ Counted(t) \in Bytes /\ Len(Counted(t)) = w + Len(t)
  BY Zenon, <1>1, CountedRoundTrip
<1> DEFINE N == Field(Counted(g), 0, w)
<1>3. Counted(g) = Cat(N, g) /\ N \in Bytes /\ Len(N) = w /\ FromBE(N) = Len(g)
  <2>1. Counted(g) = Cat(Counted(g), <<>>) /\ <<>> \in Bytes
    BY <1>1, Nothing
  <2>r. \A R \in Bytes : FromBE(Field(Cat(Counted(g), R), 0, w)) = Len(g)
                         /\ Field(Cat(Counted(g), R), w, Len(g)) = g
    BY Zenon, CountedRoundTrip
  <2>2. FromBE(N) = Len(g) /\ Field(Counted(g), w, Len(g)) = g
    BY Zenon, <2>1, <2>r
  <2>3. w \in 0..Len(Counted(g))
    BY <1>1
  <2>4. /\ SubSeq(Counted(g), 1, w) \in Bytes /\ Len(SubSeq(Counted(g), 1, w)) = w
        /\ Counted(g) = Cat(SubSeq(Counted(g), 1, w), Behind(Counted(g), w))
    BY Zenon, <1>1, <2>3, CutInTwo
  <2>5. N = SubSeq(Counted(g), 1, w)
    BY <1>1 DEF Field
  <2>6. Behind(Counted(g), w) = g
    BY Zenon, <1>1, <2>2 DEF Behind, Field
  <2> QED BY Zenon, <2>2, <2>4, <2>5, <2>6
<1> HIDE DEF N, P
<1>4. Field(P, w + Len(t), w) = N
  BY <1>2, <1>3, FieldIs DEF P
<1>5. Field(P, 2 * w + Len(t), Len(g)) = g
  <2>1. Cat(Counted(t), N) \in Bytes /\ Len(Cat(Counted(t), N)) = Len(Counted(t)) + Len(N)
    BY Zenon, <1>2, <1>3, Joined
  <2>2. P = Cat(Cat(Counted(t), N), g)
    BY <1>2, <1>3, Regroup DEF P
  <2>3. P = Cat(Cat(Counted(t), N), Cat(g, <<>>)) /\ <<>> \in Bytes
    BY <2>2, Nothing
  <2>4. Field(P, Len(Cat(Counted(t), N)), Len(g)) = g
    BY <2>1, <2>3, FieldIs
  <2>5. Len(Cat(Counted(t), N)) = 2 * w + Len(t)
    BY <1>1, <1>2, <1>3, <2>1
  <2> QED BY Zenon, <2>4, <2>5
<1>6. Len(P) = 2 * w + Len(t) + Len(g)
  BY <1>1, <1>2
<1>7. ~(Len(P) < w \/ Len(P) < 2 * w + Len(t)) /\ Len(P) >= (2 * w + Len(t)) + Len(g)
  BY <1>1, <1>2, <1>6
<1>8. decode_subscribe(P) = [topic |-> t, rest |-> g]
  BY Zenon, <1>2, <1>3, <1>4, <1>5, <1>7 DEF decode_subscribe
<1> QED BY Zenon, <1>2, <1>6, <1>8 DEF P

------------------------------------------------------------------------------
\* Frames that can be read back, their payloads and what is sent for them.
Sound == {f \in Frames : Whole(f)}

Payload(f) ==
    CASE f.type = SUBSCRIBE -> Cat(Counted(f.topic), Counted(f.rest))
      [] f.type \in {PUBLISH, EVENT_DATA} -> Cat(Counted(f.topic), f.rest)
      [] OTHER -> <<>>

Wire(f) == IF f.type = EVENT_DATA THEN encode_frame(EVENT_DATA, f.msg_id, f.topic, f.rest)
           ELSE Encoded(f)

HeaderOf(f) == [valid |-> TRUE, type |-> f.type, payload_len |-> PayloadLen(f), msg_id |-> f.msg_id]

\* What is known of a sound frame.
LEMMA SoundFrame ==
    ASSUME NEW f \in Sound
    PROVE  /\ f.type \in 1..6 /\ f.type \in Byte /\ f.msg_id \in Nat /\ f.topic \in Bytes /\ f.rest \in Bytes
           /\ f = [type |-> f.type, msg_id |-> f.msg_id, topic |-> f.topic, rest |-> f.rest]
           /\ f.msg_id < Power[IdBytes] /\ PayloadLen(f) < Power[LenBytes]
           /\ Uint16(Len(f.topic)) = Len(f.topic)
           /\ f.type = SUBSCRIBE => Uint16(Len(f.rest)) = Len(f.rest)
           /\ f.type \in {SUBSCRIBE, PUBLISH} => f.msg_id = 0
           /\ f.type \in {ACK, NACK, HEARTBEAT} => f.topic = <<>> /\ f.rest = <<>>
<1>1. f \in [type : 1..6, msg_id : Nat, topic : Seq(Byte), rest : Seq(Byte)]
      /\ f.msg_id < Power[IdBytes] /\ PayloadLen(f) < Power[LenBytes] /\ Whole(f)
  BY Zenon DEF Sound, Frames
<1>2. /\ f.type \in 1..6 /\ f.msg_id \in Nat /\ f.topic \in Seq(Byte) /\ f.rest \in Seq(Byte)
      /\ f = [type |-> f.type, msg_id |-> f.msg_id, topic |-> f.topic, rest |-> f.rest]
  BY <1>1
<1>3. f.type \in Byte
  <2>1. f.type \in 1..6 /\ Base \in Nat /\ Base > 7
    BY Zenon, <1>2, BytesAssumption
  <2> QED BY <2>1 DEF Byte
<1> QED BY Zenon, <1>1, <1>2, <1>3 DEF Whole, Bytes

\* The payload of a sound frame has the length that the header gives, and both
\* sides read the frame back from it.
LEMMA PayloadRoundTrip ==
    ASSUME NEW f \in Sound
    PROVE  /\ Payload(f) \in Bytes /\ PayloadLen(f) \in Nat /\ Len(Payload(f)) = PayloadLen(f)
           /\ f.type # EVENT_DATA => OnFrame(HeaderOf(f), Payload(f)) = f
           /\ f.type \in {EVENT_DATA, HEARTBEAT} => OnEvent(HeaderOf(f), Payload(f)) = f
<1> DEFINE t == f.topic  r == f.rest
<1>1. /\ f.type \in 1..6 /\ t \in Bytes /\ r \in Bytes /\ Uint16(Len(t)) = Len(t)
      /\ f = [type |-> f.type, msg_id |-> f.msg_id, topic |-> t, rest |-> r]
      /\ f.type = SUBSCRIBE => Uint16(Len(r)) = Len(r)
      /\ f.type \in {ACK, NACK, HEARTBEAT} => t = <<>> /\ r = <<>>
  BY Zenon, SoundFrame
<1>2. HeaderOf(f).type = f.type /\ HeaderOf(f).msg_id = f.msg_id
  BY DEF HeaderOf
<1>p. \A x, y : [topic |-> x, rest |-> y].topic = x /\ [topic |-> x, rest |-> y].rest = y
  OBVIOUS
<1>n. Len(t) \in Nat /\ Len(r) \in Nat /\ TopicLenBytes \in Nat
  BY <1>1, Nothing, BytesAssumption
<1>c. /\ SUBSCRIBE \notin {PUBLISH, EVENT_DATA} /\ HEARTBEAT \notin {SUBSCRIBE, PUBLISH, EVENT_DATA}
      /\ PUBLISH # EVENT_DATA /\ PUBLISH # SUBSCRIBE /\ SUBSCRIBE # EVENT_DATA
  BY DEF SUBSCRIBE, PUBLISH, EVENT_DATA, HEARTBEAT
<1>3. CASE f.type = SUBSCRIBE
  <2>a. Payload(f) = Cat(Counted(t), Counted(r))
    BY Zenon, <1>3, <1>c DEF Payload
  <2>b. PayloadLen(f) = 2 * TopicLenBytes + Uint16(Len(t)) + Uint16(Len(r))
    BY Zenon, <1>3, <1>c DEF PayloadLen
  <2>1. PayloadLen(f) = 2 * TopicLenBytes + Len(t) + Len(r)
    BY Zenon, <1>1, <1>3, <2>b
  <2>2. /\ Payload(f) \in Bytes /\ Len(Payload(f)) = 2 * TopicLenBytes + Len(t) + Len(r)
        /\ decode_subscribe(Payload(f)) = [topic |-> t, rest |-> r]
    <3>1. Uint16(Len(r)) = Len(r)
      BY Zenon, <1>1, <1>3
    <3>2. t \in Bytes /\ r \in Bytes /\ Uint16(Len(t)) = Len(t)
      BY Zenon, <1>1
    <3> HIDE DEF t, r
    <3> QED BY Zenon, <3>1, <3>2, <2>a, SubscribeRead
  <2>3. OnFrame(HeaderOf(f), Payload(f)) = [type |-> f.type, msg_id |-> f.msg_id, topic |-> t, rest |-> r]
    <3> DEFINE p == CASE HeaderOf(f).type = SUBSCRIBE -> decode_subscribe(Payload(f))
                      [] HeaderOf(f).type = PUBLISH   -> decode_publish(Payload(f))
                      [] OTHER                        -> [topic |-> <<>>, rest |-> <<>>]
    <3>1. p = [topic |-> t, rest |-> r]
      BY Zenon, <1>2, <1>3, <1>c, <2>2
    <3>2. OnFrame(HeaderOf(f), Payload(f)) = [type |-> HeaderOf(f).type, msg_id |-> HeaderOf(f).msg_id,
                                              topic |-> p.topic, rest |-> p.rest]
      BY Zenon DEF OnFrame
    <3> HIDE DEF p
    <3>3. p.topic = t /\ p.rest = r
      BY Zenon, <1>p, <3>1
    <3> QED BY Zenon, <1>2, <3>2, <3>3
  <2>4. PayloadLen(f) \in Nat
    <3>1. \A x, y, z \in Nat : 2 * x + y + z \in Nat
      OBVIOUS
    <3> QED BY Zenon, <1>n, <2>1, <3>1
  <2> QED BY Zenon, <1>1, <1>3, <1>c, <2>1, <2>2, <2>3, <2>4
<1>4. CASE f.type \in {PUBLISH, EVENT_DATA}
  <2>a. Payload(f) = Cat(Counted(t), r)
    BY Zenon, <1>4, <1>c DEF Payload
  <2>b. PayloadLen(f) = TopicLenBytes + Uint16(Len(t)) + Len(r)
    BY Zenon, <1>4, <1>c DEF PayloadLen
  <2>1. PayloadLen(f) = TopicLenBytes + Len(t) + Len(r)
    BY Zenon, <1>1, <2>b
  <2>2. /\ Payload(f) \in Bytes /\ Len(Payload(f)) = TopicLenBytes + Len(t) + Len(r)
        /\ decode_publish(Payload(f)) = [topic |-> t, rest |-> r]
        /\ decodeEventPayload(Payload(f)) = [topic |-> t, rest |-> r]
    <3>2. t \in Bytes /\ r \in Bytes /\ Uint16(Len(t)) = Len(t)
      BY Zenon, <1>1
    <3> HIDE DEF t, r
    <3> QED BY Zenon, <3>2, <2>a, DataRead
  <2>3. f.type # EVENT_DATA =>
            OnFrame(HeaderOf(f), Payload(f)) = [type |-> f.type, msg_id |-> f.msg_id, topic |-> t, rest |-> r]
    <3> SUFFICES ASSUME f.type = PUBLISH
                 PROVE  OnFrame(HeaderOf(f), Payload(f))
                            = [type |-> f.type, msg_id |-> f.msg_id, topic |-> t, rest |-> r]
      BY Zenon, <1>4
    <3> DEFINE p == CASE HeaderOf(f).type = SUBSCRIBE -> decode_subscribe(Payload(f))
                      [] HeaderOf(f).type = PUBLISH   -> decode_publish(Payload(f))
                      [] OTHER                        -> [topic |-> <<>>, rest |-> <<>>]
    <3>1. p = [topic |-> t, rest |-> r]
      BY Zenon, <1>2, <1>c, <2>2
    <3>2. OnFrame(HeaderOf(f), Payload(f)) = [type |-> HeaderOf(f).type, msg_id |-> HeaderOf(f).msg_id,
                                              topic |-> p.topic, rest |-> p.rest]
      BY Zenon DEF OnFrame
    <3> HIDE DEF p
    <3>3. p.topic = t /\ p.rest = r
      BY Zenon, <1>p, <3>1
    <3> QED BY Zenon, <1>2, <3>2, <3>3
  <2>4. f.type = EVENT_DATA =>
            OnEvent(HeaderOf(f), Payload(f)) = [type |-> f.type, msg_id |-> f.msg_id, topic |-> t, rest |-> r]
    <3> SUFFICES ASSUME f.type = EVENT_DATA
                 PROVE  OnEvent(HeaderOf(f), Payload(f))
                            = [type |-> f.type, msg_id |-> f.msg_id, topic |-> t, rest |-> r]
      BY Zenon
    <3> DEFINE p == IF HeaderOf(f).type = EVENT_DATA THEN decodeEventPayload(Payload(f))
                    ELSE [topic |-> <<>>, rest |-> <<>>]
    <3>1. p = [topic |-> t, rest |-> r]
      BY Zenon, <1>2, <2>2
    <3>2. OnEvent(HeaderOf(f), Payload(f)) = [type |-> HeaderOf(f).type, msg_id |-> HeaderOf(f).msg_id,
                                              topic |-> p.topic, rest |-> p.rest]
      BY Zenon DEF OnEvent
    <3> HIDE DEF p
    <3>3. p.topic = t /\ p.rest = r
      BY Zenon, <1>p, <3>1
    <3> QED BY Zenon, <1>2, <3>2, <3>3
  <2>5. PayloadLen(f) \in Nat
    <3>1. \A x, y, z \in Nat : x + y + z \in Nat
      OBVIOUS
    <3> QED BY Zenon, <1>n, <2>1, <3>1
  <2> QED BY Zenon, <1>1, <1>4, <1>c, <2>1, <2>2, <2>3, <2>4, <2>5
<1>5. CASE f.type \in {ACK, NACK, HEARTBEAT}
  <2>1. f.type \notin {SUBSCRIBE, PUBLISH, EVENT_DATA}
    BY <1>5 DEF ACK, NACK, HEARTBEAT, SUBSCRIBE, PUBLISH, EVENT_DATA
  <2>2. Payload(f) = <<>> /\ PayloadLen(f) = 0 /\ t = <<>> /\ r = <<>>
    BY <1>1, <1>5, <2>1 DEF Payload, PayloadLen
  <2>3. OnFrame(HeaderOf(f), Payload(f)) = [type |-> f.type, msg_id |-> f.msg_id, topic |-> <<>>, rest |-> <<>>]
    BY <1>2, <2>1 DEF OnFrame
  <2>4. OnEvent(HeaderOf(f), Payload(f)) = [type |-> f.type, msg_id |-> f.msg_id, topic |-> <<>>, rest |-> <<>>]
    BY <1>2, <2>1 DEF OnEvent
  <2>5. <<>> \in Bytes /\ Len(<<>>) = 0 /\ 0 \in Nat
    BY Nothing
  <2> QED BY Zenon, <1>1, <2>2, <2>3, <2>4, <2>5
<1>6. f.type = SUBSCRIBE \/ f.type \in {PUBLISH, EVENT_DATA} \/ f.type \in {ACK, NACK, HEARTBEAT}
  BY <1>1 DEF SUBSCRIBE, PUBLISH, EVENT_DATA, ACK, NACK, HEARTBEAT
<1> QED BY Zenon, <1>3, <1>4, <1>5, <1>6

\* What is sent for a sound frame is its header and its payload.
LEMMA WireShape ==
    ASSUME NEW f \in Sound
    PROVE  /\ Wire(f) = Cat(Header(f.type, PayloadLen(f), f.msg_id), Payload(f))
           /\ Header(f.type, PayloadLen(f), f.msg_id) \in Bytes
           /\ Len(Header(f.type, PayloadLen(f), f.msg_id)) = HEADER_SIZE
           /\ Wire(f) \in Bytes /\ Len(Wire(f)) = HEADER_SIZE + PayloadLen(f)
           /\ HEADER_SIZE \in Nat \ {0} /\ PayloadLen(f) \in Nat
           /\ \A R \in Bytes : decode_header(Cat(Header(f.type, PayloadLen(f), f.msg_id), R)) = HeaderOf(f)
<1> DEFINE t == f.topic  r == f.rest  H == Header(f.type, PayloadLen(f), f.msg_id)
<1>1. /\ f.type \in 1..6 /\ f.type \in Byte /\ f.msg_id \in Nat /\ t \in Bytes /\ r \in Bytes
      /\ f.msg_id < Power[IdBytes] /\ PayloadLen(f) < Power[LenBytes]
      /\ f.type \in {SUBSCRIBE, PUBLISH} => f.msg_id = 0
      /\ Uint16(Len(t)) = Len(t) /\ (f.type = SUBSCRIBE => Uint16(Len(r)) = Len(r))
  BY Zenon, SoundFrame
<1>2. Payload(f) \in Bytes /\ PayloadLen(f) \in Nat /\ Len(Payload(f)) = PayloadLen(f)
  BY Zenon, PayloadRoundTrip
<1>3. /\ H \in Bytes /\ Len(H) = HEADER_SIZE /\ HEADER_SIZE \in Nat \ {0}
      /\ \A R \in Bytes : decode_header(Cat(H, R)) = HeaderOf(f)
  BY Zenon, <1>1, <1>2, HeaderRoundTrip DEF HeaderOf
<1>4. Counted(t) \in Bytes /\ (f.type = SUBSCRIBE => Counted(r) \in Bytes)
  BY Zenon, <1>1, CountedRoundTrip
<1>c. SUBSCRIBE \notin {PUBLISH, EVENT_DATA} /\ PUBLISH # EVENT_DATA /\ SUBSCRIBE # EVENT_DATA
  BY DEF SUBSCRIBE, PUBLISH, EVENT_DATA
<1>5. ASSUME f.type = SUBSCRIBE PROVE Wire(f) = Cat(H, Payload(f))
  <2>1. Wire(f) = encode_subscribe_frame(t, r, 0) /\ f.msg_id = 0
    BY Zenon, <1>1, <1>5, <1>c DEF Wire, Encoded
  <2>2. PayloadLen(f) = 2 * TopicLenBytes + Uint16(Len(t)) + Uint16(Len(r))
        /\ Payload(f) = Cat(Counted(t), Counted(r))
    BY Zenon, <1>5, <1>c DEF PayloadLen, Payload
  <2>3. Wire(f) = Cat(Cat(H, Counted(t)), Counted(r))
    BY Zenon, <1>5, <2>1, <2>2 DEF encode_subscribe_frame, Cat
  <2> HIDE DEF H, t, r
  <2>4. H \in Bytes /\ Counted(t) \in Bytes /\ Counted(r) \in Bytes
    BY Zenon, <1>3, <1>4, <1>5
  <2>5. Cat(Cat(H, Counted(t)), Counted(r)) = Cat(H, Cat(Counted(t), Counted(r)))
    BY <2>4, Regroup
  <2> QED BY Zenon, <2>2, <2>3, <2>5
<1>6. ASSUME f.type \in {PUBLISH, EVENT_DATA} PROVE Wire(f) = Cat(H, Payload(f))
  <2>1. Wire(f) = encode_frame(f.type, f.msg_id, t, r)
    BY <1>1, <1>6, <1>c DEF Wire, Encoded
  <2>2. PayloadLen(f) = TopicLenBytes + Uint16(Len(t)) + Len(r)
        /\ Payload(f) = Cat(Counted(t), r)
    BY <1>6, <1>c DEF PayloadLen, Payload
  <2>3. Wire(f) = Cat(Cat(H, Counted(t)), r)
    BY Zenon, <2>1, <2>2 DEF encode_frame, Cat
  <2> HIDE DEF H, t, r
  <2>4. H \in Bytes /\ Counted(t) \in Bytes /\ r \in Bytes
    BY Zenon, <1>1, <1>3, <1>4
  <2>5. Cat(Cat(H, Counted(t)), r) = Cat(H, Cat(Counted(t), r))
    BY <2>4, Regroup
  <2> QED BY Zenon, <2>2, <2>3, <2>5
<1>7. ASSUME f.type \in {ACK, NACK, HEARTBEAT} PROVE Wire(f) = Cat(H, Payload(f))
  <2>1. f.type \notin {SUBSCRIBE, PUBLISH, EVENT_DATA}
    BY <1>7 DEF ACK, NACK, HEARTBEAT, SUBSCRIBE, PUBLISH, EVENT_DATA
  <2>2. Wire(f) = Header(f.type, 0, f.msg_id) /\ PayloadLen(f) = 0 /\ Payload(f) = <<>>
    BY <2>1 DEF Wire, Encoded, encode_ack_frame, PayloadLen, Payload
  <2>3. Wire(f) = H
    BY Zenon, <2>2
  <2> HIDE DEF H
  <2> QED BY <1>3, <2>2, <2>3, Nothing
<1>8. f.type = SUBSCRIBE \/ f.type \in {PUBLISH, EVENT_DATA} \/ f.type \in {ACK, NACK, HEARTBEAT}
  BY <1>1 DEF SUBSCRIBE, PUBLISH, EVENT_DATA, ACK, NACK, HEARTBEAT
<1>9. Wire(f) = Cat(H, Payload(f))
  BY Zenon, <1>5, <1>6, <1>7, <1>8
<1>10. Wire(f) \in Bytes /\ Len(Wire(f)) = HEADER_SIZE + PayloadLen(f)
  <2> HIDE DEF H
  <2>1. Cat(H, Payload(f)) \in Bytes /\ Len(Cat(H, Payload(f))) = Len(H) + Len(Payload(f))
    BY Zenon, <1>2, <1>3, Joined
  <2> QED BY Zenon, <1>2, <1>3, <1>9, <2>1
<1> QED BY Zenon, <1>2, <1>3, <1>9, <1>10

\* What one side encodes the other decodes, whatever bytes follow: the header
\* gives the length of the frame, on_frame reads what the gateway's encoders
\* wrote, and wsServer reads what encode_frame and encode_ack_frame wrote.
THEOREM FrameRoundTrip ==
    ASSUME NEW f \in Sound, NEW R \in Bytes
    PROVE  LET wire == Cat(Wire(f), R)
               h == decode_header(wire)
               payload == Field(wire, HEADER_SIZE, h.payload_len)
           IN  /\ h.valid /\ Len(Wire(f)) = HEADER_SIZE + h.payload_len
               /\ f.type # EVENT_DATA => OnFrame(h, payload) = f
               /\ f.type \in {EVENT_DATA, HEARTBEAT} => OnEvent(h, payload) = f
<1> DEFINE H == Header(f.type, PayloadLen(f), f.msg_id)  P == Payload(f)  W == Wire(f)
           n == PayloadLen(f)  wire == Cat(W, R)
<1>1. /\ W = Cat(H, P) /\ H \in Bytes /\ Len(H) = HEADER_SIZE /\ Len(W) = HEADER_SIZE + n
      /\ \A Q \in Bytes : decode_header(Cat(H, Q)) = HeaderOf(f)
  BY Zenon, WireShape
<1>2. P \in Bytes /\ Len(P) = n
  BY Zenon, PayloadRoundTrip
<1>3. HeaderOf(f).valid = TRUE /\ HeaderOf(f).payload_len = n
  BY DEF HeaderOf
<1> HIDE DEF H, P, W, n
<1>4. wire = Cat(H, Cat(P, R)) /\ Cat(P, R) \in Bytes
  <2>1. Cat(P, R) \in Bytes
    BY Zenon, <1>2, Joined
  <2> QED BY <1>1, <1>2, <2>1, Regroup
<1> HIDE DEF wire
<1>5. decode_header(wire) = HeaderOf(f)
  BY Zenon, <1>1, <1>4
<1>6. Field(wire, HEADER_SIZE, n) = P
  BY <1>1, <1>2, <1>4, FieldIs
<1> QED BY Zenon, <1>1, <1>3, <1>5, <1>6, PayloadRoundTrip DEF wire, P, W

------------------------------------------------------------------------------
\* Sequences of sound frames, and concatenation on them.
FrameSeqs == Seq(Sound)

\* What concatenation gives on them.
LEMMA FramesJoined ==
    /\ <<>> \in FrameSeqs
    /\ \A f \in Sound : <<f>> \in FrameSeqs
    /\ \A G, K \in FrameSeqs : Cat(G, K) \in FrameSeqs
    /\ \A G \in FrameSeqs : Cat(<<>>, G) = G /\ Cat(G, <<>>) = G
<1>1. \A G, K \in FrameSeqs : Cat(G, K) \in FrameSeqs
  BY ConcatProperties DEF FrameSeqs, Cat
<1>2. \A G \in FrameSeqs : Cat(<<>>, G) = G /\ Cat(G, <<>>) = G
  BY ConcatEmptySeq DEF FrameSeqs, Cat
<1>3. \A f \in Sound : <<f>> \in FrameSeqs
  BY DEF FrameSeqs
<1>4. <<>> \in FrameSeqs
  BY DEF FrameSeqs
<1> QED BY Zenon, <1>1, <1>2, <1>3, <1>4

\* Brackets do not matter there either.
LEMMA RegroupFrames == \A F, G, K \in FrameSeqs : Cat(Cat(F, G), K) = Cat(F, Cat(G, K))
BY ConcatAssociative DEF FrameSeqs, Cat

\* P carries the frames G: the bytes of P are what is sent for them.  This is
\* the least relation between byte strings and sequences of frames that has the
\* empty ones and gets a frame and its bytes in front.
Closed(T) ==
    /\ <<<<>>, <<>>>> \in T
    /\ \A P \in Bytes, G \in FrameSeqs, f \in Sound :
           <<P, G>> \in T => <<Cat(Wire(f), P), Cat(<<f>>, G)>> \in T

Carries(P, G) ==
    /\ P \in Bytes /\ G \in FrameSeqs
    /\ \A T \in SUBSET (Bytes \X FrameSeqs) : Closed(T) => <<P, G>> \in T

\* Nothing carries no frame.
LEMMA CarriesNone == Carries(<<>>, <<>>)
BY Zenon, Nothing, FramesJoined DEF Carries, Closed

\* A frame in front.
LEMMA CarriesMore ==
    ASSUME NEW P, NEW G, Carries(P, G), NEW f \in Sound
    PROVE  Carries(Cat(Wire(f), P), Cat(<<f>>, G))
<1>1. P \in Bytes /\ G \in FrameSeqs /\ Wire(f) \in Bytes /\ <<f>> \in FrameSeqs
  BY Zenon, WireShape, FramesJoined DEF Carries
<1>2. Cat(Wire(f), P) \in Bytes /\ Cat(<<f>>, G) \in FrameSeqs
  BY Zenon, <1>1, Joined, FramesJoined
<1>3. ASSUME NEW T \in SUBSET (Bytes \X FrameSeqs), Closed(T)
      PROVE  <<Cat(Wire(f), P), Cat(<<f>>, G)>> \in T
  <2>1. <<P, G>> \in T
    BY Zenon, <1>3 DEF Carries
  <2> QED BY Zenon, <1>1, <1>3, <2>1 DEF Closed
<1> QED BY Zenon, <1>2, <1>3 DEF Carries

\* A frame at the end.
LEMMA CarriesAppend ==
    ASSUME NEW P, NEW G, Carries(P, G), NEW f \in Sound
    PROVE  Carries(Cat(P, Wire(f)), Cat(G, <<f>>))
<1> DEFINE W == Wire(f)
           T == {x \in Bytes \X FrameSeqs : Carries(Cat(x[1], W), Cat(x[2], <<f>>))}
<1>1. W \in Bytes /\ <<f>> \in FrameSeqs
  BY Zenon, WireShape, FramesJoined
<1> HIDE DEF W
<1>2. \A Q \in Bytes, K \in FrameSeqs : <<Q, K>> \in T <=> Carries(Cat(Q, W), Cat(K, <<f>>))
  BY SMT
<1>3. <<<<>>, <<>>>> \in T
  <2>1. Carries(Cat(W, <<>>), Cat(<<f>>, <<>>))
    BY Zenon, CarriesNone, CarriesMore DEF W
  <2>2. Cat(W, <<>>) = W /\ Cat(<<>>, W) = W /\ <<>> \in Bytes
    BY Zenon, <1>1, Nothing
  <2>3. Cat(<<f>>, <<>>) = <<f>> /\ Cat(<<>>, <<f>>) = <<f>> /\ <<>> \in FrameSeqs
    BY Zenon, <1>1, FramesJoined
  <2>4. Carries(Cat(<<>>, W), Cat(<<>>, <<f>>))
    BY Zenon, <2>1, <2>2, <2>3
  <2> QED BY Zenon, <1>2, <2>2, <2>3, <2>4
<1>4. ASSUME NEW Q \in Bytes, NEW K \in FrameSeqs, NEW g \in Sound, <<Q, K>> \in T
      PROVE  <<Cat(Wire(g), Q), Cat(<<g>>, K)>> \in T
  <2>1. Carries(Cat(Q, W), Cat(K, <<f>>))
    BY Zenon, <1>2, <1>4
  <2>2. Wire(g) \in Bytes /\ <<g>> \in FrameSeqs
    BY Zenon, WireShape, FramesJoined
  <2>3. Carries(Cat(Wire(g), Cat(Q, W)), Cat(<<g>>, Cat(K, <<f>>)))
    BY Zenon, <2>1, CarriesMore
  <2>4. Cat(Cat(Wire(g), Q), W) = Cat(Wire(g), Cat(Q, W))
    BY <1>1, <2>2, Regroup
  <2>5. Cat(Cat(<<g>>, K), <<f>>) = Cat(<<g>>, Cat(K, <<f>>))
    BY <1>1, <2>2, RegroupFrames
  <2>6. Cat(Wire(g), Q) \in Bytes /\ Cat(<<g>>, K) \in FrameSeqs
    BY Zenon, <2>2, Joined, FramesJoined
  <2>7. Carries(Cat(Cat(Wire(g), Q), W), Cat(Cat(<<g>>, K), <<f>>))
    BY Zenon, <2>3, <2>4, <2>5
  <2> QED BY Zenon, <1>2, <2>6, <2>7
<1>5. T \in SUBSET (Bytes \X FrameSeqs)
  BY Zenon
<1>6. P \in Bytes /\ G \in FrameSeqs
  BY Zenon DEF Carries
<1> HIDE DEF T
<1>7. Closed(T)
  BY Zenon, <1>3, <1>4 DEF Closed
<1>8. <<P, G>> \in T
  BY Zenon, <1>5, <1>7 DEF Carries
<1> QED BY Zenon, <1>2, <1>6, <1>8 DEF W

\* What carries frames is empty, or starts with the first of them.
Starts(P, G) ==
    \/ P = <<>> /\ G = <<>>
    \/ \E f \in Sound, R \in Bytes, K \in FrameSeqs :
           P = Cat(Wire(f), R) /\ G = Cat(<<f>>, K) /\ Carries(R, K)

\* So says the least relation.
LEMMA CarriesFirst ==
    ASSUME NEW P, NEW G, Carries(P, G)
    PROVE  Starts(P, G)
<1> DEFINE T == {x \in Bytes \X FrameSeqs : Carries(x[1], x[2]) /\ Starts(x[1], x[2])}
<1>1. \A Q \in Bytes, K \in FrameSeqs : <<Q, K>> \in T <=> Carries(Q, K) /\ Starts(Q, K)
  BY SMT
<1>2. T \in SUBSET (Bytes \X FrameSeqs)
  BY Zenon
<1> HIDE DEF T
<1>3. <<<<>>, <<>>>> \in T
  BY Zenon, <1>1, Nothing, FramesJoined, CarriesNone DEF Starts
<1>4. ASSUME NEW Q \in Bytes, NEW K \in FrameSeqs, NEW g \in Sound, <<Q, K>> \in T
      PROVE  <<Cat(Wire(g), Q), Cat(<<g>>, K)>> \in T
  <2>1. Carries(Q, K)
    BY Zenon, <1>1, <1>4
  <2>2. Carries(Cat(Wire(g), Q), Cat(<<g>>, K))
    BY Zenon, <2>1, CarriesMore
  <2>3. Starts(Cat(Wire(g), Q), Cat(<<g>>, K))
    BY Zenon, <2>1 DEF Starts
  <2>4. Cat(Wire(g), Q) \in Bytes /\ Cat(<<g>>, K) \in FrameSeqs
    BY Zenon, <2>2 DEF Carries
  <2> QED BY Zenon, <1>1, <2>2, <2>3, <2>4
<1>5. Closed(T)
  BY Zenon, <1>3, <1>4 DEF Closed
<1>6. P \in Bytes /\ G \in FrameSeqs /\ <<P, G>> \in T
  BY Zenon, <1>2, <1>5 DEF Carries
<1> QED BY Zenon, <1>1, <1>6


\* Two ways to cut a string: the longer first part begins with the shorter one.
LEMMA CommonStart ==
    ASSUME NEW a \in Bytes, NEW R \in Bytes, NEW buf \in Bytes, NEW X \in Bytes,
           Cat(buf, X) = Cat(a, R), Len(buf) >= Len(a)
    PROVE  /\ Behind(buf, Len(a)) \in Bytes
           /\ buf = Cat(a, Behind(buf, Len(a))) /\ R = Cat(Behind(buf, Len(a)), X)
<1> DEFINE s == SubSeq(buf, 1, Len(a))  b == Behind(buf, Len(a))
<1>1. Len(a) \in 0..Len(buf)
  BY Nothing
<1>2. s \in Bytes /\ Len(s) = Len(a) /\ b \in Bytes /\ buf = Cat(s, b)
  BY Zenon, <1>1, CutInTwo
<1> HIDE DEF s, b
<1>3. Cat(b, X) \in Bytes
  BY Zenon, <1>2, Joined
<1>4. Cat(buf, X) = Cat(s, Cat(b, X))
  BY <1>2, Regroup
<1>5. Field(Cat(buf, X), 0, Len(a)) = s /\ Behind(Cat(buf, X), Len(a)) = Cat(b, X)
  BY <1>2, <1>3, <1>4, BothParts
<1>6. Field(Cat(buf, X), 0, Len(a)) = a /\ Behind(Cat(buf, X), Len(a)) = R
  BY BothParts
<1> QED BY Zenon, <1>2, <1>5, <1>6 DEF b

\* The first frame of a buffer is f, and what is behind it carries the others.
FirstFrame(buf, X, G, f, K) ==
    /\ G = Cat(<<f>>, K) /\ K \in FrameSeqs
    /\ decode_header(buf) = HeaderOf(f)
    /\ Field(buf, HEADER_SIZE, PayloadLen(f)) = Payload(f)
    /\ PayloadLen(f) \in Nat /\ Len(buf) >= HEADER_SIZE + PayloadLen(f)
    /\ Behind(buf, HEADER_SIZE + PayloadLen(f)) \in Bytes
    /\ Carries(Cat(Behind(buf, HEADER_SIZE + PayloadLen(f)), X), K)

HasFirstFrame(buf, X, G) == \E f \in Sound, K \in FrameSeqs : FirstFrame(buf, X, G, f, K)

\* A buffer with the start of a stream that carries frames: its header is
\* valid, a complete frame in it is the first of them, and when nothing else is
\* to come an incomplete buffer means that there is none.
LEMMA BufferStart ==
    ASSUME NEW buf \in Bytes, NEW X \in Bytes, NEW G, Carries(Cat(buf, X), G)
    PROVE  /\ Len(buf) >= HEADER_SIZE => decode_header(buf).valid
           /\ Complete(buf) => HasFirstFrame(buf, X, G)
           /\ ~Complete(buf) /\ X = <<>> => buf = <<>> /\ G = <<>>
<1>n. Len(buf) \in Nat
  BY Nothing
<1>1. CASE Cat(buf, X) = <<>> /\ G = <<>>
  <2>1. Len(buf) = 0 /\ buf = <<>>
    <3>1. Len(buf) + Len(X) = 0 /\ Len(X) \in Nat
      BY Zenon, <1>1, Joined, Nothing
    <3>2. Len(buf) = 0
      BY <1>n, <3>1
    <3> QED BY Zenon, <3>2, Nothing
  <2>2. HEADER_SIZE \in Nat \ {0}
    <3>1. Len(Magic) \in Nat
      BY BytesAssumption, Nothing DEF Bytes
    <3> QED BY <3>1, BytesAssumption DEF HEADER_SIZE
  <2>3. ~(Len(buf) >= HEADER_SIZE)
    BY <2>1, <2>2
  <2> QED BY Zenon, <1>1, <2>1, <2>3 DEF Complete
<1>2. ASSUME NEW f \in Sound, NEW R \in Bytes, NEW K \in FrameSeqs,
             Cat(buf, X) = Cat(Wire(f), R), G = Cat(<<f>>, K), Carries(R, K)
      PROVE  /\ Len(buf) >= HEADER_SIZE => decode_header(buf).valid
             /\ Complete(buf) => HasFirstFrame(buf, X, G)
             /\ ~Complete(buf) /\ X = <<>> => buf = <<>> /\ G = <<>>
  <2> DEFINE H == Header(f.type, PayloadLen(f), f.msg_id)  P == Payload(f)  W == Wire(f)
             n == PayloadLen(f)
  <2>1. /\ W = Cat(H, P) /\ H \in Bytes /\ Len(H) = HEADER_SIZE /\ W \in Bytes
        /\ Len(W) = HEADER_SIZE + n /\ HEADER_SIZE \in Nat \ {0} /\ n \in Nat
        /\ \A Q \in Bytes : decode_header(Cat(H, Q)) = HeaderOf(f)
    BY Zenon, WireShape
  <2>2. P \in Bytes /\ Len(P) = n
    BY Zenon, PayloadRoundTrip
  <2>h. HeaderOf(f).valid = TRUE /\ HeaderOf(f).payload_len = n
    BY DEF HeaderOf
  <2>c. Cat(buf, X) = Cat(W, R)
    BY Zenon, <1>2
  <2> HIDE DEF H, P, W, n
  <2>3. Cat(buf, X) = Cat(H, Cat(P, R)) /\ Cat(P, R) \in Bytes
    <3>1. Cat(Cat(H, P), R) = Cat(H, Cat(P, R))
      BY <2>1, <2>2, Regroup
    <3>2. Cat(P, R) \in Bytes
      BY Zenon, <2>2, Joined
    <3> QED BY Zenon, <2>1, <2>c, <3>1, <3>2
  <2>4. ASSUME Len(buf) >= HEADER_SIZE PROVE decode_header(buf) = HeaderOf(f)
    <3>0. H \in Bytes /\ Cat(P, R) \in Bytes /\ Len(buf) >= Len(H)
      BY Zenon, <2>1, <2>3, <2>4
    <3>1. Behind(buf, Len(H)) \in Bytes /\ buf = Cat(H, Behind(buf, Len(H)))
      BY <2>3, <3>0, CommonStart
    <3> QED BY Zenon, <2>1, <3>1
  <2>5. ASSUME Len(buf) >= HEADER_SIZE + n PROVE HasFirstFrame(buf, X, G)
    <3> DEFINE Q == Behind(buf, HEADER_SIZE + n)
    <3>0. W \in Bytes /\ Len(buf) >= Len(W) /\ Len(W) = HEADER_SIZE + n
      BY Zenon, <2>1, <2>5
    <3>q. /\ Behind(buf, Len(W)) \in Bytes /\ buf = Cat(W, Behind(buf, Len(W)))
          /\ R = Cat(Behind(buf, Len(W)), X)
      BY <2>c, <3>0, CommonStart
    <3>1. Q \in Bytes /\ buf = Cat(W, Q) /\ R = Cat(Q, X)
      BY Zenon, <3>0, <3>q
    <3>2. Len(buf) >= HEADER_SIZE
      BY <1>n, <2>1, <2>5
    <3> HIDE DEF Q
    <3>3. buf = Cat(H, Cat(P, Q))
      BY <2>1, <2>2, <3>1, Regroup
    <3>4. Field(buf, HEADER_SIZE, n) = P
      BY <2>1, <2>2, <3>1, <3>3, FieldIs
    <3>5. Carries(Cat(Q, X), K)
      BY Zenon, <1>2, <3>1
    <3>6. FirstFrame(buf, X, G, f, K)
      BY Zenon, <1>2, <2>1, <2>4, <2>5, <3>1, <3>2, <3>4, <3>5 DEF FirstFrame, Q, n, P
    <3> QED BY Zenon, <3>6 DEF HasFirstFrame
  <2>6. Complete(buf) => HasFirstFrame(buf, X, G)
    BY Zenon, <2>4, <2>5, <2>h DEF Complete
  <2>7. X = <<>> => Complete(buf)
    <3> SUFFICES ASSUME X = <<>> PROVE Complete(buf)
      BY Zenon
    <3>1. buf = Cat(W, R)
      BY Zenon, <2>c, Nothing
    <3>2. Len(buf) = Len(W) + Len(R) /\ Len(R) \in Nat
      BY Zenon, <2>1, <3>1, Joined
    <3>3. Len(buf) >= HEADER_SIZE /\ Len(buf) >= HEADER_SIZE + n
      BY <2>1, <3>2
    <3> QED BY Zenon, <2>4, <2>h, <3>3 DEF Complete
  <2>8. Len(buf) >= HEADER_SIZE => decode_header(buf).valid
    BY Zenon, <2>4, <2>h
  <2> QED BY Zenon, <2>6, <2>7, <2>8
<1>3. Starts(Cat(buf, X), G)
  BY Zenon, CarriesFirst
<1> QED BY Zenon, <1>1, <1>2, <1>3 DEF Starts

------------------------------------------------------------------------------
\* The way up.  Behind the frames that were handled come those whose bytes are
\* in the buffer or in transit, or were to come when the connection broke.
UpRest(G, Q) ==
    /\ sentUp = Cat(handled, G) /\ G \in Seq(UpFrames)
    /\ Q \in Bytes /\ (~lost => Q = <<>>)
    /\ Carries(Cat(read_buf, Cat(up, Q)), G)

UpHasRest == \E G, Q : UpRest(G, Q)

UpInv ==
    /\ up \in Bytes /\ read_buf \in Bytes /\ handled \in FrameSeqs
    /\ handler \in {"recv", "parse", "done"}
    /\ UpHasRest
    /\ handler = "recv" => ~Complete(read_buf)
    /\ handler = "done" => lost /\ up = <<>>

\* The first element of a sequence, and the others.
LEMMA HeadIn ==
    ASSUME NEW S, NEW f \in Sound, NEW K \in FrameSeqs, Cat(<<f>>, K) \in Seq(S)
    PROVE  f \in S /\ K \in Seq(S)
<1> DEFINE s == <<f>> \o K
<1>1. K \in Seq(Sound) /\ Len(K) \in Nat /\ <<f>> \in Seq(Sound) /\ Len(<<f>>) = 1
  BY DEF FrameSeqs
<1>2. s \in Seq(S)
  BY DEF Cat
<1>3. Len(s) = 1 + Len(K) /\ s[1] = f /\ \A i \in 1..Len(K) : s[i + 1] = K[i]
  BY <1>1
<1> HIDE DEF s
<1>4. f \in S
  <2>1. 1 \in 1..Len(s)
    BY <1>1, <1>3
  <2> QED BY <1>2, <1>3, <2>1, ElementOfSeq
<1>5. \A i \in 1..Len(K) : K[i] \in S
  <2> TAKE i \in 1..Len(K)
  <2>1. i + 1 \in 1..Len(s)
    BY <1>1, <1>3
  <2> QED BY <1>2, <1>3, <2>1, ElementOfSeq
<1>6. K \in [1..Len(K) -> S]
  <2>1. K \in [1..Len(K) -> Sound]
    BY <1>1
  <2> QED BY Zenon, <1>5, <2>1
<1>7. K \in Seq(S)
  BY <1>1, <1>6
<1> QED BY <1>4, <1>7

\* The first part of a concatenation is a prefix of it.
LEMMA PrefixOfCat == \A F, G \in FrameSeqs : Begins(F, Cat(F, G))
<1> TAKE F, G \in FrameSeqs
<1> DEFINE P == F \o G
<1>1. /\ F \in Seq(Sound) /\ G \in Seq(Sound) /\ P \in Seq(Sound)
      /\ Len(F) \in Nat /\ Len(G) \in Nat /\ Len(P) = Len(F) + Len(G)
  BY DEF FrameSeqs
<1>2. \A i \in 1..Len(F) : P[i] = F[i]
  BY <1>1
<1>3. F = SubSeq(P, 1, Len(F))
  <2> HIDE DEF P
  <2> QED BY <1>1, <1>2
<1> QED BY <1>1, <1>3 DEF Begins, Cat

\* A frame that the gateway sends is sound, and Wire is what it sends.
LEMMA UpFrame ==
    ASSUME NEW f \in UpFrames
    PROVE  f \in Sound /\ f.type # EVENT_DATA /\ Encoded(f) = Wire(f)
BY Zenon, FramesFit DEF Sound, Wire

\* The empty buffer is not a frame.
LEMMA EmptyIncomplete == HEADER_SIZE \in Nat \ {0} /\ ~Complete(<<>>)
<1>1. Len(Magic) \in Nat
  BY BytesAssumption, Nothing DEF Bytes
<1>2. HEADER_SIZE \in Nat \ {0}
  BY <1>1, BytesAssumption DEF HEADER_SIZE
<1>3. ~(Len(<<>>) >= HEADER_SIZE)
  BY <1>2, Nothing
<1> QED BY Zenon, <1>2, <1>3 DEF Complete

\* GatewaySends puts a frame at the end.
LEMMA UpSend ==
    ASSUME UpInv, NEW f \in UpFrames, GatewaySends(f)
    PROVE  UpInv'
<1>1. PICK G, Q : UpRest(G, Q)
  BY Zenon DEF UpInv, UpHasRest
<1> DEFINE W == Wire(f)
<1>2. /\ up' = Cat(up, W) /\ sentUp' = Append(sentUp, f) /\ ~lost
      /\ handler' = handler /\ read_buf' = read_buf /\ handled' = handled /\ lost' = lost
  BY Zenon, UpFrame DEF GatewaySends, Cat
<1>3. f \in Sound /\ W \in Bytes /\ <<f>> \in FrameSeqs
  BY Zenon, UpFrame, WireShape, FramesJoined
<1>4. /\ up \in Bytes /\ read_buf \in Bytes /\ handled \in FrameSeqs /\ G \in Seq(UpFrames)
      /\ Q = <<>> /\ sentUp = Cat(handled, G) /\ Carries(Cat(read_buf, Cat(up, Q)), G) /\ G \in FrameSeqs
  BY Zenon, <1>1, <1>2 DEF UpInv, UpRest, Carries
<1>5. Carries(Cat(read_buf, up), G)
  BY Zenon, <1>4, Nothing
<1>6. Carries(Cat(Cat(read_buf, up), W), Cat(G, <<f>>))
  BY Zenon, <1>3, <1>5, CarriesAppend
<1> HIDE DEF W
<1>7. Cat(Cat(read_buf, up), W) = Cat(read_buf, Cat(up, W)) /\ Cat(up, W) \in Bytes
  <2>1. Cat(up, W) \in Bytes
    BY Zenon, <1>3, <1>4, Joined
  <2> QED BY <1>3, <1>4, <2>1, Regroup
<1>8. Append(sentUp, f) = Cat(handled, Cat(G, <<f>>))
  <2>1. sentUp \in FrameSeqs
    BY Zenon, <1>4, FramesJoined
  <2>2. Append(sentUp, f) = Cat(sentUp, <<f>>)
    BY <1>3, <2>1, AppendIsConcat DEF FrameSeqs, Cat
  <2>3. Cat(Cat(handled, G), <<f>>) = Cat(handled, Cat(G, <<f>>))
    BY <1>3, <1>4, RegroupFrames
  <2> QED BY Zenon, <1>4, <2>2, <2>3
<1>9. Cat(G, <<f>>) \in Seq(UpFrames)
  BY <1>4 DEF Cat
<1>10. UpRest(Cat(G, <<f>>), <<>>)'
  <2>1. Carries(Cat(read_buf, Cat(Cat(up, W), <<>>)), Cat(G, <<f>>)) /\ <<>> \in Bytes
    BY Zenon, <1>6, <1>7, Nothing
  <2> QED BY Zenon, <1>2, <1>8, <1>9, <2>1 DEF UpRest
<1> QED BY Zenon, <1>2, <1>4, <1>7, <1>10 DEF UpInv, UpHasRest


\* Recv moves bytes from the stream to the buffer.
LEMMA UpRecv ==
    ASSUME UpInv, NEW n \in 1..Len(up), Recv(n)
    PROVE  UpInv'
<1>1. PICK G, Q : UpRest(G, Q)
  BY Zenon DEF UpInv, UpHasRest
<1> DEFINE s == SubSeq(up, 1, n)  b == Behind(up, n)
<1>2. /\ read_buf' = Cat(read_buf, s) /\ up' = b /\ handler' = "parse"
      /\ sentUp' = sentUp /\ handled' = handled /\ lost' = lost
  BY Zenon DEF Recv, Cat, Behind
<1>3. /\ up \in Bytes /\ read_buf \in Bytes /\ handled \in FrameSeqs /\ Q \in Bytes
      /\ Carries(Cat(read_buf, Cat(up, Q)), G)
  BY Zenon, <1>1 DEF UpInv, UpRest
<1>4. s \in Bytes /\ b \in Bytes /\ up = Cat(s, b)
  <2>1. n \in 0..Len(up)
    BY <1>3, Nothing
  <2> QED BY Zenon, <1>3, <2>1, CutInTwo
<1> HIDE DEF s, b
<1>5. Cat(read_buf, s) \in Bytes /\ Cat(b, Q) \in Bytes
  BY Zenon, <1>3, <1>4, Joined
<1>6. Cat(Cat(read_buf, s), Cat(b, Q)) = Cat(read_buf, Cat(up, Q))
  <2>1. Cat(up, Q) = Cat(s, Cat(b, Q))
    BY <1>3, <1>4, Regroup
  <2>2. Cat(Cat(read_buf, s), Cat(b, Q)) = Cat(read_buf, Cat(s, Cat(b, Q)))
    BY <1>3, <1>4, <1>5, Regroup
  <2> QED BY Zenon, <2>1, <2>2
<1>7. UpRest(G, Q)'
  BY Zenon, <1>1, <1>2, <1>3, <1>6 DEF UpRest
<1>8. handler' # "recv" /\ handler' # "done"
  BY <1>2
<1> QED BY Zenon, <1>2, <1>3, <1>4, <1>5, <1>7, <1>8 DEF UpInv, UpHasRest

\* ParseFrame takes the first frame that is not handled yet.
LEMMA UpParse ==
    ASSUME UpInv, ParseFrame
    PROVE  UpInv'
<1>1. PICK G, Q : UpRest(G, Q)
  BY Zenon DEF UpInv, UpHasRest
<1> DEFINE X == Cat(up, Q)  h == decode_header(read_buf)
<1>2. /\ handler = "parse" /\ Complete(read_buf)
      /\ handled' = Append(handled, OnFrame(h, Field(read_buf, HEADER_SIZE, h.payload_len)))
      /\ read_buf' = Behind(read_buf, HEADER_SIZE + h.payload_len)
      /\ up' = up /\ handler' = handler /\ sentUp' = sentUp /\ lost' = lost
  BY Zenon DEF ParseFrame, Consumed, Behind
<1>3. /\ up \in Bytes /\ read_buf \in Bytes /\ handled \in FrameSeqs /\ Q \in Bytes
      /\ Carries(Cat(read_buf, X), G) /\ sentUp = Cat(handled, G) /\ G \in Seq(UpFrames)
  BY Zenon, <1>1 DEF UpInv, UpRest
<1>4. X \in Bytes
  BY Zenon, <1>3, Joined
<1> HIDE DEF X
<1>5. PICK f \in Sound, K \in FrameSeqs : FirstFrame(read_buf, X, G, f, K)
  BY Zenon, <1>2, <1>3, <1>4, BufferStart DEF HasFirstFrame
<1> DEFINE b == Behind(read_buf, HEADER_SIZE + PayloadLen(f))
<1>6. /\ G = Cat(<<f>>, K) /\ h = HeaderOf(f) /\ b \in Bytes /\ Carries(Cat(b, X), K)
      /\ Field(read_buf, HEADER_SIZE, PayloadLen(f)) = Payload(f)
  BY Zenon, <1>5 DEF FirstFrame
<1>7. HeaderOf(f).payload_len = PayloadLen(f)
  BY DEF HeaderOf
<1>8. f \in UpFrames /\ K \in Seq(UpFrames)
  BY Zenon, <1>3, <1>6, HeadIn
<1>9. OnFrame(h, Field(read_buf, HEADER_SIZE, h.payload_len)) = f
  BY Zenon, <1>6, <1>7, <1>8, UpFrame, PayloadRoundTrip
<1>10. read_buf' = b
  BY Zenon, <1>2, <1>6, <1>7
<1>11. handled' = Append(handled, f)
  BY Zenon, <1>2, <1>9
<1> HIDE DEF b, h
<1>12. handled' = Cat(handled, <<f>>) /\ handled' \in FrameSeqs
  <2>1. Append(handled, f) = Cat(handled, <<f>>)
    BY <1>3, AppendIsConcat DEF FrameSeqs, Cat
  <2> QED BY Zenon, <1>3, <1>11, <2>1, FramesJoined
<1>13. sentUp = Cat(Cat(handled, <<f>>), K)
  <2>1. <<f>> \in FrameSeqs
    BY Zenon, FramesJoined
  <2>2. Cat(Cat(handled, <<f>>), K) = Cat(handled, Cat(<<f>>, K))
    BY <1>3, <2>1, RegroupFrames
  <2> QED BY Zenon, <1>3, <1>6, <2>2
<1>14. UpRest(K, Q)'
  BY Zenon, <1>1, <1>2, <1>6, <1>8, <1>10, <1>12, <1>13 DEF UpRest, X
<1>15. handler' # "recv" /\ handler' # "done" /\ handler' \in {"recv", "parse", "done"}
  BY <1>2
<1> QED BY Zenon, <1>2, <1>3, <1>6, <1>10, <1>12, <1>14, <1>15 DEF UpInv, UpHasRest

\* HandlerCloses finds the connection gone: what is in the buffer is valid.
LEMMA UpClose ==
    ASSUME UpInv, HandlerCloses
    PROVE  UpInv'
<1>1. PICK G, Q : UpRest(G, Q)
  BY Zenon DEF UpInv, UpHasRest
<1>2. /\ up \in Bytes /\ read_buf \in Bytes /\ handled \in FrameSeqs /\ Q \in Bytes
      /\ Carries(Cat(read_buf, Cat(up, Q)), G)
  BY Zenon, <1>1 DEF UpInv, UpRest
<1>3. Cat(up, Q) \in Bytes
  BY Zenon, <1>2, Joined
<1>4. Complete(read_buf) => decode_header(read_buf).valid
  BY Zenon, <1>2, <1>3, BufferStart DEF Complete
<1>5. /\ lost /\ up = <<>> /\ handler' = "done" /\ up' = <<>> /\ lost' = TRUE
      /\ read_buf' = read_buf /\ sentUp' = sentUp /\ handled' = handled
  BY Zenon, <1>4 DEF HandlerCloses
<1>6. UpRest(G, Q)'
  BY Zenon, <1>1, <1>2, <1>5 DEF UpRest
<1>7. handler' # "recv" /\ handler' \in {"recv", "parse", "done"}
  BY <1>5
<1> QED BY Zenon, <1>2, <1>5, <1>6, <1>7 DEF UpInv, UpHasRest

\* Lose: what was in transit is still to come, and will not.
LEMMA UpLose ==
    ASSUME UpInv, Lose
    PROVE  UpInv'
<1>1. PICK G, Q : UpRest(G, Q)
  BY Zenon DEF UpInv, UpHasRest
<1>2. /\ lost' = TRUE /\ up' = <<>> /\ handler' = handler
      /\ read_buf' = read_buf /\ sentUp' = sentUp /\ handled' = handled
  BY Zenon DEF Lose
<1>3. /\ up \in Bytes /\ read_buf \in Bytes /\ handled \in FrameSeqs /\ Q \in Bytes
      /\ Carries(Cat(read_buf, Cat(up, Q)), G)
  BY Zenon, <1>1 DEF UpInv, UpRest
<1>4. Cat(up, Q) \in Bytes /\ Cat(<<>>, Cat(up, Q)) = Cat(up, Q) /\ <<>> \in Bytes
  BY Zenon, <1>3, Joined, Nothing
<1> DEFINE Y == Cat(up, Q)
<1>5. /\ sentUp' = Cat(handled', G) /\ G \in Seq(UpFrames) /\ Y \in Bytes
      /\ Carries(Cat(read_buf', Cat(up', Y)), G)
  BY Zenon, <1>1, <1>2, <1>3, <1>4 DEF UpRest
<1>6. ASSUME NEW Z, Z = Y PROVE UpHasRest'
  <2>1. UpRest(G, Z)'
    BY Zenon, <1>2, <1>5, <1>6 DEF UpRest
  <2> QED BY Zenon, <2>1 DEF UpHasRest
<1> QED BY Zenon, <1>2, <1>3, <1>4, <1>6 DEF UpInv

\* Every step keeps the invariant of the way up.
LEMMA UpStep == UpInv /\ [Next]_vars => UpInv'
<1> SUFFICES ASSUME UpInv, [Next]_vars PROVE UpInv'
  BY Zenon
<1>1. CASE upVars' = upVars /\ (lost => lost')
  <2>1. /\ up' = up /\ handler' = handler /\ read_buf' = read_buf /\ sentUp' = sentUp
        /\ handled' = handled
    BY Zenon, <1>1 DEF upVars
  <2>2. ASSUME NEW G, NEW Q, UpRest(G, Q) PROVE UpRest(G, Q)'
    BY Zenon, <1>1, <2>1, <2>2 DEF UpRest
  <2> QED BY Zenon, <1>1, <2>1, <2>2 DEF UpInv, UpHasRest
<1>2. CASE ParseDone
  <2>1. /\ up' = up /\ handler' = "recv" /\ read_buf' = read_buf /\ sentUp' = sentUp
        /\ handled' = handled /\ lost' = lost /\ ~Complete(read_buf)
    BY Zenon, <1>2 DEF ParseDone
  <2>2. ASSUME NEW G, NEW Q, UpRest(G, Q) PROVE UpRest(G, Q)'
    BY Zenon, <2>1, <2>2 DEF UpRest
  <2>3. handler' # "done" /\ handler' \in {"recv", "parse", "done"}
    BY <2>1
  <2> QED BY Zenon, <2>1, <2>2, <2>3 DEF UpInv, UpHasRest
<1>3. CASE Reconnect
  <2>1. /\ up' = up /\ up = <<>> /\ handler' = "recv" /\ read_buf' = <<>> /\ sentUp' = <<>>
        /\ handled' = <<>>
    BY Zenon, <1>3 DEF Reconnect, UpInv
  <2>2. <<>> \in Bytes /\ Cat(<<>>, <<>>) = <<>> /\ <<>> \in FrameSeqs /\ <<>> \in Seq(UpFrames)
    BY Nothing, FramesJoined
  <2>3. UpRest(<<>>, <<>>)'
    BY Zenon, <2>1, <2>2, CarriesNone DEF UpRest
  <2>4. handler' # "done" /\ handler' \in {"recv", "parse", "done"}
    BY <2>1
  <2> QED BY Zenon, <2>1, <2>2, <2>3, <2>4, EmptyIncomplete DEF UpInv, UpHasRest
<1>4. ASSUME NEW e \in Events, BrokerSends(e) PROVE UpInv'
  BY Zenon, <1>1, <1>4 DEF BrokerSends
<1>5. ASSUME NEW n \in 1..Len(down), Data(n) PROVE UpInv'
  BY Zenon, <1>1, <1>5 DEF Data
<1>6. CASE GatewayCloses
  BY Zenon, <1>1, <1>6 DEF GatewayCloses
<1>7. CASE UNCHANGED vars
  BY Zenon, <1>1, <1>7 DEF vars
<1> QED BY Zenon, <1>2, <1>3, <1>4, <1>5, <1>6, <1>7, UpSend, UpRecv, UpParse, UpClose, UpLose DEF Next


\* What the invariant of the way up says of the frames.
LEMMA UpMeaning == UpInv => UpstreamAsSent
<1> SUFFICES ASSUME UpInv PROVE UpstreamAsSent
  BY Zenon
<1>1. PICK G, Q : UpRest(G, Q)
  BY Zenon DEF UpInv, UpHasRest
<1> DEFINE X == Cat(up, Q)
<1>2. /\ up \in Bytes /\ read_buf \in Bytes /\ handled \in FrameSeqs /\ Q \in Bytes
      /\ Carries(Cat(read_buf, X), G) /\ sentUp = Cat(handled, G) /\ G \in FrameSeqs
      /\ ~lost => Q = <<>>
  BY Zenon, <1>1 DEF UpInv, UpRest, Carries
<1>3. X \in Bytes
  BY Zenon, <1>2, Joined
<1>4. Len(read_buf) >= HEADER_SIZE => decode_header(read_buf).valid
  BY Zenon, <1>2, <1>3, BufferStart
<1>5. ASSUME handler = "recv", up = <<>>, ~lost PROVE handled = sentUp
  <2>1. X = <<>>
    BY Zenon, <1>2, <1>5, Nothing
  <2>2. ~Complete(read_buf)
    BY Zenon, <1>5 DEF UpInv
  <2> HIDE DEF X
  <2>3. ~Complete(read_buf) /\ X = <<>> => G = <<>>
    BY <1>2, <1>3, BufferStart
  <2> QED BY Zenon, <1>2, <2>1, <2>2, <2>3, FramesJoined
<1>6. Begins(handled, sentUp)
  BY <1>2, PrefixOfCat
<1> QED BY Zenon, <1>4, <1>5, <1>6 DEF UpstreamAsSent

\* For every number base, field widths, magic and set of frames, and however the
\* bytes are cut and connections break: handle_client reassembles and on_frame
\* decodes the frames that the gateway encoded, in order, each once and as soon
\* as it is complete.
THEOREM UpstreamIntact == Spec => []UpstreamAsSent
<1>1. Init => UpInv
  <2> SUFFICES ASSUME Init PROVE UpInv
    BY Zenon
  <2>1. /\ up = <<>> /\ handler = "recv" /\ read_buf = <<>> /\ sentUp = <<>> /\ handled = <<>>
    BY Zenon DEF Init
  <2>2. <<>> \in Bytes /\ Cat(<<>>, <<>>) = <<>> /\ <<>> \in FrameSeqs /\ <<>> \in Seq(UpFrames)
    BY Nothing, FramesJoined
  <2>3. UpRest(<<>>, <<>>)
    BY Zenon, <2>1, <2>2, CarriesNone DEF UpRest
  <2>4. handler # "done" /\ handler \in {"recv", "parse", "done"}
    BY <2>1
  <2> QED BY Zenon, <2>1, <2>2, <2>3, <2>4, EmptyIncomplete DEF UpInv, UpHasRest
<1> QED BY <1>1, UpStep, UpMeaning, PTL DEF Spec

------------------------------------------------------------------------------
\* The way down.  Frames the broker sends: events, and answers to heartbeats.
Answer == [type |-> HEARTBEAT, msg_id |-> 0, topic |-> <<>>, rest |-> <<>>]
DownFrames == Events \cup {Answer}

\* Fields of what is behind the first o bytes.
LEMMA FieldBehind ==
    ASSUME NEW buf \in Bytes, NEW o \in 0..Len(buf), NEW a \in Nat, NEW k \in Nat,
           Len(Behind(buf, o)) >= a + k
    PROVE  /\ Field(buf, o + a, k) = Field(Behind(buf, o), a, k)
           /\ Behind(buf, o + a) = Behind(Behind(buf, o), a)
           /\ Len(buf) = o + Len(Behind(buf, o))
<1> DEFINE p == SubSeq(buf, 1, o)  d == Behind(buf, o)
           q == SubSeq(d, 1, a)    e == Behind(d, a)
           b == SubSeq(e, 1, k)    c == Behind(e, k)
<1>1. p \in Bytes /\ Len(p) = o /\ d \in Bytes /\ buf = Cat(p, d)
  BY Zenon, CutInTwo
<1> HIDE DEF p
<1>2. a \in 0..Len(d) /\ Len(d) \in Nat
  BY <1>1, Nothing
<1>3. q \in Bytes /\ Len(q) = a /\ e \in Bytes /\ d = Cat(q, e)
  BY Zenon, <1>1, <1>2, CutInTwo
<1>4. Len(d) = a + Len(e) /\ Len(e) \in Nat
  <2> HIDE DEF d, q, e
  <2>1. Len(Cat(q, e)) = Len(q) + Len(e) /\ Len(e) \in Nat
    BY Zenon, <1>3, Joined
  <2> QED BY Zenon, <1>3, <2>1
<1>5. k \in 0..Len(e)
  <2> HIDE DEF e
  <2> QED BY <1>2, <1>4
<1>6. b \in Bytes /\ Len(b) = k /\ c \in Bytes /\ e = Cat(b, c)
  BY Zenon, <1>3, <1>5, CutInTwo
<1>d. Len(Behind(buf, o)) = Len(d) /\ Behind(buf, o) = d /\ Behind(d, a) = e
  BY Zenon
<1> HIDE DEF d, q, e, b, c
<1>7. Field(d, a, k) = b
  BY <1>3, <1>6, FieldIs
<1>8. Cat(p, q) \in Bytes /\ Len(Cat(p, q)) = o + a
  <2>1. Cat(p, q) \in Bytes /\ Len(Cat(p, q)) = Len(p) + Len(q)
    BY Zenon, <1>1, <1>3, Joined
  <2> QED BY Zenon, <1>1, <1>3, <2>1
<1>9. buf = Cat(Cat(p, q), e)
  BY <1>1, <1>3, Regroup
<1>10. Field(buf, o + a, k) = b
  BY <1>6, <1>8, <1>9, FieldIs
<1>11. Behind(buf, o + a) = e
  BY <1>3, <1>8, <1>9, BothParts
<1>12. Len(buf) = o + Len(d)
  <2>1. Len(Cat(p, d)) = Len(p) + Len(d)
    BY Zenon, <1>1, Joined
  <2> QED BY Zenon, <1>1, <2>1
<1> QED BY Zenon, <1>7, <1>10, <1>11, <1>12, <1>d

\* Its first part.
LEMMA FieldOfRest ==
    \A buf \in Bytes : \A o \in 0..Len(buf) : \A a, k \in Nat :
        Len(Behind(buf, o)) >= a + k => Field(buf, o + a, k) = Field(Behind(buf, o), a, k)
<1> TAKE buf \in Bytes
<1> TAKE o \in 0..Len(buf)
<1> TAKE a, k \in Nat
<1> HAVE Len(Behind(buf, o)) >= a + k
<1> QED BY FieldBehind

\* Events whose topic fits, and answers to heartbeats, are sound.
LEMMA DownFrame ==
    ASSUME NEW f \in DownFrames, Uint16(Len(f.topic)) = Len(f.topic)
    PROVE  f \in Sound /\ f.type \in {EVENT_DATA, HEARTBEAT}
<1>1. CASE f \in Events
  <2>1. f \in Frames /\ f.type = EVENT_DATA
    BY Zenon, <1>1, FramesFit
  <2>2. EVENT_DATA \notin {SUBSCRIBE, PUBLISH, ACK, NACK, HEARTBEAT}
    BY DEF EVENT_DATA, SUBSCRIBE, PUBLISH, ACK, NACK, HEARTBEAT
  <2>3. Whole(f)
    BY Zenon, <2>1, <2>2 DEF Whole
  <2> QED BY Zenon, <2>1, <2>3 DEF Sound
<1>2. CASE f = Answer
  <2>1. /\ f.type = HEARTBEAT /\ f.msg_id = 0 /\ f.topic = <<>> /\ f.rest = <<>>
        /\ f \in [type : 1..6, msg_id : Nat, topic : Seq(Byte), rest : Seq(Byte)]
    BY <1>2 DEF Answer, HEARTBEAT
  <2>2. HEARTBEAT \notin {SUBSCRIBE, PUBLISH, EVENT_DATA}
    BY DEF EVENT_DATA, SUBSCRIBE, PUBLISH, HEARTBEAT
  <2>3. PayloadLen(f) = 0
    BY Zenon, <2>1, <2>2 DEF PayloadLen
  <2>4. 0 < Power[IdBytes] /\ 0 < Power[LenBytes]
    <3>1. Power[IdBytes] \in Nat \ {0} /\ Power[LenBytes] \in Nat \ {0}
      BY Zenon, BytesAssumption, PowerDef
    <3> QED BY <3>1
  <2>5. f \in Frames
    BY Zenon, <2>1, <2>3, <2>4 DEF Frames
  <2>6. Whole(f)
    BY Zenon, <2>1, <2>2 DEF Whole
  <2> QED BY Zenon, <2>1, <2>5, <2>6 DEF Sound
<1> QED BY Zenon, <1>1, <1>2 DEF DownFrames

\* #parseFrames between two rounds: what it has emitted, and what the bytes
\* behind the offset carry.
Parsing(buf, X, G, r, K) ==
    /\ r \in [frames : FrameSeqs, offset : 0..Len(buf)]
    /\ G = Cat(r.frames, K) /\ K \in Seq(DownFrames)
    /\ Behind(buf, r.offset) \in Bytes
    /\ Carries(Cat(Behind(buf, r.offset), X), K)

IsParsing(buf, X, G, r) == \E K : Parsing(buf, X, G, r, K)


\* One round takes the first frame off, if it is complete.
LEMMA RoundStep ==
    ASSUME NEW buf \in Bytes, NEW X \in Bytes, NEW G, NEW r, IsParsing(buf, X, G, r)
    PROVE  /\ IsParsing(buf, X, G, ParseRound(buf, r))
           /\ ~Complete(Behind(buf, r.offset)) => ParseRound(buf, r) = r
           /\ Complete(Behind(buf, r.offset)) =>
                  ParseRound(buf, r).offset >= r.offset + HEADER_SIZE
<1> DEFINE o == r.offset  bytes == Behind(buf, o)  h == decode_header(bytes)
           payload == Field(buf, o + HEADER_SIZE, h.payload_len)
           next == [frames |-> Append(r.frames, OnEvent(h, payload)),
                    offset |-> o + HEADER_SIZE + h.payload_len]
<1>1. ParseRound(buf, r) = IF ~Complete(bytes) \/ ~h.valid THEN r ELSE next
  BY Zenon DEF ParseRound, Behind
<1>2. PICK K : Parsing(buf, X, G, r, K)
  BY Zenon DEF IsParsing
<1>3. /\ r.frames \in FrameSeqs /\ o \in 0..Len(buf) /\ G = Cat(r.frames, K)
      /\ K \in Seq(DownFrames) /\ bytes \in Bytes /\ Carries(Cat(bytes, X), K)
  BY Zenon, <1>2 DEF Parsing
<1>4. CASE ~Complete(bytes)
  BY Zenon, <1>1, <1>4
<1>5. CASE Complete(bytes)
  <2> HIDE DEF o, bytes
  <2>1. PICK f \in Sound, L \in FrameSeqs : FirstFrame(bytes, X, K, f, L)
    BY Zenon, <1>3, <1>5, BufferStart DEF HasFirstFrame
  <2> DEFINE n == PayloadLen(f)  b == Behind(bytes, HEADER_SIZE + n)
  <2>2. /\ K = Cat(<<f>>, L) /\ h = HeaderOf(f) /\ b \in Bytes /\ Carries(Cat(b, X), L)
        /\ Field(bytes, HEADER_SIZE, n) = Payload(f)
        /\ Len(bytes) >= HEADER_SIZE + n
    BY Zenon, <2>1 DEF FirstFrame
  <2>3. h.valid = TRUE /\ h.payload_len = n
    BY <2>2 DEF HeaderOf
  <2>4. f \in DownFrames /\ L \in Seq(DownFrames)
    BY Zenon, <1>3, <2>2, HeadIn
  <2>5. f.type \in {EVENT_DATA, HEARTBEAT}
    BY Zenon, <2>4, DownFrame DEF Sound, Whole
  <2>6. HEADER_SIZE \in Nat /\ n \in Nat
    BY Zenon, EmptyIncomplete, PayloadRoundTrip
  <2> HIDE DEF n, b, h
  <2>7. /\ Field(buf, o + HEADER_SIZE, n) = Field(bytes, HEADER_SIZE, n)
        /\ Len(buf) = o + Len(bytes)
    <3>1. o \in 0..Len(buf) /\ Len(Behind(buf, o)) >= HEADER_SIZE + n
      BY Zenon, <1>3, <2>2 DEF bytes
    <3> HIDE DEF o
    <3>2. Field(buf, o + HEADER_SIZE, n) = Field(Behind(buf, o), HEADER_SIZE, n)
      BY Zenon, <2>6, <3>1, FieldOfRest
    <3>3. Len(buf) = o + Len(Behind(buf, o))
      BY Zenon, <2>6, <3>1, FieldBehind
    <3> QED BY Zenon, <3>2, <3>3 DEF bytes
  <2>8. Behind(buf, o + (HEADER_SIZE + n)) = b
    <3>1. HEADER_SIZE + n \in Nat /\ Len(bytes) >= (HEADER_SIZE + n) + 0 /\ 0 \in Nat
      BY <2>2, <2>6
    <3> QED BY Zenon, <1>3, <3>1, FieldBehind DEF bytes, b
  <2>9. /\ o + HEADER_SIZE + n = o + (HEADER_SIZE + n) /\ o + HEADER_SIZE + n \in 0..Len(buf)
        /\ o + HEADER_SIZE + n >= o + HEADER_SIZE
    <3>1. Len(bytes) \in Nat /\ Len(buf) \in Nat
      BY <1>3, Nothing
    <3> QED BY <1>3, <2>2, <2>6, <2>7, <3>1
  <2>10. OnEvent(h, payload) = f
    BY Zenon, <2>2, <2>3, <2>5, <2>7, PayloadRoundTrip
  <2> DEFINE F == Append(r.frames, f)  m == o + HEADER_SIZE + n
  <2>11. ParseRound(buf, r) = [frames |-> F, offset |-> m]
    BY Zenon, <1>1, <1>5, <2>3, <2>10
  <2>12. F = Cat(r.frames, <<f>>) /\ <<f>> \in FrameSeqs
    BY <1>3, AppendIsConcat, FramesJoined DEF FrameSeqs, Cat
  <2>13. F \in FrameSeqs
    BY Zenon, <1>3, <2>12, FramesJoined
  <2>14. G = Cat(F, L)
    <3> HIDE DEF F
    <3>2. Cat(Cat(r.frames, <<f>>), L) = Cat(r.frames, Cat(<<f>>, L))
      BY <1>3, <2>12, RegroupFrames
    <3> QED BY Zenon, <1>3, <2>2, <2>12, <3>2
  <2> DEFINE x == [frames |-> F, offset |-> m]
  <2> HIDE DEF F, m
  <2>15. x.frames = F /\ x.offset = m /\ (m \in 0..Len(buf) =>
                 x \in [frames : FrameSeqs, offset : 0..Len(buf)])
    BY Zenon, <2>13
  <2>16. m \in 0..Len(buf) /\ m >= o + HEADER_SIZE /\ Behind(buf, m) = b
    BY Zenon, <2>8, <2>9 DEF m
  <2> HIDE DEF x
  <2>17. Parsing(buf, X, G, x, L)
    BY Zenon, <2>2, <2>4, <2>14, <2>15, <2>16 DEF Parsing
  <2>18. ParseRound(buf, r) = x
    BY Zenon, <2>11 DEF x
  <2> QED BY Zenon, <1>5, <2>15, <2>16, <2>17, <2>18 DEF IsParsing, o, bytes
<1> QED BY Zenon, <1>4, <1>5


\* #parseFrames has emitted the frames that are complete, and left the others.
ParsedTo(buf, X, G) == \E r :
    /\ IsParsing(buf, X, G, r) /\ ~Complete(Behind(buf, r.offset))
    /\ ParseFrames(buf) = [frames |-> r.frames, offset |-> r.offset, bad |-> FALSE]

LoopStart == [frames |-> <<>>, offset |-> 0]

\* Before its first round it has all the frames before it.
LEMMA LoopStarts ==
    ASSUME NEW buf \in Bytes, NEW X \in Bytes, NEW G \in Seq(DownFrames), Carries(Cat(buf, X), G)
    PROVE  IsParsing(buf, X, G, LoopStart)
<1>1. Behind(buf, 0) = buf
  <2>1. Cat(<<>>, buf) = buf /\ Len(<<>>) = 0 /\ <<>> \in Bytes
    BY Zenon, Nothing
  <2>2. Behind(Cat(<<>>, buf), Len(<<>>)) = buf
    BY Zenon, <2>1, BothParts
  <2> QED BY Zenon, <2>1, <2>2
<1>2. G \in FrameSeqs /\ Cat(<<>>, G) = G /\ <<>> \in FrameSeqs
  BY Zenon, FramesJoined DEF Carries
<1>3. 0 \in 0..Len(buf)
  <2>1. Len(buf) \in Nat
    BY Nothing
  <2> QED BY <2>1
<1>4. /\ LoopStart.frames = <<>> /\ LoopStart.offset = 0
      /\ LoopStart \in [frames : FrameSeqs, offset : 0..Len(buf)]
  BY Zenon, <1>2, <1>3 DEF LoopStart
<1>5. Parsing(buf, X, G, LoopStart, G)
  BY Zenon, <1>1, <1>2, <1>4 DEF Parsing
<1> QED BY Zenon, <1>5 DEF IsParsing

\* The rounds of #parseFrames: an equation and what it gives.
LEMMA RoundsDefined ==
    ASSUME NEW buf \in Bytes, NEW X \in Bytes, NEW G \in Seq(DownFrames),
           Carries(Cat(buf, X), G), NEW R \in Nat
    PROVE  \E g : g = [k \in 0..R |-> IF k = 0 THEN LoopStart ELSE ParseRound(buf, g[k - 1])]
<1> DEFINE Xs == {x \in [frames : FrameSeqs, offset : 0..Len(buf)] : IsParsing(buf, X, G, x)}
           step == [p \in Nat \X Xs |-> ParseRound(buf, p[2])]
<1>1. \A x : x \in Xs <=> IsParsing(buf, X, G, x)
  BY Zenon DEF IsParsing, Parsing
<1>2. LoopStart \in Xs
  BY Zenon, <1>1, LoopStarts
<1> HIDE DEF Xs
<1>3. \A x \in Xs : ParseRound(buf, x) \in Xs
  BY Zenon, <1>1, RoundStep
<1>4. step \in [Nat \X Xs -> Xs]
  <2> SUFFICES ASSUME NEW p \in Nat \X Xs PROVE ParseRound(buf, p[2]) \in Xs
    BY Zenon
  <2>1. p[2] \in Xs
    OBVIOUS
  <2> QED BY Zenon, <1>3, <2>1
<1>5. PICK f \in [Nat -> Xs] :
        f[0] = LoopStart /\ \A n \in Nat : f[n + 1] = step[<<n, f[n]>>]
  <2> HIDE DEF step
  <2>1. Definable(Xs, LoopStart, step)
    BY Zenon, <1>2, <1>4, DefinedStepwise
  <2> QED BY Zenon, <2>1 DEF Definable
<1>6. \A n \in Nat : f[n + 1] = ParseRound(buf, f[n])
  <2> TAKE n \in Nat
  <2>1. <<n, f[n]>> \in Nat \X Xs /\ <<n, f[n]>>[2] = f[n]
    BY Zenon
  <2>2. step[<<n, f[n]>>] = ParseRound(buf, f[n])
    BY Zenon, <2>1
  <2> HIDE DEF step
  <2> QED BY Zenon, <1>5, <2>2
<1> HIDE DEF step
<1> DEFINE g == [k \in 0..R |-> f[k]]
<1>7. ASSUME NEW k \in 0..R PROVE f[k] = IF k = 0 THEN LoopStart ELSE ParseRound(buf, g[k - 1])
  <2>1. CASE k = 0
    BY Zenon, <1>5, <2>1
  <2>2. CASE k # 0
    <3>1. k - 1 \in Nat /\ (k - 1) + 1 = k /\ k - 1 \in 0..R
      BY <2>2
    <3>2. g[k - 1] = f[k - 1]
      BY Zenon, <3>1
    <3>3. f[(k - 1) + 1] = ParseRound(buf, f[k - 1])
      BY Zenon, <1>6, <3>1
    <3> HIDE DEF g
    <3> QED BY Zenon, <2>2, <3>1, <3>2, <3>3
  <2> QED BY Zenon, <2>1, <2>2
<1>8. g = [k \in 0..R |-> IF k = 0 THEN LoopStart ELSE ParseRound(buf, g[k - 1])]
  BY Zenon, <1>7
<1> QED BY Zenon, <1>8


\* #parseFrames on a buffer with the start of a stream that carries frames.
LEMMA Parsed ==
    ASSUME NEW buf \in Bytes, NEW X \in Bytes, NEW G \in Seq(DownFrames), Carries(Cat(buf, X), G)
    PROVE  ParsedTo(buf, X, G)
<1> DEFINE R == Len(buf) \div HEADER_SIZE
<1>0. /\ HEADER_SIZE \in Nat \ {0} /\ Len(buf) \in Nat /\ R \in Nat
      /\ Len(buf) < HEADER_SIZE * R + HEADER_SIZE
  <2>1. HEADER_SIZE \in Nat \ {0} /\ Len(buf) \in Nat
    BY EmptyIncomplete, Nothing
  <2>2. /\ Len(buf) % HEADER_SIZE \in 0..(HEADER_SIZE - 1) /\ R \in Nat
        /\ Len(buf) = HEADER_SIZE * R + (Len(buf) % HEADER_SIZE)
    BY Zenon, <2>1, DivMod
  <2> HIDE DEF R
  <2>3. HEADER_SIZE * R \in Nat
    BY <2>1, <2>2
  <2>4. PICK hr \in Nat : hr = HEADER_SIZE * R
    BY Zenon, <2>3
  <2>5. PICK m \in 0..(HEADER_SIZE - 1) : m = Len(buf) % HEADER_SIZE
    BY Zenon, <2>2
  <2>6. Len(buf) = hr + m
    BY Zenon, <2>2, <2>4, <2>5
  <2>7. Len(buf) < hr + HEADER_SIZE
    BY <2>1, <2>6
  <2> QED BY Zenon, <2>1, <2>2, <2>4, <2>7
<1> DEFINE Eqn(g) == g = [k \in 0..R |-> IF k = 0 THEN [frames |-> <<>>, offset |-> 0]
                                         ELSE ParseRound(buf, g[k - 1])]
           round == CHOOSE g : Eqn(g)
           last == round[R]
<1>1. ParseFrames(buf) = [frames |-> last.frames, offset |-> last.offset,
                          bad |-> Complete(SubSeq(buf, last.offset + 1, Len(buf)))]
  BY Zenon DEF ParseFrames
<1>2. Eqn(round)
  <2>1. \E g : Eqn(g)
    BY Zenon, <1>0, RoundsDefined DEF LoopStart
  <2> HIDE DEF Eqn
  <2> QED BY Zenon, <2>1
<1>3. \A k \in 0..R : round[k] = IF k = 0 THEN LoopStart ELSE ParseRound(buf, round[k - 1])
  <2> HIDE DEF round
  <2> QED BY Zenon, <1>2 DEF LoopStart
<1> HIDE DEF round, R
<1> DEFINE Far(k) == /\ IsParsing(buf, X, G, round[k])
                     /\ Complete(Behind(buf, round[k].offset)) => round[k].offset >= HEADER_SIZE * k
           S == {k \in Nat : k <= R => Far(k)}
<1>4. 0 \in S
  <2>1. 0 \in 0..R
    BY <1>0
  <2>2. round[0] = LoopStart
    BY Zenon, <1>3, <2>1
  <2>3. LoopStart.offset = 0
    BY DEF LoopStart
  <2>4. LoopStart.offset >= HEADER_SIZE * 0 /\ 0 \in Nat
    BY <1>0, <2>3
  <2> QED BY Zenon, <2>2, <2>4, LoopStarts
<1>5. ASSUME NEW k \in S PROVE k + 1 \in S
  <2>1. k \in Nat /\ k + 1 \in Nat /\ (k <= R => Far(k))
    OBVIOUS
  <2> HIDE DEF S, Far
  <2>2. ASSUME k + 1 <= R PROVE Far(k + 1)
    <3>1. k \in Nat /\ k <= R /\ k + 1 \in 0..R /\ k + 1 # 0 /\ (k + 1) - 1 = k
      BY <1>0, <2>1, <2>2
    <3>2. Far(k)
      BY Zenon, <2>1, <3>1
    <3> DEFINE r == round[k]  n == ParseRound(buf, r)
    <3>3. round[k + 1] = n
      <4>1. round[k + 1] = IF k + 1 = 0 THEN LoopStart ELSE ParseRound(buf, round[(k + 1) - 1])
        BY Zenon, <1>3, <3>1
      <4> QED BY Zenon, <3>1, <4>1
    <3>4. IsParsing(buf, X, G, r) /\ (Complete(Behind(buf, r.offset)) => r.offset >= HEADER_SIZE * k)
      BY Zenon, <3>2 DEF Far
    <3> HIDE DEF r
    <3>5. /\ IsParsing(buf, X, G, n)
          /\ ~Complete(Behind(buf, r.offset)) => n = r
          /\ Complete(Behind(buf, r.offset)) => n.offset >= r.offset + HEADER_SIZE
      BY Zenon, <3>4, RoundStep
    <3> HIDE DEF n
    <3>6. r.offset \in Nat /\ n.offset \in Nat
      <4>1. r.offset \in 0..Len(buf) /\ n.offset \in 0..Len(buf)
        BY Zenon, <3>4, <3>5 DEF IsParsing, Parsing
      <4> QED BY <1>0, <4>1
    <3>7. Complete(Behind(buf, n.offset)) => n.offset >= HEADER_SIZE * (k + 1)
      <4> SUFFICES ASSUME Complete(Behind(buf, n.offset)) PROVE n.offset >= HEADER_SIZE * (k + 1)
        BY Zenon
      <4>1. Complete(Behind(buf, r.offset))
        BY Zenon, <3>5
      <4>2. n.offset >= r.offset + HEADER_SIZE /\ r.offset >= HEADER_SIZE * k
        BY Zenon, <3>4, <3>5, <4>1
      <4>3. HEADER_SIZE * (k + 1) = HEADER_SIZE * k + HEADER_SIZE /\ HEADER_SIZE * k \in Nat
        BY <1>0, <2>1
      <4>4. PICK hk \in Nat : hk = HEADER_SIZE * k
        BY Zenon, <4>3
      <4>5. n.offset >= hk + HEADER_SIZE
        BY <1>0, <3>6, <4>2, <4>4
      <4> QED BY Zenon, <4>3, <4>4, <4>5
    <3> QED BY Zenon, <3>3, <3>5, <3>7 DEF Far
  <2> QED BY Zenon, <2>1, <2>2 DEF S
<1>6. Far(R)
  <2> HIDE DEF Far
  <2>1. S \subseteq Nat
    BY Zenon
  <2>2. S = Nat
    <3> HIDE DEF S
    <3> QED BY Zenon, <1>4, <1>5, <2>1, NumbersInSet
  <2>3. R <= R
    BY <1>0
  <2> QED BY Zenon, <1>0, <2>2, <2>3
<1>7. ~Complete(Behind(buf, last.offset))
  <2> SUFFICES ASSUME Complete(Behind(buf, last.offset)) PROVE FALSE
    BY Zenon
  <2>1. last.offset >= HEADER_SIZE * R /\ IsParsing(buf, X, G, last)
    BY Zenon, <1>6
  <2> HIDE DEF last
  <2>2. last.offset \in 0..Len(buf) /\ Behind(buf, last.offset) \in Bytes
    BY Zenon, <2>1 DEF IsParsing, Parsing
  <2>3. Len(Behind(buf, last.offset)) >= HEADER_SIZE /\ Len(Behind(buf, last.offset)) \in Nat
    BY Zenon, <2>2, Nothing DEF Complete
  <2>4. Len(buf) = last.offset + Len(Behind(buf, last.offset))
    <3>1. 0 \in Nat /\ Len(Behind(buf, last.offset)) >= 0 + 0
      BY <2>3
    <3> QED BY Zenon, <2>2, <3>1, FieldBehind
  <2>5. HEADER_SIZE * R \in Nat
    BY <1>0
  <2>6. PICK hr \in Nat : hr = HEADER_SIZE * R
    BY Zenon, <2>5
  <2>7. Len(buf) < hr + HEADER_SIZE /\ last.offset >= hr
    BY Zenon, <1>0, <2>1, <2>6
  <2>8. last.offset \in Nat
    BY <1>0, <2>2
  <2> QED BY <1>0, <2>3, <2>4, <2>7, <2>8
<1>8. IsParsing(buf, X, G, last)
  BY Zenon, <1>6
<1> HIDE DEF last
<1>9. ParseFrames(buf) = [frames |-> last.frames, offset |-> last.offset, bad |-> FALSE]
  <2>1. Complete(Behind(buf, last.offset)) = FALSE
    BY Zenon, <1>7 DEF Complete
  <2> QED BY Zenon, <1>1, <2>1 DEF Behind
<1> QED BY Zenon, <1>7, <1>8, <1>9 DEF ParsedTo


\* On the way down the frames G are still to come: their bytes are in the
\* buffer, in transit, or (Q) lost.
DownRest(G, Q) ==
    /\ sentDown = Cat(emitted, G) /\ G \in Seq(DownFrames)
    /\ Q \in Bytes /\ (~lost => Q = <<>>)
    /\ Carries(Cat(readBuf, Cat(down, Q)), G)

DownHasRest == \E G, Q : DownRest(G, Q)

InStep ==
    /\ down \in Bytes /\ readBuf \in Bytes /\ emitted \in FrameSeqs
    /\ DownHasRest /\ ~Complete(readBuf)

DownInv ==
    /\ sentDown \in Seq(DownFrames)
    /\ socket = "closed" => lost /\ down = <<>>
    /\ clean /\ Fits(sentDown) => InStep

\* If all the topics fit, the last one and those before it do.
LEMMA FitsAppend ==
    ASSUME NEW s \in Seq(DownFrames), NEW f \in DownFrames, Fits(Append(s, f))
    PROVE  Fits(s) /\ Uint16(Len(f.topic)) = Len(f.topic)
<1> DEFINE t == Append(s, f)  Short(g) == Uint16(Len(g.topic)) = Len(g.topic)
<1>1. /\ Len(s) \in Nat /\ DOMAIN s = 1..Len(s) /\ DOMAIN t = 1..(Len(s) + 1)
      /\ t[Len(s) + 1] = f /\ \A i \in 1..Len(s) : t[i] = s[i]
  OBVIOUS
<1>2. \A i \in DOMAIN t : Short(t[i])
  BY Zenon DEF Fits
<1> HIDE DEF t, Short
<1>3. Len(s) + 1 \in DOMAIN t /\ \A i \in 1..Len(s) : i \in DOMAIN t
  BY <1>1
<1>4. Short(f) /\ \A i \in DOMAIN s : Short(s[i])
  BY Zenon, <1>1, <1>2, <1>3
<1> QED BY Zenon, <1>4 DEF Short, Fits

\* The broker puts a frame at the end.
LEMMA DownPut ==
    ASSUME DownInv, NEW f \in DownFrames, ~lost, down' = Cat(down, Wire(f)),
           sentDown' = Append(sentDown, f), readBuf' = readBuf, emitted' = emitted,
           clean' = clean, lost' = lost, socket' = socket
    PROVE  DownInv'
<1>1. sentDown \in Seq(DownFrames) /\ sentDown' \in Seq(DownFrames)
  <2>1. sentDown \in Seq(DownFrames)
    BY Zenon DEF DownInv
  <2>2. Append(sentDown, f) \in Seq(DownFrames)
    BY <2>1
  <2> QED BY Zenon, <2>1, <2>2
<1>2. socket' = "closed" => lost' /\ down' = <<>>
  BY Zenon DEF DownInv
<1>3. ASSUME clean', Fits(sentDown)' PROVE InStep'
  <2>1. Fits(Append(sentDown, f))
    BY Zenon, <1>3 DEF Fits
  <2>2. Fits(sentDown) /\ Uint16(Len(f.topic)) = Len(f.topic)
    BY Zenon, <1>1, <2>1, FitsAppend
  <2>3. InStep
    BY Zenon, <1>3, <2>2 DEF DownInv
  <2>4. PICK G, Q : DownRest(G, Q)
    BY Zenon, <2>3 DEF InStep, DownHasRest
  <2> DEFINE W == Wire(f)
  <2>5. f \in Sound /\ W \in Bytes /\ <<f>> \in FrameSeqs
    BY Zenon, <2>2, DownFrame, WireShape, FramesJoined
  <2>6. /\ down \in Bytes /\ readBuf \in Bytes /\ emitted \in FrameSeqs /\ G \in Seq(DownFrames)
        /\ Q = <<>> /\ sentDown = Cat(emitted, G)
        /\ Carries(Cat(readBuf, Cat(down, Q)), G) /\ G \in FrameSeqs
    BY Zenon, <2>3, <2>4 DEF InStep, DownRest, Carries
  <2>7. Carries(Cat(readBuf, down), G)
    BY Zenon, <2>6, Nothing
  <2>8. Carries(Cat(Cat(readBuf, down), W), Cat(G, <<f>>))
    BY Zenon, <2>5, <2>7, CarriesAppend
  <2>d. down' = Cat(down, W)
    BY Zenon
  <2> HIDE DEF W
  <2>9. Cat(Cat(readBuf, down), W) = Cat(readBuf, Cat(down, W)) /\ Cat(down, W) \in Bytes
    <3>1. Cat(down, W) \in Bytes
      BY Zenon, <2>5, <2>6, Joined
    <3> QED BY <2>5, <2>6, <3>1, Regroup
  <2>10. Append(sentDown, f) = Cat(emitted, Cat(G, <<f>>))
    <3>1. sentDown \in FrameSeqs
      BY Zenon, <2>6, FramesJoined
    <3>2. Append(sentDown, f) = Cat(sentDown, <<f>>)
      BY <2>5, <3>1, AppendIsConcat DEF FrameSeqs, Cat
    <3>3. Cat(Cat(emitted, G), <<f>>) = Cat(emitted, Cat(G, <<f>>))
      BY <2>5, <2>6, RegroupFrames
    <3> QED BY Zenon, <2>6, <3>2, <3>3
  <2>11. Cat(G, <<f>>) \in Seq(DownFrames)
    BY <2>6 DEF Cat
  <2>12. DownRest(Cat(G, <<f>>), <<>>)'
    <3>1. Carries(Cat(readBuf, Cat(Cat(down, W), <<>>)), Cat(G, <<f>>)) /\ <<>> \in Bytes
      BY Zenon, <2>8, <2>9, Nothing
    <3> QED BY Zenon, <2>d, <2>10, <2>11, <3>1 DEF DownRest
  <2> QED BY Zenon, <2>3, <2>6, <2>9, <2>12, <2>d DEF InStep, DownHasRest
<1> QED BY Zenon, <1>1, <1>2, <1>3 DEF DownInv


\* Data takes the complete frames out of the buffer.
LEMMA DownData ==
    ASSUME DownInv, NEW n \in 1..Len(down), Data(n)
    PROVE  DownInv'
<1> DEFINE s == SubSeq(down, 1, n)  d == Behind(down, n)  buf == Cat(readBuf, s)
           r == ParseFrames(buf)
<1>1. /\ socket = "open" /\ emitted' = Cat(emitted, r.frames)
      /\ readBuf' = IF r.bad THEN buf ELSE Behind(buf, r.offset)
      /\ down' = IF r.bad THEN <<>> ELSE d
      /\ lost' = (lost \/ r.bad)
      /\ sentDown' = sentDown /\ clean' = clean /\ socket' = socket
  BY Zenon DEF Data, Cat, Behind
<1>2. sentDown' \in Seq(DownFrames)
  BY Zenon, <1>1 DEF DownInv
<1>3. socket' # "closed"
  BY <1>1
<1>4. ASSUME clean', Fits(sentDown)' PROVE InStep'
  <2>1. InStep
    BY Zenon, <1>1, <1>4 DEF DownInv, Fits
  <2>2. PICK G, Q : DownRest(G, Q)
    BY Zenon, <2>1 DEF InStep, DownHasRest
  <2>3. /\ down \in Bytes /\ readBuf \in Bytes /\ emitted \in FrameSeqs /\ Q \in Bytes
        /\ G \in Seq(DownFrames) /\ sentDown = Cat(emitted, G) /\ (~lost => Q = <<>>)
        /\ Carries(Cat(readBuf, Cat(down, Q)), G)
    BY Zenon, <2>1, <2>2 DEF InStep, DownRest
  <2>4. s \in Bytes /\ d \in Bytes /\ down = Cat(s, d)
    <3>1. n \in 0..Len(down)
      BY <2>3, Nothing
    <3> QED BY Zenon, <2>3, <3>1, CutInTwo
  <2> HIDE DEF s, d
  <2>5. buf \in Bytes /\ Cat(d, Q) \in Bytes
    BY Zenon, <2>3, <2>4, Joined
  <2>6. Cat(buf, Cat(d, Q)) = Cat(readBuf, Cat(down, Q))
    <3>1. Cat(down, Q) = Cat(s, Cat(d, Q))
      BY <2>3, <2>4, Regroup
    <3>2. Cat(buf, Cat(d, Q)) = Cat(readBuf, Cat(s, Cat(d, Q)))
      BY <2>3, <2>4, <2>5, Regroup
    <3> QED BY Zenon, <3>1, <3>2
  <2>7. Carries(Cat(buf, Cat(d, Q)), G)
    BY Zenon, <2>3, <2>6
  <2> HIDE DEF buf
  <2>8. PICK x : /\ IsParsing(buf, Cat(d, Q), G, x) /\ ~Complete(Behind(buf, x.offset))
                 /\ r = [frames |-> x.frames, offset |-> x.offset, bad |-> FALSE]
    BY Zenon, <2>3, <2>5, <2>7, Parsed DEF ParsedTo
  <2>9. PICK K : Parsing(buf, Cat(d, Q), G, x, K)
    BY Zenon, <2>8 DEF IsParsing
  <2> DEFINE b == Behind(buf, x.offset)  F == x.frames
  <2>10. /\ F \in FrameSeqs /\ G = Cat(F, K) /\ K \in Seq(DownFrames) /\ b \in Bytes
         /\ Carries(Cat(b, Cat(d, Q)), K) /\ K \in FrameSeqs /\ ~Complete(b)
    BY Zenon, <2>8, <2>9 DEF Parsing, Carries
  <2> HIDE DEF r
  <2>11. r.frames = F /\ r.offset = x.offset /\ r.bad = FALSE
    BY <2>8
  <2>12. emitted' = Cat(emitted, F) /\ readBuf' = b /\ down' = d /\ (lost' <=> lost)
    BY Zenon, <1>1, <2>11
  <2> HIDE DEF b, F
  <2>13. sentDown = Cat(Cat(emitted, F), K) /\ Cat(emitted, F) \in FrameSeqs
    <3>1. Cat(Cat(emitted, F), K) = Cat(emitted, Cat(F, K))
      BY <2>3, <2>10, RegroupFrames
    <3> QED BY Zenon, <2>3, <2>10, <3>1, FramesJoined
  <2>14. DownRest(K, Q)'
    BY Zenon, <1>1, <2>3, <2>10, <2>12, <2>13 DEF DownRest
  <2> QED BY Zenon, <2>4, <2>10, <2>12, <2>13, <2>14 DEF InStep, DownHasRest
<1> QED BY Zenon, <1>2, <1>3, <1>4 DEF DownInv

\* Lose: what was in transit will not come.
LEMMA DownLose ==
    ASSUME DownInv, Lose
    PROVE  DownInv'
<1>1. /\ lost' = TRUE /\ down' = <<>> /\ readBuf' = readBuf /\ sentDown' = sentDown
      /\ emitted' = emitted /\ clean' = clean /\ socket' = socket
  BY Zenon DEF Lose
<1>2. ASSUME clean', Fits(sentDown)' PROVE InStep'
  <2>1. InStep
    BY Zenon, <1>1, <1>2 DEF DownInv, Fits
  <2>2. PICK G, Q : DownRest(G, Q)
    BY Zenon, <2>1 DEF InStep, DownHasRest
  <2>3. /\ down \in Bytes /\ readBuf \in Bytes /\ emitted \in FrameSeqs /\ Q \in Bytes
        /\ Carries(Cat(readBuf, Cat(down, Q)), G)
    BY Zenon, <2>1, <2>2 DEF InStep, DownRest
  <2>4. Cat(down, Q) \in Bytes /\ Cat(<<>>, Cat(down, Q)) = Cat(down, Q) /\ <<>> \in Bytes
    BY Zenon, <2>3, Joined, Nothing
  <2> DEFINE Y == Cat(down, Q)
  <2>5. /\ sentDown' = Cat(emitted', G) /\ G \in Seq(DownFrames) /\ Y \in Bytes
        /\ Carries(Cat(readBuf', Cat(down', Y)), G)
    BY Zenon, <1>1, <2>2, <2>3, <2>4 DEF DownRest
  <2>6. ASSUME NEW Z, Z = Y PROVE DownHasRest'
    <3>1. DownRest(G, Z)'
      BY Zenon, <1>1, <2>5, <2>6 DEF DownRest
    <3> QED BY Zenon, <3>1 DEF DownHasRest
  <2> QED BY Zenon, <1>1, <2>1, <2>3, <2>4, <2>6 DEF InStep
<1> QED BY Zenon, <1>1, <1>2 DEF DownInv


\* Every step keeps the invariant of the way down.
LEMMA DownStep == DownInv /\ [Next]_vars => DownInv'
<1> SUFFICES ASSUME DownInv, [Next]_vars PROVE DownInv'
  BY Zenon
<1>1. CASE downVars' = downVars /\ (lost => lost') /\ (socket' = socket \/ (lost /\ down = <<>>))
  <2>1. /\ down' = down /\ readBuf' = readBuf /\ sentDown' = sentDown /\ emitted' = emitted
        /\ clean' = clean
    BY Zenon, <1>1 DEF downVars
  <2>2. ASSUME NEW G, NEW Q, DownRest(G, Q) PROVE DownRest(G, Q)'
    BY Zenon, <1>1, <2>1, <2>2 DEF DownRest
  <2>3. InStep => InStep'
    BY Zenon, <2>1, <2>2 DEF InStep, DownHasRest
  <2> QED BY Zenon, <1>1, <2>1, <2>3 DEF DownInv, Fits
<1>2. CASE ParseFrame
  <2>1. CASE decode_header(read_buf).type = HEARTBEAT /\ ~lost
    <3>1. /\ down' = Cat(down, encode_ack_frame(HEARTBEAT, 0)) /\ sentDown' = Append(sentDown, Answer)
          /\ readBuf' = readBuf /\ emitted' = emitted /\ clean' = clean /\ lost' = lost
          /\ socket' = socket
      BY Zenon, <1>2, <2>1 DEF ParseFrame, Cat, Answer
    <3>2. Wire(Answer) = encode_ack_frame(HEARTBEAT, 0)
      <4>1. /\ Answer.type = HEARTBEAT /\ Answer.msg_id = 0
            /\ HEARTBEAT \notin {SUBSCRIBE, PUBLISH, EVENT_DATA}
        BY DEF Answer, HEARTBEAT, SUBSCRIBE, PUBLISH, EVENT_DATA
      <4> QED BY Zenon, <4>1 DEF Wire, Encoded
    <3> QED BY Zenon, <2>1, <3>1, <3>2, DownPut DEF DownFrames
  <2>2. CASE ~(decode_header(read_buf).type = HEARTBEAT /\ ~lost)
    <3>1. downVars' = downVars /\ lost' = lost /\ socket' = socket
      BY Zenon, <1>2, <2>2 DEF ParseFrame, downVars
    <3> QED BY Zenon, <1>1, <3>1
  <2> QED BY Zenon, <2>1, <2>2
<1>3. ASSUME NEW e \in Events, BrokerSends(e) PROVE DownInv'
  <2>1. e \in DownFrames /\ Wire(e) = encode_frame(EVENT_DATA, e.msg_id, e.topic, e.rest)
    BY Zenon, FramesFit DEF DownFrames, Wire
  <2>2. /\ ~lost /\ down' = Cat(down, Wire(e)) /\ sentDown' = Append(sentDown, e)
        /\ readBuf' = readBuf /\ emitted' = emitted /\ clean' = clean /\ lost' = lost
        /\ socket' = socket
    BY Zenon, <1>3, <2>1 DEF BrokerSends, Cat
  <2> QED BY Zenon, <2>1, <2>2, DownPut
<1>4. CASE Reconnect
  <2>1. /\ down' = down /\ down = <<>> /\ readBuf' = readBuf /\ sentDown' = <<>>
        /\ emitted' = <<>> /\ clean' = (readBuf = <<>>) /\ socket' = "open"
    BY Zenon, <1>4 DEF Reconnect, DownInv
  <2>2. <<>> \in Bytes /\ Cat(<<>>, <<>>) = <<>> /\ <<>> \in FrameSeqs /\ <<>> \in Seq(DownFrames)
    BY Nothing, FramesJoined
  <2>3. ASSUME clean' PROVE InStep'
    <3>1. readBuf' = <<>> /\ down' = <<>>
      BY Zenon, <2>1, <2>3
    <3>2. DownRest(<<>>, <<>>)'
      BY Zenon, <2>1, <2>2, <3>1, CarriesNone DEF DownRest
    <3> QED BY Zenon, <2>1, <2>2, <3>1, <3>2, EmptyIncomplete DEF InStep, DownHasRest
  <2>4. socket' # "closed"
    BY <2>1
  <2> QED BY Zenon, <2>1, <2>2, <2>3, <2>4 DEF DownInv
<1>5. ASSUME NEW f \in UpFrames, GatewaySends(f) PROVE DownInv'
  BY Zenon, <1>1, <1>5 DEF GatewaySends
<1>6. ASSUME NEW n \in 1..Len(up), Recv(n) PROVE DownInv'
  BY Zenon, <1>1, <1>6 DEF Recv
<1>7. CASE ParseDone
  BY Zenon, <1>1, <1>7 DEF ParseDone
<1>8. CASE HandlerCloses
  BY Zenon, <1>1, <1>8 DEF HandlerCloses
<1>9. CASE GatewayCloses
  BY Zenon, <1>1, <1>9 DEF GatewayCloses
<1>10. CASE UNCHANGED vars
  BY Zenon, <1>1, <1>10 DEF vars
<1> QED BY Zenon, <1>2, <1>3, <1>4, <1>5, <1>6, <1>7, <1>8, <1>9, <1>10, DownData, DownLose DEF Next

\* What the invariant of the way down says of the frames.
LEMMA DownMeaning == DownInv => DownstreamAsSent
<1> SUFFICES ASSUME DownInv, clean, Fits(sentDown)
             PROVE  /\ Begins(emitted, sentDown)
                    /\ down = <<>> /\ ~lost => emitted = sentDown
                    /\ Len(readBuf) >= HEADER_SIZE => decode_header(readBuf).valid
  BY Zenon DEF DownstreamAsSent
<1>1. InStep
  BY Zenon DEF DownInv
<1>2. PICK G, Q : DownRest(G, Q)
  BY Zenon, <1>1 DEF InStep, DownHasRest
<1> DEFINE X == Cat(down, Q)
<1>3. /\ down \in Bytes /\ readBuf \in Bytes /\ emitted \in FrameSeqs /\ Q \in Bytes
      /\ Carries(Cat(readBuf, X), G) /\ sentDown = Cat(emitted, G) /\ G \in FrameSeqs
      /\ (~lost => Q = <<>>) /\ ~Complete(readBuf)
  BY Zenon, <1>1, <1>2 DEF InStep, DownRest, Carries
<1>4. X \in Bytes
  BY Zenon, <1>3, Joined
<1>5. Len(readBuf) >= HEADER_SIZE => decode_header(readBuf).valid
  BY Zenon, <1>3, <1>4, BufferStart
<1>6. ASSUME down = <<>>, ~lost PROVE emitted = sentDown
  <2>1. X = <<>>
    BY Zenon, <1>3, <1>6, Nothing
  <2> HIDE DEF X
  <2>2. ~Complete(readBuf) /\ X = <<>> => G = <<>>
    BY <1>3, <1>4, BufferStart
  <2> QED BY Zenon, <1>3, <2>1, <2>2, FramesJoined
<1>7. Begins(emitted, sentDown)
  BY <1>3, PrefixOfCat
<1> QED BY Zenon, <1>5, <1>6, <1>7

\* For every number base, field widths, magic and set of events, and however the
\* bytes are cut and connections break: TcpClient emits, and wsServer decodes,
\* the frames that the broker encoded, in order, each once and as soon as it is
\* complete, on a connection that found the buffer empty and while the topics fit.
THEOREM DownstreamIntact == Spec => []DownstreamAsSent
<1>1. Init => DownInv
  <2> SUFFICES ASSUME Init PROVE DownInv
    BY Zenon
  <2>1. /\ down = <<>> /\ readBuf = <<>> /\ sentDown = <<>> /\ emitted = <<>> /\ socket = "open"
    BY Zenon DEF Init
  <2>2. <<>> \in Bytes /\ Cat(<<>>, <<>>) = <<>> /\ <<>> \in FrameSeqs /\ <<>> \in Seq(DownFrames)
    BY Nothing, FramesJoined
  <2>3. DownRest(<<>>, <<>>)
    BY Zenon, <2>1, <2>2, CarriesNone DEF DownRest
  <2>4. socket # "closed"
    BY <2>1
  <2> QED BY Zenon, <2>1, <2>2, <2>3, <2>4, EmptyIncomplete DEF DownInv, InStep, DownHasRest
<1> QED BY <1>1, DownStep, DownMeaning, PTL DEF Spec

==============================================================================
