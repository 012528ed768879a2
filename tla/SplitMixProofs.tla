--------------------------- MODULE SplitMixProofs ---------------------------
(***************************************************************************)
(* What is proved of the generator, for every width of a word, every odd   *)
(* increment and multipliers and every shifts: those of the 64-bit         *)
(* generator of src/src/rng.rs among them.                                 *)
(***************************************************************************)
EXTENDS SplitMix, SharedLemmas

-----------------------------------------------------------------------------
(* Powers of two and words *)

LEMMA PowersOfTwo ==
  /\ PowerOf2 \in [0..Width -> Nat \ {0}]
  /\ PowerOf2[0] = 1
  /\ \A n \in 1..Width : PowerOf2[n] = 2 * PowerOf2[n - 1]
<1> DEFINE len == Width
           D == Nat \ {0}
           turn(g, n) == IF n = 0 THEN 1 ELSE 2 * g[n - 1]
           step == [x \in D \X (1..len) |-> 2 * x[1]]
<1>1. len \in Nat
  BY GeneratorAssumption
<1>2. PowerOf2 = CHOOSE g : g = [n \in 0..len |-> turn(g, n)]
  BY Zenon DEF PowerOf2
<1>3. ASSUME NEW x \in D
      PROVE  2 * x \in D
  BY <1>3
<1>4. PICK g : Computed(g, D, 1, len, step)
  <2>1. step \in [D \X (1..len) -> D] /\ 1 \in D
    <3> HIDE DEF len
    <3> QED  BY <1>3
  <2> HIDE DEF step, len, D
  <2> QED  BY <1>1, <2>1, StepByStep
<1>5. ASSUME NEW n \in 0..len
      PROVE  g[n] = turn(g, n)
  <2>1. CASE n = 0
    BY <1>4, <2>1, Zenon DEF Computed
  <2>2. CASE n # 0
    <3>1. n \in 1..len /\ n - 1 \in 0..len
      BY <1>1, <2>2
    <3>2. g[n - 1] \in D /\ g[n] = step[<<g[n - 1], n>>]
      <4> HIDE DEF step, len, D
      <4> QED  BY <1>4, <3>1 DEF Computed
    <3>3. step[<<g[n - 1], n>>] = 2 * g[n - 1]
      <4> HIDE DEF D, len
      <4> QED  BY <3>1, <3>2
    <3> QED  BY <2>2, <3>2, <3>3, Zenon
  <2> QED  BY <2>1, <2>2
<1>6. g = [n \in 0..len |-> turn(g, n)]
  <2>1. g = [n \in 0..len |-> g[n]]
    BY <1>4, Zenon DEF Computed
  <2> HIDE DEF turn
  <2> QED  BY <1>5, <2>1
<1>7. PowerOf2 = [n \in 0..len |-> turn(PowerOf2, n)]
  <2> HIDE DEF turn
  <2> QED  BY <1>2, <1>6, Zenon
<1>8. \A n \in 0..len : PowerOf2[n] = turn(PowerOf2, n)
  <2> HIDE DEF turn
  <2> QED  BY <1>7
<1> DEFINE good == {n \in 0..len : PowerOf2[n] \in D}
<1>9. PowerOf2[0] = 1 /\ 0 \in good
  <2>1. 0 \in 0..len
    BY <1>1
  <2> HIDE DEF len
  <2> QED  BY <1>8, <2>1
<1>10. ASSUME NEW m \in 1..len
       PROVE  PowerOf2[m] = 2 * PowerOf2[m - 1]
  <2>1. m \in 0..len /\ m # 0
    BY <1>1
  <2> QED  BY <1>8, <2>1
<1>11. ASSUME NEW m \in 1..len, m - 1 \in good
       PROVE  m \in good
  <2>1. PowerOf2[m] = 2 * PowerOf2[m - 1] /\ m \in 0..len
    BY <1>1, <1>10
  <2>2. PowerOf2[m - 1] \in D
    BY <1>11
  <2> QED  BY <2>1, <2>2, <1>3
<1>12. \A n \in 0..len : n \in good
  <2> HIDE DEF good, len
  <2> QED  BY <1>1, <1>9, <1>11, UpTo
<1>13. PowerOf2 \in [0..len -> D]
  <2>1. PowerOf2 = [n \in 0..len |-> PowerOf2[n]]
    <3> HIDE DEF len
    <3> QED  BY <1>7
  <2>2. \A n \in 0..len : PowerOf2[n] \in D
    BY <1>12
  <2> HIDE DEF len, D
  <2> QED  BY <2>1, <2>2
<1> QED  BY <1>9, <1>10, <1>13

LEMMA WordFacts ==
  /\ Width \in Nat \ {0}
  /\ Period \in Nat /\ Period >= 2 /\ Period % 2 = 0
  /\ Word = 0..(Period - 1)
  /\ MAX = Period - 1
  /\ Word \subseteq Nat
<1>1. Width \in Nat \ {0} /\ Width \in 1..Width
  BY GeneratorAssumption
<1>2. Period = 2 * PowerOf2[Width - 1] /\ PowerOf2[Width - 1] \in Nat \ {0}
  BY <1>1, PowersOfTwo DEF Period
<1> QED  BY <1>1, <1>2 DEF Word, MAX

\* A shift by two amounts is a shift by both, in either order.
LEMMA DividedTwice ==
  ASSUME NEW z \in Nat, NEW m \in Nat \ {0}, NEW l \in Nat \ {0}
  PROVE  (z \div m) \div l = z \div (m * l)
<1> DEFINE q == z \div m
           p == q \div l
<1>1. /\ q \in Nat /\ q * m <= z /\ z < q * m + m
  BY SMT
<1>2. /\ p \in Nat /\ p * l <= q /\ q < p * l + l
  BY <1>1, SMT
<1> HIDE DEF p, q
<1>3. p * (m * l) <= z
  <2>1. (p * l) * m <= q * m
    BY <1>1, <1>2, SMT
  <2> QED  BY <1>1, <1>2, <2>1, SMT
<1>4. z < p * (m * l) + m * l
  <2>1. q + 1 <= p * l + l
    BY <1>1, <1>2
  <2>2. (q + 1) * m <= (p * l + l) * m
    BY <1>1, <1>2, <2>1, SMT
  <2> QED  BY <1>1, <1>2, <2>2, SMT
<1>5. m * l \in Nat \ {0}
  BY SMT
<1>6. z \div (m * l) = p
  <2> DEFINE ml == m * l
  <2>1. ml \in Nat \ {0} /\ p * ml <= z /\ z < p * ml + ml
    BY <1>3, <1>4, <1>5
  <2> HIDE DEF ml
  <2>2. z \div ml = p
    BY <1>2, <2>1, SMT
  <2> QED  BY <2>2 DEF ml
<1> QED  BY <1>6 DEF p, q

-----------------------------------------------------------------------------
(* Exclusive or *)

\* The n highest bits of a word, and the n-th highest of an exclusive or.
High(a, n) == a \div PowerOf2[Width - n]
XorBit(a, b, n) == (High(a, n) + High(b, n)) % 2

LEMMA HighIsNat ==
  ASSUME NEW a \in Nat, NEW n \in 0..Width
  PROVE  /\ PowerOf2[Width - n] \in Nat \ {0}
         /\ High(a, n) \in Nat
<1>1. Width - n \in 0..Width
  BY WordFacts
<1>2. PowerOf2[Width - n] \in Nat \ {0}
  BY <1>1, PowersOfTwo
<1> QED  BY <1>2 DEF High

\* g[n] has the n highest bits of a ^ b.
Xors(g, a, b) ==
  /\ g \in [0..Width -> Nat]
  /\ g[0] = 0
  /\ \A n \in 1..Width : g[n] = 2 * g[n - 1] + XorBit(a, b, n)

\* Xor is computed bit by bit.
LEMMA XorIsBitwise ==
  ASSUME NEW a \in Nat, NEW b \in Nat
  PROVE  \E g : Xors(g, a, b) /\ Xor(a, b) = g[Width]
<1> DEFINE len == Width
           turn(g, n) == IF n = 0 THEN 0
                         ELSE LET drop == PowerOf2[Width - n]
                              IN  2 * g[n - 1] + ((a \div drop + b \div drop) % 2)
           step == [x \in Nat \X (1..len) |-> 2 * x[1] + XorBit(a, b, x[2])]
           p == CHOOSE g : g = [n \in 0..len |-> turn(g, n)]
<1>1. len \in Nat
  BY WordFacts
<1>2. Xor(a, b) = p[len]
  BY Zenon DEF Xor
<1>3. ASSUME NEW n \in 1..len
      PROVE  XorBit(a, b, n) \in Nat
  <2>1. High(a, n) \in Nat /\ High(b, n) \in Nat
    BY HighIsNat
  <2> QED  BY <2>1 DEF XorBit
<1>4. ASSUME NEW g, NEW n, n # 0
      PROVE  turn(g, n) = 2 * g[n - 1] + XorBit(a, b, n)
  BY <1>4 DEF XorBit, High
<1>5. PICK g : Computed(g, Nat, 0, len, step)
  <2>1. step \in [Nat \X (1..len) -> Nat]
    <3> HIDE DEF len
    <3> QED  BY <1>3
  <2> HIDE DEF step, len
  <2> QED  BY <1>1, <2>1, StepByStep
<1>6. ASSUME NEW n \in 1..len
      PROVE  g[n] = 2 * g[n - 1] + XorBit(a, b, n)
  <2>1. n - 1 \in 0..len
    BY <1>1
  <2>2. g[n - 1] \in Nat /\ g[n] = step[<<g[n - 1], n>>]
    <3> HIDE DEF step, len
    <3> QED  BY <1>5, <2>1 DEF Computed
  <2> HIDE DEF len
  <2> QED  BY <2>2
<1>7. g = [n \in 0..len |-> turn(g, n)]
  <2>1. g = [n \in 0..len |-> g[n]]
    BY <1>5, Zenon DEF Computed
  <2>2. ASSUME NEW n \in 0..len
        PROVE  g[n] = turn(g, n)
    <3>1. CASE n = 0
      BY <1>5, <3>1, Zenon DEF Computed
    <3>2. CASE n # 0
      <4>1. n \in 1..len
        BY <1>1, <3>2
      <4> QED  BY <1>4, <1>6, <3>2, <4>1, Zenon
    <3> QED  BY <3>1, <3>2
  <2> HIDE DEF turn
  <2> QED  BY <2>1, <2>2
<1>8. p = [n \in 0..len |-> turn(p, n)]
  <2> HIDE DEF turn
  <2> QED  BY <1>7, Zenon
<1> HIDE DEF p
<1>9. \A n \in 0..len : p[n] = turn(p, n)
  <2> HIDE DEF turn
  <2> QED  BY <1>8
<1> DEFINE good == {n \in 0..len : p[n] \in Nat}
<1>10. p[0] = 0 /\ 0 \in good
  <2>1. 0 \in 0..len
    BY <1>1
  <2>2. p[0] = turn(p, 0)
    <3> HIDE DEF turn, len
    <3> QED  BY <1>9, <2>1
  <2>3. p[0] = 0
    BY <2>2, Zenon
  <2> QED  BY <2>1, <2>3
<1>11. ASSUME NEW m \in 1..len
       PROVE  p[m] = 2 * p[m - 1] + XorBit(a, b, m)
  <2>1. m \in 0..len /\ m # 0
    BY <1>1
  <2> HIDE DEF turn, len
  <2> QED  BY <1>4, <1>9, <2>1
<1>12. ASSUME NEW m \in 1..len, m - 1 \in good
       PROVE  m \in good
  <2>1. p[m] = 2 * p[m - 1] + XorBit(a, b, m) /\ m \in 0..len
    BY <1>1, <1>11
  <2>2. p[m - 1] \in Nat /\ XorBit(a, b, m) \in Nat
    BY <1>3, <1>12
  <2> QED  BY <2>1, <2>2
<1>13. \A n \in 0..len : n \in good
  <2> HIDE DEF good, len
  <2> QED  BY <1>1, <1>10, <1>12, UpTo
<1>14. p \in [0..len -> Nat]
  <2>1. p = [n \in 0..len |-> p[n]]
    <3> HIDE DEF turn, len
    <3> QED  BY <1>8
  <2>2. \A n \in 0..len : p[n] \in Nat
    BY <1>13
  <2> HIDE DEF len
  <2> QED  BY <2>1, <2>2
<1>15. Xors(p, a, b)
  <2> HIDE DEF turn
  <2> QED  BY <1>10, <1>11, <1>14 DEF Xors
<1> QED  BY <1>2, <1>15

\* An exclusive or is a word.
LEMMA XorIsWord ==
  ASSUME NEW a \in Nat, NEW b \in Nat
  PROVE  Xor(a, b) \in Word
<1>1. PICK g : Xors(g, a, b) /\ Xor(a, b) = g[Width]
  BY XorIsBitwise
<1> DEFINE good == {n \in 0..Width : g[n] \in Nat /\ g[n] < PowerOf2[n]}
<1>2. 0 \in good /\ Width \in Nat
  BY <1>1, WordFacts, PowersOfTwo DEF Xors
<1>3. ASSUME NEW m \in 1..Width, m - 1 \in good
      PROVE  m \in good
  <2>1. /\ PowerOf2[m] = 2 * PowerOf2[m - 1]
        /\ m \in 0..Width /\ m - 1 \in 0..Width
    BY WordFacts, PowersOfTwo
  <2>2. PowerOf2[m - 1] \in Nat
    BY <2>1, PowersOfTwo
  <2>3. g[m] = 2 * g[m - 1] + XorBit(a, b, m)
    BY <1>1 DEF Xors
  <2>4. XorBit(a, b, m) \in 0..1
    <3>1. High(a, m) \in Nat /\ High(b, m) \in Nat
      BY <2>1, HighIsNat
    <3> QED  BY <3>1 DEF XorBit
  <2>5. g[m - 1] \in Nat /\ g[m - 1] < PowerOf2[m - 1]
    BY <1>3
  <2> QED  BY <2>1, <2>2, <2>3, <2>4, <2>5
<1>4. Width \in good
  <2> HIDE DEF good
  <2> QED  BY <1>2, <1>3, UpTo
<1> QED  BY <1>1, <1>4, WordFacts DEF Period

\* An exclusive or whose bits agree with another's all the way down has the same
\* bits.
LEMMA XorsAgree ==
  ASSUME NEW a \in Nat, NEW b \in Nat, NEW c \in Nat, NEW d \in Nat, Xor(a, b) = Xor(c, d)
  PROVE  \A n \in 1..Width : XorBit(a, b, n) = XorBit(c, d, n)
<1>1. PICK g : Xors(g, a, b) /\ Xor(a, b) = g[Width]
  BY XorIsBitwise
<1>2. PICK h : Xors(h, c, d) /\ Xor(c, d) = h[Width]
  BY XorIsBitwise
<1>3. ASSUME NEW n \in 1..Width, g[n] = h[n]
      PROVE  g[n - 1] = h[n - 1] /\ XorBit(a, b, n) = XorBit(c, d, n)
  <2>1. n \in 0..Width /\ n - 1 \in 0..Width
    BY WordFacts
  <2>2. g[n - 1] \in Nat /\ h[n - 1] \in Nat
    BY <1>1, <1>2, <2>1 DEF Xors
  <2>3. /\ g[n] = 2 * g[n - 1] + XorBit(a, b, n)
        /\ h[n] = 2 * h[n - 1] + XorBit(c, d, n)
    BY <1>1, <1>2 DEF Xors
  <2>4. XorBit(a, b, n) \in 0..1 /\ XorBit(c, d, n) \in 0..1
    <3>1. High(a, n) \in Nat /\ High(b, n) \in Nat /\ High(c, n) \in Nat /\ High(d, n) \in Nat
      BY <2>1, HighIsNat
    <3> QED  BY <3>1 DEF XorBit
  <2> DEFINE x == g[n - 1]
             y == h[n - 1]
             p == XorBit(a, b, n)
             q == XorBit(c, d, n)
  <2>5. x \in Nat /\ y \in Nat /\ p \in 0..1 /\ q \in 0..1 /\ 2 * x + p = 2 * y + q
    BY <1>3, <2>2, <2>3, <2>4
  <2> HIDE DEF x, y, p, q
  <2>6. x = y /\ p = q
    BY <2>5
  <2> QED  BY <2>6 DEF x, y, p, q
<1> DEFINE good == {n \in 0..Width : g[Width - n] = h[Width - n]}
<1>4. 0 \in good /\ Width \in Nat
  <2>1. Width - 0 = Width /\ 0 \in 0..Width
    BY WordFacts
  <2>2. g[Width] = h[Width]
    BY <1>1, <1>2, Zenon
  <2> QED  BY <2>1, <2>2, WordFacts
<1>5. ASSUME NEW m \in 1..Width, m - 1 \in good
      PROVE  m \in good
  <2>1. Width - (m - 1) \in 1..Width /\ Width - (m - 1) - 1 = Width - m /\ m \in 0..Width
    BY WordFacts
  <2>2. g[Width - (m - 1)] = h[Width - (m - 1)]
    BY <1>5
  <2>3. g[Width - (m - 1) - 1] = h[Width - (m - 1) - 1]
    BY <1>3, <2>1, <2>2
  <2> QED  BY <2>1, <2>3
<1>6. \A n \in 0..Width : n \in good
  <2> HIDE DEF good
  <2> QED  BY <1>4, <1>5, UpTo
<1>7. ASSUME NEW n \in 1..Width
      PROVE  g[n] = h[n]
  <2>1. Width - n \in 0..Width /\ Width - (Width - n) = n
    BY WordFacts
  <2>2. Width - n \in good
    BY <1>6, <2>1
  <2>3. g[Width - (Width - n)] = h[Width - (Width - n)]
    BY <2>2
  <2> QED  BY <2>1, <2>3
<1> QED  BY <1>3, <1>7

\* What is shifted in at a bit depends on the bits above it.
LEMMA ShiftedFromAbove ==
  ASSUME NEW z \in Nat, NEW shift \in 1..(Width - 1), NEW n \in 1..Width
  PROVE  High(z \div PowerOf2[shift], n) = High(z, n - 1) \div PowerOf2[shift - 1]
<1>1. /\ Width - n \in 0..Width /\ Width - (n - 1) \in 1..Width
      /\ shift - 1 \in 0..Width /\ shift \in 1..Width
      /\ Width - (n - 1) - 1 = Width - n
  BY WordFacts
<1> DEFINE drop == PowerOf2[Width - n]
           half == PowerOf2[shift - 1]
<1>2. drop \in Nat \ {0} /\ half \in Nat \ {0}
  BY <1>1, PowersOfTwo
<1>3. PowerOf2[shift] = 2 * half /\ PowerOf2[Width - (n - 1)] = 2 * drop
  BY <1>1, PowersOfTwo
<1> HIDE DEF drop, half
<1>4. 2 * half \in Nat \ {0} /\ 2 * drop \in Nat \ {0} /\ (2 * half) * drop = (2 * drop) * half
  BY <1>2, SMT
<1>5. (z \div (2 * half)) \div drop = z \div ((2 * half) * drop)
  BY <1>2, <1>4, DividedTwice
<1>6. (z \div (2 * drop)) \div half = z \div ((2 * drop) * half)
  BY <1>2, <1>4, DividedTwice
<1> QED  BY <1>3, <1>4, <1>5, <1>6 DEF High, drop, half

\* Toggling the bits of a word by higher ones of it loses nothing: the highest
\* bit is as it was, and each bit known gives the next.
LEMMA XorShiftIsOneToOne ==
  ASSUME NEW y \in Word, NEW z \in Word, NEW shift \in 1..(Width - 1),
         XorShift(y, shift) = XorShift(z, shift)
  PROVE  y = z
<1>1. y \in Nat /\ z \in Nat /\ shift \in 0..Width
  BY WordFacts
<1> DEFINE ys == y \div PowerOf2[shift]
           zs == z \div PowerOf2[shift]
           good == {n \in 0..Width : High(y, n) = High(z, n)}
<1>2. ys \in Nat /\ zs \in Nat
  <2>1. PowerOf2[shift] \in Nat \ {0}
    BY <1>1, PowersOfTwo
  <2> QED  BY <1>1, <2>1
<1>3. \A n \in 1..Width : XorBit(y, ys, n) = XorBit(z, zs, n)
  <2>1. Xor(y, ys) = Xor(z, zs)
    BY Zenon DEF XorShift
  <2> HIDE DEF ys, zs
  <2> QED  BY <1>1, <1>2, <2>1, XorsAgree
<1>4. 0 \in good /\ Width \in Nat
  <2>1. y \div Period = 0 /\ z \div Period = 0 /\ Width - 0 = Width
    BY WordFacts
  <2>2. High(y, 0) = 0 /\ High(z, 0) = 0
    BY <2>1 DEF High, Period
  <2> QED  BY <2>2, WordFacts
<1>5. ASSUME NEW m \in 1..Width, m - 1 \in good
      PROVE  m \in good
  <2>1. m \in 0..Width /\ m - 1 \in 0..Width /\ Width - m \in 0..Width
        /\ Width - (m - 1) \in 1..Width /\ Width - (m - 1) - 1 = Width - m
    BY WordFacts
  <2>2. High(y, m - 1) = High(z, m - 1)
    BY <1>5
  <2>3. High(ys, m) = High(zs, m)
    BY <1>1, <2>2, ShiftedFromAbove
  <2>4. (High(y, m) + High(ys, m)) % 2 = (High(z, m) + High(ys, m)) % 2
    BY <1>3, <2>3 DEF XorBit
  <2>5. ASSUME NEW x \in Nat
        PROVE  High(x, m - 1) = High(x, m) \div 2
    <3>1. PowerOf2[Width - (m - 1)] = PowerOf2[Width - m] * 2 /\ PowerOf2[Width - m] \in Nat \ {0}
      BY <2>1, PowersOfTwo
    <3> DEFINE drop == PowerOf2[Width - m]
    <3> HIDE DEF drop
    <3>2. (x \div drop) \div 2 = x \div (drop * 2)
      BY <3>1, DividedTwice DEF drop
    <3> QED  BY <3>1, <3>2 DEF High, drop
  <2>6. High(y, m) \in Nat /\ High(z, m) \in Nat /\ High(ys, m) \in Nat
    <3> HIDE DEF ys
    <3> QED  BY <1>1, <1>2, <2>1, HighIsNat
  <2>7. High(y, m) \div 2 = High(z, m) \div 2
    BY <1>1, <2>2, <2>5
  <2>8. High(y, m) = High(z, m)
    <3> DEFINE hy == High(y, m)
               hz == High(z, m)
               s == High(ys, m)
    <3> HIDE DEF hy, hz, s
    <3>1. hy \in Nat /\ hz \in Nat /\ s \in Nat /\ hy \div 2 = hz \div 2 /\ (hy + s) % 2 = (hz + s) % 2
      BY <2>4, <2>6, <2>7 DEF hy, hz, s
    <3>2. hy = hz
      BY <3>1, SMT
    <3> QED  BY <3>2 DEF hy, hz
  <2> QED  BY <2>1, <2>8
<1>6. Width \in good
  <2> HIDE DEF good
  <2> QED  BY <1>4, <1>5, UpTo
<1>7. ASSUME NEW x \in Nat
      PROVE  High(x, Width) = x
  <2>1. Width - Width = 0 /\ PowerOf2[0] = 1 /\ x \div 1 = x
    BY WordFacts, PowersOfTwo
  <2> QED  BY <2>1 DEF High
<1> QED  BY <1>1, <1>6, <1>7

-----------------------------------------------------------------------------
(* Products by odd numbers *)

\* A power of two that divides an odd multiple of a number divides the number.
LEMMA OddFactor ==
  ASSUME NEW m \in Nat, m % 2 = 1
  PROVE  \A n \in 0..Width : \A d, q \in Int :
           d * m = PowerOf2[n] * q => \E e \in Int : d = PowerOf2[n] * e
<1> DEFINE fine(n) == \A d, q \in Int :
                        d * m = PowerOf2[n] * q => \E e \in Int : d = PowerOf2[n] * e
           good == {n \in 0..Width : fine(n)}
<1>1. 0 \in good /\ Width \in Nat
  <2>1. PowerOf2[0] = 1 /\ 0 \in 0..Width
    BY WordFacts, PowersOfTwo
  <2>2. \A d \in Int : d = 1 * d
    OBVIOUS
  <2>3. fine(0)
    BY <2>1, <2>2
  <2> HIDE DEF fine
  <2> QED  BY <2>1, <2>3, WordFacts
<1>2. ASSUME NEW n \in 1..Width, n - 1 \in good
      PROVE  n \in good
  <2>1. n \in 0..Width /\ n - 1 \in 0..Width
    BY WordFacts
  <2> DEFINE power == PowerOf2[n - 1]
  <2>2. PowerOf2[n] = 2 * power /\ power \in Nat \ {0}
    BY <2>1, PowersOfTwo
  <2>3. ASSUME NEW d \in Int, NEW q \in Int, d * m = PowerOf2[n] * q
        PROVE  \E e \in Int : d = PowerOf2[n] * e
    <3>0. 2 * q \in Int /\ PowerOf2[n] * q = power * (2 * q)
      BY <2>2, SMT
    <3>1. PICK e \in Int : d = power * e
      <4>1. fine(n - 1)
        BY <1>2
      <4> QED  BY <2>3, <3>0, <4>1
    <3> HIDE DEF power
    <3>2. power * (e * m) = power * (2 * q)
      BY <2>2, <2>3, <3>0, <3>1, SMT
    <3>3. e * m = 2 * q
      <4> DEFINE x == e * m
                 y == 2 * q
      <4>1. x \in Int /\ y \in Int /\ power * x = power * y
        BY <3>2
      <4> HIDE DEF x, y
      <4>2. x = y
        BY <2>2, <4>1, SMT
      <4> QED  BY <4>2 DEF x, y
    <3>4. PICK t \in Nat : m = 2 * t + 1
      <4>1. m = 2 * (m \div 2) + 1 /\ m \div 2 \in Nat
        OBVIOUS
      <4> QED  BY <4>1
    <3>5. e = 2 * (q - e * t)
      BY <3>3, <3>4, SMT
    <3>6. q - e * t \in Int /\ d = (2 * power) * (q - e * t)
      BY <2>2, <3>1, <3>5, SMT
    <3> QED  BY <2>2, <3>6
  <2>4. fine(n)
    BY <2>3
  <2> HIDE DEF fine
  <2> QED  BY <2>1, <2>4
<1> QED
  <2>1. \A n \in 0..Width : n \in good
    <3> HIDE DEF good
    <3> QED  BY <1>1, <1>2, UpTo
  <2> QED  BY <2>1

\* Numbers that differ by an odd multiple of less than a period leave different
\* remainders.
LEMMA OddStepsDiffer ==
  ASSUME NEW m \in Nat, m % 2 = 1, NEW b \in Nat,
         NEW i \in Nat, NEW j \in Nat, i - j < Period, j - i < Period,
         (b + i * m) % Period = (b + j * m) % Period
  PROVE  i = j
<1> DEFINE x == b + i * m
           y == b + j * m
<1>1. x \in Nat /\ y \in Nat
  BY SMT
<1>2. Period \in Nat \ {0} /\ Width \in 0..Width /\ Period = PowerOf2[Width]
  BY WordFacts DEF Period
<1>3. /\ x = Period * (x \div Period) + (x % Period) /\ x \div Period \in Int
      /\ y = Period * (y \div Period) + (y % Period) /\ y \div Period \in Int
      /\ x % Period = y % Period
  <2>1. ASSUME NEW z \in Nat, NEW P \in Nat \ {0}
        PROVE  z = P * (z \div P) + (z % P) /\ z \div P \in Int
    BY SMT
  <2>2. x % Period = y % Period
    OBVIOUS
  <2> HIDE DEF x, y
  <2> QED  BY <1>1, <1>2, <2>1, <2>2
<1> DEFINE q == x \div Period - y \div Period
<1>4. q \in Int /\ x - y = Period * q
  <2>1. ASSUME NEW P \in Int, NEW u \in Int, NEW v \in Int, NEW r \in Int
        PROVE  (P * u + r) - (P * v + r) = P * (u - v)
    BY SMT
  <2> DEFINE u == x \div Period
             v == y \div Period
             r == x % Period
  <2>2. r \in Int /\ u \in Int /\ v \in Int /\ Period \in Int
    <3> HIDE DEF x, y
    <3> QED  BY <1>1, <1>2, <1>3, SMT
  <2>3. x = Period * u + r /\ y = Period * v + r
    <3> HIDE DEF x, y
    <3> QED  BY <1>3
  <2> HIDE DEF x, y, u, v, r
  <2>4. u - v \in Int /\ x - y = Period * (u - v)
    BY <2>1, <2>2, <2>3
  <2> QED  BY <2>4 DEF u, v
<1>5. (i - j) * m = PowerOf2[Width] * q
  <2>1. x - y = (i - j) * m
    BY SMT
  <2> HIDE DEF x, y, q
  <2> QED  BY <1>2, <1>4, <2>1
<1> HIDE DEF x, y, q
<1>6. PICK e \in Int : i - j = PowerOf2[Width] * e
  <2>1. i - j \in Int
    OBVIOUS
  <2> QED  BY <1>2, <1>4, <1>5, <2>1, OddFactor
<1>7. i - j = Period * e
  BY <1>2, <1>6
<1> QED  BY <1>2, <1>7, SMT

-----------------------------------------------------------------------------
(* The stream of words *)

LEMMA ConstantsOfMix ==
  /\ \A i \in 1..2 : Multipliers[i] \in Nat /\ Multipliers[i] % 2 = 1
  /\ \A i \in 1..3 : Shifts[i] \in 1..(Width - 1)
  /\ Gamma \in Nat /\ Gamma % 2 = 1
  BY GeneratorAssumption, WordFacts

LEMMA XorShiftIsWord ==
  ASSUME NEW z \in Word, NEW shift \in 1..(Width - 1)
  PROVE  XorShift(z, shift) \in Word
<1>1. shift \in 0..Width /\ z \in Nat
  BY WordFacts
<1>2. PowerOf2[shift] \in Nat \ {0}
  BY <1>1, PowersOfTwo
<1>3. z \div PowerOf2[shift] \in Nat
  BY <1>1, <1>2
<1> QED  BY <1>1, <1>3, XorIsWord DEF XorShift

\* One round of the mix: a shifted exclusive or, and a product that wraps.
LEMMA RoundIsOneToOne ==
  ASSUME NEW m \in Nat, m % 2 = 1, NEW shift \in 1..(Width - 1)
  PROVE  /\ \A z \in Word : (XorShift(z, shift) * m) % Period \in Word
         /\ \A y, z \in Word :
              (XorShift(y, shift) * m) % Period = (XorShift(z, shift) * m) % Period => y = z
<1>1. ASSUME NEW z \in Word
      PROVE  (XorShift(z, shift) * m) % Period \in Word
  <2> DEFINE x == XorShift(z, shift)
  <2>1. x \in Nat
    BY XorShiftIsWord, WordFacts
  <2> HIDE DEF x
  <2>2. x * m \in Nat
    BY <2>1, SMT
  <2> DEFINE p == x * m
  <2> HIDE DEF p
  <2>3. p % Period \in Word
    BY <2>2, WordFacts DEF p
  <2> QED  BY <2>3 DEF p, x
<1>2. ASSUME NEW y \in Word, NEW z \in Word,
             (XorShift(y, shift) * m) % Period = (XorShift(z, shift) * m) % Period
      PROVE  y = z
  <2> DEFINE i == XorShift(y, shift)
             j == XorShift(z, shift)
  <2>1. i \in Word /\ j \in Word
    BY XorShiftIsWord
  <2>2. (i * m) % Period = (j * m) % Period
    BY <1>2
  <2> HIDE DEF i, j
  <2>3. i \in Nat /\ j \in Nat /\ i - j < Period /\ j - i < Period
    BY <2>1, WordFacts
  <2>4. 0 + i * m = i * m /\ 0 + j * m = j * m
    BY <2>3, SMT
  <2>5. (0 + i * m) % Period = (0 + j * m) % Period
    BY <2>2, <2>4
  <2>6. i = j
    BY <2>3, <2>5, OddStepsDiffer
  <2> QED  BY <2>6, XorShiftIsOneToOne DEF i, j
<1> QED  BY <1>1, <1>2

\* The mix of next_u64 loses nothing: different states give different words, so
\* that every word is the mix of one state (rng.rs next_u64).
THEOREM MixIsOneToOne ==
  /\ \A z \in Word : Mix(z) \in Word
  /\ \A y, z \in Word : Mix(y) = Mix(z) => y = z
<1> DEFINE first(z) == (XorShift(z, Shifts[1]) * Multipliers[1]) % Period
           second(z) == (XorShift(z, Shifts[2]) * Multipliers[2]) % Period
           third(z) == XorShift(z, Shifts[3])
<1>1. \A z : Mix(z) = third(second(first(z)))
  BY Zenon DEF Mix
<1>2. /\ \A z \in Word : first(z) \in Word
      /\ \A y, z \in Word : first(y) = first(z) => y = z
  BY ConstantsOfMix, RoundIsOneToOne
<1>3. /\ \A z \in Word : second(z) \in Word
      /\ \A y, z \in Word : second(y) = second(z) => y = z
  BY ConstantsOfMix, RoundIsOneToOne
<1>4. /\ \A z \in Word : third(z) \in Word
      /\ \A y, z \in Word : third(y) = third(z) => y = z
  BY ConstantsOfMix, XorShiftIsWord, XorShiftIsOneToOne
<1> HIDE DEF first, second, third
<1> QED  BY <1>1, <1>2, <1>3, <1>4

LEMMA NextWordIsMix ==
  ASSUME NEW s \in Word
  PROVE  /\ Advance(s) \in Word
         /\ NextWord(s) = Mix(Advance(s))
         /\ NextWord(s) \in Word
<1> DEFINE words == [i \in 1..Period |-> Mix(Advance(i - 1))]
<1>1. ASSUME NEW t \in Word
      PROVE  Advance(t) \in Word
  <2>1. t + Gamma \in Nat
    BY WordFacts, ConstantsOfMix
  <2> QED  BY <2>1, WordFacts DEF Advance
<1>2. \A i \in 1..Period : Mix(Advance(i - 1)) \in Word
  <2>1. \A i \in 1..Period : i - 1 \in Word
    BY WordFacts
  <2> QED  BY <1>1, <2>1, MixIsOneToOne
<1>3. words \in Seq(Word)
  BY <1>2, WordFacts
<1>4. Stream = words
  <2> HIDE DEF words
  <2>1. <<>> \o words = words
    BY <1>3
  <2> QED  BY <2>1, Zenon DEF Stream, words
<1>5. s + 1 \in 1..Period /\ s + 1 - 1 = s
  BY WordFacts
<1>6. words[s + 1] = Mix(Advance(s))
  <2>1. \A i \in 1..Period : words[i] = Mix(Advance(i - 1))
    BY Zenon
  <2>2. PICK i \in 1..Period : i = s + 1 /\ i - 1 = s
    BY <1>5, WordFacts
  <2>3. words[i] = Mix(Advance(i - 1))
    BY <2>1
  <2>4. Mix(Advance(i - 1)) = Mix(Advance(s))
    BY <2>2, Zenon
  <2> HIDE DEF words
  <2> QED  BY <2>2, <2>3, <2>4, Zenon
<1> QED  BY <1>1, <1>4, <1>6, MixIsOneToOne, Zenon DEF NextWord

-----------------------------------------------------------------------------
(* A period *)

\* The state i draws after a base.
StateAfter(base, i) == (base + i * Gamma) % Period

\* The words of the first n draws after it.
WordsAfter(base, n) == {Mix(StateAfter(base, i)) : i \in 1..n}

LEMMA StatesDiffer ==
  ASSUME NEW base \in Word
  PROVE  /\ StateAfter(base, 0) = base
         /\ \A i \in Nat : StateAfter(base, i) \in Word
         /\ \A i \in Nat : Advance(StateAfter(base, i)) = StateAfter(base, i + 1)
         /\ \A i, j \in 1..Period : StateAfter(base, i) = StateAfter(base, j) => i = j
<1>1. base \in Nat /\ base < Period /\ Gamma \in Nat /\ Period \in Nat \ {0}
  BY WordFacts, ConstantsOfMix
<1>2. StateAfter(base, 0) = base
  <2>1. base + 0 * Gamma = base
    BY <1>1
  <2>2. base % Period = base
    BY <1>1
  <2> QED  BY <2>1, <2>2 DEF StateAfter
<1>3. ASSUME NEW i \in Nat
      PROVE  base + i * Gamma \in Nat
  BY <1>1, SMT
<1>4. ASSUME NEW i \in Nat
      PROVE  StateAfter(base, i) \in Word
  <2> DEFINE x == base + i * Gamma
  <2>1. x \in Nat
    BY <1>3
  <2> HIDE DEF x
  <2>2. x % Period \in Word
    BY <1>1, <2>1, WordFacts
  <2> QED  BY <2>2 DEF StateAfter, x
<1>5. ASSUME NEW i \in Nat
      PROVE  Advance(StateAfter(base, i)) = StateAfter(base, i + 1)
  <2> DEFINE x == base + i * Gamma
  <2>1. ASSUME NEW u \in Nat, NEW g \in Nat, NEW P \in Nat \ {0}
        PROVE  ((u % P) + g) % P = (u + g) % P
    <3> DEFINE r == u % P
               s == (r + g) % P
               a == u \div P
               b == (r + g) \div P
    <3>1. /\ u = P * a + r /\ a \in Nat /\ r \in Nat
      BY SMT
    <3> HIDE DEF a, r
    <3>2. r + g = P * b + s /\ b \in Nat /\ s \in 0..(P - 1)
      BY <3>1, SMT
    <3> HIDE DEF b, s
    <3>3. a + b \in Nat /\ u + g = P * (a + b) + s
      BY <3>1, <3>2, SMT
    <3> DEFINE c == a + b
               z == u + g
    <3>4. c \in Nat /\ z \in Nat /\ z = P * c + s
      BY <3>3
    <3> HIDE DEF c, z
    <3>5. z % P = s
      BY <3>2, <3>4, SMT
    <3> QED  BY <3>5 DEF z, s, r
  <2>2. x \in Nat
    BY <1>3
  <2>3. base + (i + 1) * Gamma = x + Gamma
    BY <1>1, SMT
  <2>4. ((x % Period) + Gamma) % Period = (x + Gamma) % Period
    <3> HIDE DEF x
    <3> QED  BY <1>1, <2>1, <2>2
  <2> QED  BY <2>3, <2>4 DEF Advance, StateAfter
<1>6. ASSUME NEW i \in 1..Period, NEW j \in 1..Period, StateAfter(base, i) = StateAfter(base, j)
      PROVE  i = j
  <2>1. i \in Nat /\ j \in Nat /\ i - j < Period /\ j - i < Period
    BY <1>1
  <2>2. (base + i * Gamma) % Period = (base + j * Gamma) % Period
    BY <1>6 DEF StateAfter
  <2> QED  BY <1>1, <2>1, <2>2, ConstantsOfMix, OddStepsDiffer
<1> QED  BY <1>2, <1>4, <1>5, <1>6

\* Less than a period of words has no repetition and leaves the next word out; a
\* whole period has them all.
LEMMA WordsOfPeriod ==
  ASSUME NEW base \in Word, NEW n \in 0..Period
  PROVE  /\ WordsAfter(base, n) \subseteq Word
         /\ n < Period => Mix(StateAfter(base, n + 1)) \notin WordsAfter(base, n)
         /\ n = Period <=> WordsAfter(base, n) = Word
<1> DEFINE word(i) == Mix(StateAfter(base, i))
<1>1. \A i \in 1..Period : word(i) \in Word
  <2>1. \A i \in 1..Period : i \in Nat
    BY WordFacts
  <2> QED  BY <2>1, StatesDiffer, MixIsOneToOne
<1>2. \A i, j \in 1..Period : word(i) = word(j) => i = j
  <2>1. \A i \in 1..Period : i \in Nat
    BY WordFacts
  <2> QED  BY <2>1, StatesDiffer, MixIsOneToOne
<1>3. WordsAfter(base, n) = {word(i) : i \in 1..n}
  BY DEF WordsAfter
<1> HIDE DEF word
<1>4. WordsAfter(base, n) \subseteq Word
  <2>1. \A i \in 1..n : i \in 1..Period
    BY WordFacts
  <2> QED  BY <1>1, <1>3, <2>1
<1>5. ASSUME n < Period
      PROVE  word(n + 1) \notin WordsAfter(base, n)
  <2>1. n + 1 \in 1..Period /\ \A i \in 1..n : i \in 1..Period /\ i # n + 1
    BY <1>5, WordFacts
  <2> QED  BY <1>2, <1>3, <2>1
<1>6. ASSUME n = Period
      PROVE  WordsAfter(base, n) = Word
  <2> DEFINE S == 1..Period
             f == [i \in S |-> word(i) + 1]
  <2>1. IsFiniteSet(S) /\ Cardinality(S) = Period /\ Period \in Nat
    BY FS_Interval, WordFacts
  <2>2. f \in [S -> 1..Cardinality(S)]
    <3>1. \A i \in S : word(i) + 1 \in 1..Period
      BY <1>1, WordFacts
    <3> HIDE DEF S
    <3> QED  BY <2>1, <3>1
  <2>3. \A i, j \in S : f[i] = f[j] => i = j
    <3>1. \A i, j \in S : word(i) + 1 = word(j) + 1 => word(i) = word(j)
      BY <1>1, WordFacts
    <3> QED  BY <1>2, <3>1
  <2>4. \A w \in 1..Cardinality(S) : \E i \in S : f[i] = w
    <3> HIDE DEF f, S
    <3> QED  BY <2>1, <2>2, <2>3, InjectionIsOnto
  <2>5. ASSUME NEW w \in Word
        PROVE  w \in WordsAfter(base, n)
    <3>1. w + 1 \in 1..Cardinality(S)
      <4> HIDE DEF S
      <4> QED  BY <2>1, WordFacts
    <3>2. PICK i \in S : f[i] = w + 1
      <4> HIDE DEF S, f
      <4> QED  BY <2>4, <3>1
    <3>3. word(i) + 1 = w + 1 /\ word(i) \in Word
      BY <1>1, <3>2
    <3>4. word(i) = w
      BY <3>3, WordFacts
    <3> QED  BY <1>3, <1>6, <3>4
  <2> QED  BY <1>4, <2>5
<1>7. ASSUME WordsAfter(base, n) = Word
      PROVE  n = Period
  <2>1. n + 1 \in Nat /\ (n # Period => n < Period /\ n + 1 \in 1..Period)
    BY WordFacts
  <2> QED  BY <1>1, <1>5, <1>7, <2>1
<1> QED  BY <1>4, <1>5, <1>6, <1>7 DEF word

\* The words drawn and the state are those of so many draws after some base.
PeriodSoFar ==
  \E base \in Word, n \in 0..Period :
    state = StateAfter(base, n) /\ drawn = WordsAfter(base, n)

\* The record a draw adds to, and the word it adds.
Record == IF drawn = Word THEN {} ELSE drawn

\* A draw adds a new word to the period's, or begins the next period with it.
LEMMA DrawGoesOn ==
  ASSUME state \in Word, PeriodSoFar, Draw
  PROVE  /\ state' \in Word
         /\ drawn' = Record \cup {NextWord(state)}
         /\ NextWord(state) \in Word
         /\ NextWord(state) \notin Record
         /\ Record \subseteq Word
         /\ PeriodSoFar'
<1>1. PICK base \in Word, n \in 0..Period :
        state = StateAfter(base, n) /\ drawn = WordsAfter(base, n)
  BY DEF PeriodSoFar
<1>2. /\ state' = Advance(state)
      /\ drawn' = Record \cup {NextWord(state)}
  BY DEF Draw, Record
<1>3. NextWord(state) = Mix(state') /\ state' \in Word /\ NextWord(state) \in Word
  BY <1>2, NextWordIsMix
<1>4. /\ WordsAfter(base, n) \subseteq Word
      /\ n < Period => Mix(StateAfter(base, n + 1)) \notin WordsAfter(base, n)
      /\ n = Period <=> WordsAfter(base, n) = Word
  BY <1>1, WordsOfPeriod
<1>5. ASSUME NEW start \in Word, NEW m \in 0..(Period - 1),
             state = StateAfter(start, m), Record = WordsAfter(start, m)
      PROVE  PeriodSoFar'
  <2>1. m \in Nat /\ m + 1 \in 0..Period /\ 1..(m + 1) = 1..m \cup {m + 1}
    BY WordFacts
  <2>2. state' = StateAfter(start, m + 1)
    BY <1>2, <1>5, <2>1, StatesDiffer
  <2>3. WordsAfter(start, m + 1) = WordsAfter(start, m) \cup {Mix(StateAfter(start, m + 1))}
    BY <2>1 DEF WordsAfter
  <2>4. drawn' = WordsAfter(start, m + 1)
    BY <1>2, <1>3, <1>5, <2>2, <2>3
  <2>5. \E b \in Word, k \in 0..Period : state' = StateAfter(b, k) /\ drawn' = WordsAfter(b, k)
    BY <2>1, <2>2, <2>4
  <2> QED  BY <2>5 DEF PeriodSoFar, StateAfter, WordsAfter
<1>6. CASE drawn = Word
  <2>1. 0 \in 0..(Period - 1) /\ 1..0 = {}
    BY WordFacts
  <2>2. Record = {} /\ WordsAfter(state, 0) = {}
    BY <1>6, <2>1 DEF Record, WordsAfter
  <2>3. state = StateAfter(state, 0)
    BY StatesDiffer
  <2>4. PeriodSoFar'
    BY <1>5, <2>1, <2>2, <2>3
  <2> QED  BY <1>2, <1>3, <2>2, <2>4
<1>7. CASE drawn # Word
  <2>1. n \in 0..(Period - 1) /\ n < Period /\ n \in Nat
    BY <1>1, <1>4, <1>7, WordFacts
  <2>2. Record = drawn
    BY <1>7 DEF Record
  <2>3. state' = StateAfter(base, n + 1)
    BY <1>1, <1>2, <2>1, StatesDiffer
  <2>4. NextWord(state) \notin Record
    BY <1>1, <1>3, <1>4, <2>1, <2>2, <2>3
  <2>5. PeriodSoFar'
    BY <1>1, <1>5, <2>1, <2>2
  <2> QED  BY <1>1, <1>2, <1>3, <1>4, <2>2, <2>4, <2>5
<1> QED  BY <1>6, <1>7

-----------------------------------------------------------------------------
(* The words accepted *)

\* The words of S that next_below(n) accepts and returns r for.
Returning(S, n, r) == {w \in S : w < Zone(n) /\ w % n = r}

LEMMA ReturningFacts ==
  ASSUME NEW S \in SUBSET Word, NEW n \in Word \ {0}, NEW r \in 0..(n - 1)
  PROVE  /\ IsFiniteSet(Returning(S, n, r))
         /\ Cardinality(Returning(S, n, r)) \in 0..Period
         /\ Cardinality(Returning({}, n, r)) = 0
         /\ \A w \in Word \ S :
              Cardinality(Returning(S \cup {w}, n, r)) =
                IF w < Zone(n) /\ w % n = r THEN Cardinality(Returning(S, n, r)) + 1
                ELSE Cardinality(Returning(S, n, r))
<1>1. IsFiniteSet(Word) /\ Cardinality(Word) = Period /\ Period \in Nat
  <2>1. 0 \in Int /\ Period - 1 \in Int
    BY WordFacts
  <2>2. IsFiniteSet(0..(Period - 1)) /\ Cardinality(0..(Period - 1)) = Period - 1 - 0 + 1
    BY <2>1, WordFacts, FS_Interval
  <2> QED  BY <2>2, WordFacts
<1>2. Returning(S, n, r) \in SUBSET Word /\ Returning({}, n, r) = {}
  BY DEF Returning
<1>3. IsFiniteSet(Returning(S, n, r)) /\ Cardinality(Returning(S, n, r)) <= Period
  BY <1>1, <1>2, FS_Subset
<1>4. Cardinality(Returning(S, n, r)) \in Nat
  BY <1>3, FS_CardinalityType
<1>5. ASSUME NEW w \in Word \ S
      PROVE  Cardinality(Returning(S \cup {w}, n, r)) =
               IF w < Zone(n) /\ w % n = r THEN Cardinality(Returning(S, n, r)) + 1
               ELSE Cardinality(Returning(S, n, r))
  <2>1. CASE w < Zone(n) /\ w % n = r
    <3>1. Returning(S \cup {w}, n, r) = Returning(S, n, r) \cup {w} /\ w \notin Returning(S, n, r)
      BY <2>1 DEF Returning
    <3> QED  BY <1>3, <2>1, <3>1, FS_AddElement
  <2>2. CASE ~(w < Zone(n) /\ w % n = r)
    <3>1. Returning(S \cup {w}, n, r) = Returning(S, n, r)
      BY <2>2 DEF Returning
    <3> QED  BY <2>2, <3>1
  <2> QED  BY <2>1, <2>2
<1>6. Cardinality(Returning(S, n, r)) \in 0..Period
  BY <1>1, <1>3, <1>4
<1>7. Cardinality(Returning({}, n, r)) = 0
  BY <1>2, FS_EmptySet
<1> QED  BY <1>3, <1>5, <1>6, <1>7, Zenon

\* The zone is the greatest multiple of n a word can hold, and at least half of
\* all words lie below it.
LEMMA ZoneIsMultiple ==
  ASSUME NEW n \in Word \ {0}
  PROVE  /\ MAX \div n \in 1..Period
         /\ Zone(n) = n * (MAX \div n)
         /\ Zone(n) <= MAX
         /\ 2 * Zone(n) >= Period
<1>1. n \in Nat \ {0} /\ MAX \in Nat /\ n <= MAX /\ MAX + 1 = Period /\ Period \in Nat
  BY WordFacts
<1> DEFINE q == MAX \div n
           r == MAX % n
<1>2. q \in Nat /\ r \in 0..(n - 1) /\ MAX = n * q + r
  BY <1>1, SMT
<1>3. Zone(n) = MAX - r
  BY DEF Zone
<1> HIDE DEF q, r
<1>4. Zone(n) = n * q
  <2> DEFINE p == n * q
  <2>1. p \in Nat /\ MAX = p + r
    BY <1>1, <1>2, SMT
  <2> HIDE DEF p
  <2>2. MAX - r = p
    BY <1>1, <1>2, <2>1
  <2> QED  BY <1>3, <2>2 DEF p
<1>5. q >= 1
  <2>1. q = 0 => MAX = r
    BY <1>1, <1>2, SMT
  <2> QED  BY <1>1, <1>2, <2>1
<1>6. n * q >= n
  BY <1>1, <1>2, <1>5, SMT
<1>7. q <= MAX
  <2>1. n * q >= q
    BY <1>1, <1>2, SMT
  <2>2. n * q <= MAX
    BY <1>1, <1>2, SMT
  <2> DEFINE p == n * q
  <2>3. p \in Nat
    BY <1>1, <1>2, SMT
  <2> HIDE DEF p
  <2>4. p >= q /\ p <= MAX
    BY <2>1, <2>2 DEF p
  <2> QED  BY <1>1, <1>2, <2>3, <2>4
<1>8. 2 * Zone(n) >= Period /\ Zone(n) <= MAX
  <2> DEFINE p == n * q
  <2>1. p \in Nat /\ MAX = p + r /\ p >= n /\ Zone(n) = p
    BY <1>1, <1>2, <1>4, <1>6, SMT
  <2> HIDE DEF p
  <2> QED  BY <1>1, <1>2, <2>1
<1> QED  BY <1>1, <1>2, <1>4, <1>5, <1>7, <1>8 DEF q

\* Of all words each remainder has equally many below the zone.
LEMMA EachEquallyOften ==
  ASSUME NEW n \in Word \ {0}, NEW r \in 0..(n - 1)
  PROVE  Cardinality(Returning(Word, n, r)) = MAX \div n
<1> DEFINE q == MAX \div n
           at(j) == n * (j - 1) + r
           S == 1..q
           T == Returning(Word, n, r)
           f == [j \in S |-> at(j)]
<1>1. /\ n \in Nat \ {0} /\ r \in Nat /\ r < n
      /\ q \in Nat /\ Zone(n) = n * q /\ Zone(n) < Period /\ Period \in Nat
  <2>1. q \in 1..Period
    BY ZoneIsMultiple
  <2> HIDE DEF q
  <2> QED  BY <2>1, WordFacts, ZoneIsMultiple DEF q
<1> HIDE DEF q
<1>2. ASSUME NEW j \in S
      PROVE  at(j) \in T /\ (at(j) - r) \div n = j - 1
  <2> DEFINE i == j - 1
             p == n * i
  <2>1. i \in Nat /\ i + 1 <= q /\ p \in Nat
    <3>1. i \in Nat /\ i + 1 <= q
      BY <1>1
    <3> HIDE DEF i
    <3> QED  BY <1>1, <3>1, SMT
  <2> HIDE DEF i
  <2>2. p + n <= n * q
    BY <1>1, <2>1, SMT
  <2>3. (p + r) % n = r /\ p \div n = i
    <3>1. ASSUME NEW z \in Nat, z = n * i + r
          PROVE  z % n = r
      BY <1>1, <2>1, <3>1, SMT
    <3>2. ASSUME NEW z \in Nat, z = n * i
          PROVE  z \div n = i
      BY <1>1, <2>1, <3>2, SMT
    <3>3. p + r \in Nat
      <4> HIDE DEF p
      <4> QED  BY <1>1, <2>1
    <3> QED  BY <2>1, <3>1, <3>2, <3>3
  <2> DEFINE z == n * q
  <2>4. z \in Nat /\ z = Zone(n) /\ p + n <= z
    <3>1. n * q \in Nat
      BY <1>1, SMT
    <3> QED  BY <1>1, <2>2, <3>1
  <2> HIDE DEF p, z
  <2>5. p + r \in Word /\ p + r < Zone(n) /\ (p + r) - r = p
    BY <1>1, <2>1, <2>4, WordFacts
  <2>6. p + r \in T /\ ((p + r) - r) \div n = i
    BY <2>3, <2>5 DEF Returning
  <2> QED  BY <2>6 DEF p, i
<1>3. \A j, k \in S : at(j) = at(k) => j = k
  <2>1. \A j, k \in S : at(j) = at(k) => j - 1 = k - 1
    <3> HIDE DEF at
    <3> QED  BY <1>2
  <2>2. \A j, k \in S : j - 1 = k - 1 => j = k
    BY <1>1
  <2> HIDE DEF at, S
  <2> QED  BY <2>1, <2>2
<1>4. ASSUME NEW w \in T
      PROVE  \E j \in S : at(j) = w
  <2>1. w \in Nat /\ w < n * q /\ w % n = r
    BY <1>1, WordFacts DEF Returning
  <2> DEFINE i == w \div n
  <2>2. i \in Nat /\ w = n * i + r
    BY <1>1, <2>1, SMT
  <2> HIDE DEF i
  <2>3. i < q
    <3>1. n * i <= w
      BY <1>1, <2>1, <2>2, SMT
    <3> SUFFICES ASSUME q <= i PROVE FALSE
      BY <1>1, <2>2
    <3>2. n * q <= n * i
      BY <1>1, <2>2, SMT
    <3> DEFINE x == n * i
               y == n * q
    <3>3. x \in Int /\ y \in Int /\ x <= w /\ w < y /\ y <= x
      BY <1>1, <2>1, <2>2, <3>1, <3>2, SMT
    <3> HIDE DEF x, y
    <3> QED  BY <2>1, <3>3
  <2>4. i + 1 \in S /\ (i + 1) - 1 = i
    BY <1>1, <2>2, <2>3
  <2>5. at(i + 1) = w
    BY <2>2, <2>4
  <2> QED  BY <2>4, <2>5
<1>5. f \in [S -> T]
  <2> HIDE DEF at, S, T
  <2> QED  BY <1>2
<1>6. \A j, k \in S : f[j] = f[k] => j = k
  <2> HIDE DEF at, S, T
  <2> QED  BY <1>3
<1>7. \A w \in T : \E j \in S : f[j] = w
  <2> HIDE DEF at, S, T
  <2> QED  BY <1>4
<1>8. IsFiniteSet(S) /\ Cardinality(S) = q
  BY <1>1, FS_Interval
<1>9. Cardinality(T) = Cardinality(S)
  <2> HIDE DEF f, S, T
  <2> QED  BY <1>5, <1>6, <1>7, <1>8, OneToOneSize
<1> QED  BY <1>8, <1>9 DEF q

-----------------------------------------------------------------------------
(* Every run of the generator *)

\* The record counts, for each value, the words of the period that return it.
CountsReturned ==
  caller # Unit =>
    tally = [r \in 0..(caller - 1) |-> Cardinality(Returning(drawn, caller, r))]

\* The inductive invariant: the types, what has been drawn of a period and what
\* of it was counted, and the promise of next_open_unit.
GeneratorInv ==
  /\ TypeOK
  /\ PeriodSoFar
  /\ CountsReturned
  /\ UnitIsPositive

LEMMA CallerIsBound ==
  ASSUME caller \in Bounds \cup {Unit}
  PROVE  /\ caller # Unit => caller \in Word \ {0}
         /\ DOMAIN NoTally = IF caller = Unit THEN {} ELSE 0..(caller - 1)
  BY GeneratorAssumption DEF NoTally

LEMMA BitsFacts ==
  /\ Bits(MAX) \in Nat \ {0}
  /\ \A w \in Word : Bits(w) \in 0..Bits(MAX)
<1> DEFINE m == PowerOf2[MantissaDrop]
<1>1. MantissaDrop \in 0..Width /\ MantissaDrop + 1 \in 1..Width /\ MantissaDrop \in Nat
  BY GeneratorAssumption
<1>2. m \in Nat \ {0}
  BY <1>1, PowersOfTwo
<1>3. m <= MAX
  <2> DEFINE reach == {i \in 0..(Width - (MantissaDrop + 1)) :
                         PowerOf2[MantissaDrop + 1 + i] >= 2 * m}
  <2>0. Width - (MantissaDrop + 1) \in Nat
    BY <1>1, WordFacts
  <2>1. 0 \in reach
    <3>1. MantissaDrop + 1 + 0 = MantissaDrop + 1 /\ MantissaDrop + 1 - 1 = MantissaDrop
      BY <1>1
    <3>2. PowerOf2[MantissaDrop + 1] = 2 * m
      BY <1>1, <3>1, PowersOfTwo
    <3> HIDE DEF m
    <3> QED  BY <1>2, <2>0, <3>1, <3>2
  <2>2. ASSUME NEW i \in 1..(Width - (MantissaDrop + 1)), i - 1 \in reach
        PROVE  i \in reach
    <3>1. /\ MantissaDrop + 1 + i \in 1..Width
          /\ (MantissaDrop + 1 + i) - 1 = MantissaDrop + 1 + (i - 1)
          /\ MantissaDrop + 1 + (i - 1) \in 0..Width
          /\ i \in 0..(Width - (MantissaDrop + 1))
      BY <1>1, WordFacts
    <3>2. PowerOf2[MantissaDrop + 1 + i] = 2 * PowerOf2[MantissaDrop + 1 + (i - 1)]
      BY <3>1, PowersOfTwo
    <3>3. PowerOf2[MantissaDrop + 1 + (i - 1)] \in Nat
      BY <3>1, PowersOfTwo
    <3>4. PowerOf2[MantissaDrop + 1 + (i - 1)] >= 2 * m
      BY <2>2
    <3> HIDE DEF m
    <3> QED  BY <1>2, <3>1, <3>2, <3>3, <3>4
  <2>3. Width - (MantissaDrop + 1) \in reach
    <3> HIDE DEF reach
    <3> QED  BY <2>0, <2>1, <2>2, UpTo
  <2>4. MantissaDrop + 1 + (Width - (MantissaDrop + 1)) = Width
    BY <1>1, WordFacts
  <2>5. Period >= 2 * m
    BY <2>3, <2>4 DEF Period
  <2> HIDE DEF m
  <2> QED  BY <1>2, <2>5, WordFacts
<1> HIDE DEF m
<1>4. ASSUME NEW w \in Nat, NEW z \in Nat, w <= z
      PROVE  w \div m \in Nat /\ w \div m <= z \div m
  <2> DEFINE a == w \div m
             b == z \div m
  <2>1. a \in Nat /\ a * m <= w
    BY <1>2, SMT
  <2>2. b \in Nat /\ z < b * m + m
    BY <1>2, SMT
  <2> HIDE DEF a, b
  <2>3. a <= b
    <3> SUFFICES ASSUME b + 1 <= a PROVE FALSE
      BY <2>1, <2>2
    <3>1. (b + 1) * m <= a * m
      BY <1>2, <2>1, <2>2, SMT
    <3>2. (b + 1) * m = b * m + m
      BY <1>2, <2>2, SMT
    <3> DEFINE x == b * m
               y == a * m
    <3>3. x \in Int /\ y \in Int /\ y <= w /\ z < x + m /\ x + m <= y
      BY <1>2, <2>1, <2>2, <3>1, <3>2, SMT
    <3> HIDE DEF x, y
    <3> QED  BY <1>2, <1>4, <3>3
  <2> QED  BY <2>1, <2>3 DEF a, b
<1>5. MAX \div m >= 1 /\ MAX \div m \in Nat
  <2>1. m \div m = 1
    BY <1>2, SMT
  <2> QED  BY <1>2, <1>3, <1>4, <2>1, WordFacts
<1>6. \A w \in Word : w \div m \in Nat /\ w \div m <= MAX \div m
  BY <1>4, WordFacts
<1> QED  BY <1>5, <1>6 DEF Bits, m

LEMMA InitHolds == Init => GeneratorInv
<1> SUFFICES ASSUME Init PROVE GeneratorInv
  OBVIOUS
<1>1. caller \in Bounds \cup {Unit} /\ state \in Word /\ drawn = {}
      /\ pending = TRUE /\ attempts = 0 /\ result = 0 /\ tally = NoTally
  BY GeneratorAssumption DEF Init
<1>2. TypeOK
  <2>1. tally \in [DOMAIN NoTally -> 0..Period]
    BY <1>1, WordFacts DEF NoTally
  <2>2. result \in IF caller = Unit THEN 0..Bits(MAX) ELSE 0..(caller - 1)
    BY <1>1, CallerIsBound, BitsFacts, WordFacts
  <2> QED  BY <1>1, <2>1, <2>2 DEF TypeOK, Attempts
<1>3. PeriodSoFar
  <2>1. 0 \in 0..Period /\ WordsAfter(state, 0) = {} /\ StateAfter(state, 0) = state
    BY <1>1, WordFacts, StatesDiffer DEF WordsAfter
  <2> QED  BY <1>1, <2>1 DEF PeriodSoFar
<1>4. CountsReturned
  <2>1. ASSUME caller # Unit, NEW r \in 0..(caller - 1)
        PROVE  Cardinality(Returning({}, caller, r)) = 0
    BY <1>1, <2>1, CallerIsBound, ReturningFacts
  <2> QED  BY <1>1, <2>1 DEF CountsReturned, NoTally
<1>5. UnitIsPositive
  BY <1>1 DEF UnitIsPositive
<1> QED  BY <1>2, <1>3, <1>4, <1>5 DEF GeneratorInv

LEMMA CallKeeps == GeneratorInv /\ Call => GeneratorInv'
<1> SUFFICES ASSUME GeneratorInv, Call PROVE GeneratorInv'
  OBVIOUS
<1>1. /\ pending' = TRUE
      /\ UNCHANGED <<state, caller, attempts, result, drawn, tally>>
  BY DEF Call
<1>2. TypeOK'
  BY <1>1 DEF GeneratorInv, TypeOK, NoTally
<1>3. PeriodSoFar'
  BY <1>1 DEF GeneratorInv, PeriodSoFar, StateAfter, WordsAfter
<1>4. CountsReturned'
  BY <1>1 DEF GeneratorInv, CountsReturned, Returning
<1>5. UnitIsPositive'
  BY <1>1 DEF UnitIsPositive
<1> QED  BY <1>2, <1>3, <1>4, <1>5 DEF GeneratorInv

\* A turn of next_below leaves the record counting what the period returned.
LEMMA BelowCounts ==
  ASSUME GeneratorInv, caller # Unit, Draw,
         \/ /\ NextWord(state) < Zone(caller)
            /\ result' = NextWord(state) % caller
            /\ tally' = [TallySoFar EXCEPT ![result'] = @ + 1]
         \/ NextWord(state) >= Zone(caller) /\ tally' = TallySoFar
  PROVE  CountsReturned' /\ tally' \in [0..(caller - 1) -> 0..Period]
<1> DEFINE w == NextWord(state)
           count(S, r) == Cardinality(Returning(S, caller, r))
<1>1. /\ caller' = caller /\ caller \in Word \ {0}
      /\ drawn' = Record \cup {w} /\ w \in Word \ Record /\ Record \in SUBSET Word
      /\ drawn' \in SUBSET Word
  <2>1. caller' = caller
    BY DEF Draw
  <2>2. caller \in Word \ {0}
    BY CallerIsBound DEF GeneratorInv, TypeOK
  <2>3. /\ drawn' = Record \cup {w} /\ w \in Word /\ w \notin Record /\ Record \subseteq Word
    BY DrawGoesOn DEF GeneratorInv, TypeOK
  <2> QED  BY <2>1, <2>2, <2>3
<1>2. TallySoFar = [r \in 0..(caller - 1) |-> count(Record, r)]
  <2>1. CASE drawn = Word
    <3>1. ASSUME NEW r \in 0..(caller - 1)
          PROVE  count({}, r) = 0
      BY <1>1, ReturningFacts
    <3>2. TallySoFar = [r \in 0..(caller - 1) |-> 0] /\ Record = {}
      BY <2>1 DEF TallySoFar, NoTally, Record
    <3> HIDE DEF count
    <3> QED  BY <3>1, <3>2
  <2>2. CASE drawn # Word
    BY <2>2 DEF TallySoFar, Record, GeneratorInv, CountsReturned
  <2> QED  BY <2>1, <2>2
<1>3. ASSUME NEW r \in 0..(caller - 1)
      PROVE  /\ count(drawn', r) \in 0..Period
             /\ count(Record, r) \in Nat
             /\ count(drawn', r) = IF w < Zone(caller) /\ w % caller = r
                                   THEN count(Record, r) + 1 ELSE count(Record, r)
  <2>1. count(drawn', r) \in 0..Period
    BY <1>1, ReturningFacts
  <2>2. count(Record, r) \in 0..Period
    BY <1>1, ReturningFacts
  <2>3. count(Record \cup {w}, r) = IF w < Zone(caller) /\ w % caller = r
                                    THEN count(Record, r) + 1 ELSE count(Record, r)
    BY <1>1, ReturningFacts
  <2> HIDE DEF count, w
  <2> QED  BY <1>1, <2>1, <2>2, <2>3, WordFacts
<1>4. Zone(caller) \in Int /\ w \in Int /\ w % caller \in 0..(caller - 1)
  <2>1. MAX \in Nat /\ w \in Nat /\ caller \in Nat \ {0}
    BY <1>1, WordFacts
  <2> HIDE DEF w
  <2> QED  BY <2>1 DEF Zone
<1> HIDE DEF count
<1>5. tally' = [r \in 0..(caller - 1) |-> count(drawn', r)]
  <2>1. CASE w < Zone(caller) /\ tally' = [TallySoFar EXCEPT ![w % caller] = @ + 1]
    <3> HIDE DEF w
    <3>1. TallySoFar = [r \in 0..(caller - 1) |-> TallySoFar[r]]
      BY <1>2
    <3>2. tally' = [r \in 0..(caller - 1) |-> IF r = w % caller THEN TallySoFar[w % caller] + 1
                                              ELSE TallySoFar[r]]
      BY <2>1, <3>1
    <3>3. \A r \in 0..(caller - 1) : TallySoFar[r] = count(Record, r)
      BY <1>2
    <3> QED  BY <1>3, <1>4, <2>1, <3>2, <3>3
  <2>2. CASE w >= Zone(caller) /\ tally' = TallySoFar
    <3> HIDE DEF w
    <3>1. ~(w < Zone(caller))
      BY <1>4, <2>2
    <3> QED  BY <1>2, <1>3, <2>2, <3>1
  <2> QED  BY <2>1, <2>2
<1>6. CountsReturned'
  <2>1. \A S, r : Returning(S, caller, r)' = Returning(S', caller', r)
    BY DEF Returning, Zone
  <2> QED  BY <1>1, <1>5 DEF CountsReturned, count, Returning
<1>7. tally' \in [0..(caller - 1) -> 0..Period]
  BY <1>3, <1>5
<1> QED  BY <1>6, <1>7

LEMMA BelowKeeps ==
  ASSUME GeneratorInv, BelowAccepted \/ BelowRejected
  PROVE  GeneratorInv'
<1>1. /\ caller # Unit /\ Draw /\ attempts' = attempts /\ pending' \in BOOLEAN
      /\ caller' = caller
  BY DEF BelowAccepted, BelowRejected, GeneratorInv, TypeOK, Draw
<1>2. \/ /\ NextWord(state) < Zone(caller)
         /\ result' = NextWord(state) % caller
         /\ tally' = [TallySoFar EXCEPT ![result'] = @ + 1]
      \/ NextWord(state) >= Zone(caller) /\ tally' = TallySoFar /\ result' = result
  BY DEF BelowAccepted, BelowRejected
<1>3. CountsReturned' /\ tally' \in [0..(caller - 1) -> 0..Period]
  BY <1>1, <1>2, BelowCounts
<1>4. /\ state' \in Word /\ drawn' = Record \cup {NextWord(state)}
      /\ NextWord(state) \in Word /\ Record \subseteq Word /\ PeriodSoFar'
  BY <1>1, DrawGoesOn DEF GeneratorInv, TypeOK
<1>5. caller \in Word \ {0} /\ caller \in Bounds \cup {Unit}
  BY <1>1, CallerIsBound DEF GeneratorInv, TypeOK
<1>6. result' \in 0..(caller - 1)
  <2>1. NextWord(state) \in Nat /\ caller \in Nat \ {0}
    BY <1>4, <1>5, WordFacts
  <2>2. NextWord(state) % caller \in 0..(caller - 1)
    BY <2>1
  <2>3. result \in 0..(caller - 1)
    BY <1>1 DEF GeneratorInv, TypeOK
  <2> QED  BY <1>2, <2>2, <2>3
<1>7. (DOMAIN NoTally)' = 0..(caller - 1)
  BY <1>1 DEF NoTally
<1>8. TypeOK'
  <2>1. attempts' \in 0..(Attempts - 1)
    BY <1>1 DEF GeneratorInv, TypeOK
  <2>2. drawn' \subseteq Word
    BY <1>4
  <2> QED  BY <1>1, <1>3, <1>4, <1>5, <1>6, <1>7, <2>1, <2>2 DEF TypeOK
<1>9. UnitIsPositive'
  BY <1>1 DEF UnitIsPositive
<1> QED  BY <1>3, <1>4, <1>8, <1>9 DEF GeneratorInv

LEMMA UnitKeeps ==
  ASSUME GeneratorInv, UnitAccepted \/ UnitDiscarded
  PROVE  GeneratorInv'
<1>1. /\ caller = Unit /\ Draw /\ caller' = caller /\ tally' = tally
  BY DEF UnitAccepted, UnitDiscarded, Draw
<1>2. /\ state' \in Word /\ drawn' = Record \cup {NextWord(state)}
      /\ NextWord(state) \in Word /\ Record \subseteq Word /\ PeriodSoFar'
  BY <1>1, DrawGoesOn DEF GeneratorInv, TypeOK
<1>3. /\ Bits(NextWord(state)) \in 0..Bits(MAX)
      /\ Bits(MAX) \in Nat \ {0} /\ 1 \in 0..Bits(MAX) /\ 0 \in 0..(Attempts - 1)
  BY <1>2, BitsFacts DEF Attempts
<1>4. result \in 0..Bits(MAX) /\ attempts \in 0..(Attempts - 1) /\ pending
  BY <1>1 DEF GeneratorInv, TypeOK, Draw
<1>5. result' \in 0..Bits(MAX) /\ attempts' \in 0..(Attempts - 1)
  <2>1. CASE UnitAccepted
    <3>1. result' = Bits(NextWord(state)) /\ attempts' = 0
      BY <2>1 DEF UnitAccepted
    <3> QED  BY <1>3, <3>1
  <2>2. CASE UnitDiscarded
    <3>1. \/ attempts + 1 < Attempts /\ attempts' = attempts + 1 /\ result' = result
          \/ attempts' = 0 /\ result' = 1
      BY <2>2 DEF UnitDiscarded
    <3>2. CASE attempts + 1 < Attempts /\ attempts' = attempts + 1 /\ result' = result
      BY <1>4, <3>2 DEF Attempts
    <3>3. CASE attempts' = 0 /\ result' = 1
      BY <1>3, <3>3
    <3> QED  BY <3>1, <3>2, <3>3
  <2> QED  BY <2>1, <2>2
<1>6. pending' \in BOOLEAN /\ (~pending' => result' > 0)
  <2>1. CASE UnitAccepted
    <3>1. pending' = FALSE /\ result' = Bits(NextWord(state)) /\ result' # 0
      BY <2>1 DEF UnitAccepted
    <3>2. result' \in Nat
      BY <1>3, <1>5
    <3>3. result' > 0
      BY <3>1, <3>2
    <3> QED  BY <3>1, <3>3
  <2>2. CASE UnitDiscarded
    <3>1. (pending' = pending) \/ (pending' = FALSE /\ result' = 1)
      BY <2>2 DEF UnitDiscarded
    <3>2. 1 > 0
      OBVIOUS
    <3>3. pending \in BOOLEAN
      BY DEF GeneratorInv, TypeOK
    <3> QED  BY <1>4, <3>1, <3>2, <3>3
  <2> QED  BY <2>1, <2>2
<1>7. TypeOK'
  <2>1. tally' \in [(DOMAIN NoTally)' -> 0..Period]
    BY <1>1 DEF GeneratorInv, TypeOK, NoTally
  <2>2. caller' \in Bounds \cup {Unit}
    BY <1>1 DEF GeneratorInv, TypeOK
  <2>3. drawn' \subseteq Word
    BY <1>2
  <2> QED  BY <1>1, <1>2, <1>5, <1>6, <2>1, <2>2, <2>3 DEF TypeOK
<1>8. CountsReturned' /\ UnitIsPositive'
  BY <1>1, <1>6 DEF CountsReturned, UnitIsPositive
<1> QED  BY <1>2, <1>7, <1>8 DEF GeneratorInv

LEMMA NextKeeps == GeneratorInv /\ [Next]_vars => GeneratorInv'
<1> SUFFICES ASSUME GeneratorInv, [Next]_vars PROVE GeneratorInv'
  OBVIOUS
<1>1. CASE Call
  BY <1>1, CallKeeps
<1>2. CASE BelowAccepted \/ BelowRejected
  BY <1>2, BelowKeeps
<1>3. CASE UnitAccepted \/ UnitDiscarded
  BY <1>3, UnitKeeps
<1>4. CASE UNCHANGED vars
  <2>1. TypeOK'
    BY <1>4 DEF vars, GeneratorInv, TypeOK, NoTally
  <2>2. PeriodSoFar'
    BY <1>4 DEF vars, GeneratorInv, PeriodSoFar, StateAfter, WordsAfter
  <2>3. CountsReturned' /\ UnitIsPositive'
    BY <1>4 DEF vars, GeneratorInv, CountsReturned, Returning, UnitIsPositive
  <2> QED  BY <2>1, <2>2, <2>3 DEF GeneratorInv
<1> QED  BY <1>1, <1>2, <1>3, <1>4 DEF Next, Turn

-----------------------------------------------------------------------------

\* The invariant from which the theorems below follow.
THEOREM GeneratorInvariant == Spec => []GeneratorInv
  BY InitHolds, NextKeeps, PTL DEF Spec

\* The generator and its callers keep their types: what next_below(n) returns
\* is below n, what next_open_unit returns at most one (rng.rs).
THEOREM TypeCorrect == Spec => []TypeOK
<1>1. GeneratorInv => TypeOK
  BY DEF GeneratorInv
<1> QED  BY <1>1, GeneratorInvariant, PTL

\* next_open_unit never returns zero, at any width and after any words (rng.rs
\* next_open_unit).
THEOREM UnitCorrect == Spec => []UnitIsPositive
<1>1. GeneratorInv => UnitIsPositive
  BY DEF GeneratorInv
<1> QED  BY <1>1, GeneratorInvariant, PTL

\* next_below(n) is exactly uniform: over the words of a period it returns each
\* value below n equally often, and rejects at most every other word (rng.rs
\* next_below).
THEOREM UniformCorrect == Spec => []ExactOverAPeriod
<1>1. ASSUME GeneratorInv
      PROVE  ExactOverAPeriod
  <2> SUFFICES ASSUME drawn = Word, caller # Unit
               PROVE  \E times \in 1..Period :
                        /\ tally = [r \in 0..(caller - 1) |-> times]
                        /\ 2 * times * caller >= Period
    BY DEF ExactOverAPeriod
  <2> DEFINE times == MAX \div caller
  <2>1. caller \in Word \ {0}
    BY <1>1, CallerIsBound DEF GeneratorInv, TypeOK
  <2>2. \A r \in 0..(caller - 1) : Cardinality(Returning(drawn, caller, r)) = times
    BY <2>1, EachEquallyOften
  <2>3. tally = [r \in 0..(caller - 1) |-> Cardinality(Returning(drawn, caller, r))]
    BY <1>1 DEF GeneratorInv, CountsReturned
  <2>4. /\ times \in 1..Period /\ Zone(caller) = caller * times
        /\ 2 * Zone(caller) >= Period
    BY <2>1, ZoneIsMultiple
  <2> HIDE DEF times
  <2>5. tally = [r \in 0..(caller - 1) |-> times]
    BY <2>2, <2>3
  <2>6. 2 * times * caller >= Period
    <3>1. times \in Nat /\ caller \in Nat
      BY <2>1, <2>4, WordFacts
    <3>2. 2 * times * caller = 2 * (caller * times)
      BY <3>1, SMT
    <3> QED  BY <2>4, <3>2
  <2> QED  BY <2>4, <2>5, <2>6
<1> QED  BY <1>1, GeneratorInvariant, PTL

\* The stream runs through every word before one comes again, from any seed
\* (rng.rs next_u64).
THEOREM PeriodCorrect == Spec => StreamHasFullPeriod
<1>1. ASSUME GeneratorInv, [Next]_vars, state' # state
      PROVE  NextWord(state) \notin drawn \/ drawn = Word
  <2>1. Draw
    BY <1>1 DEF Next, Turn, Call, vars, BelowAccepted, BelowRejected, UnitAccepted, UnitDiscarded
  <2>2. NextWord(state) \notin Record
    BY <1>1, <2>1, DrawGoesOn DEF GeneratorInv, TypeOK
  <2> QED  BY <2>2 DEF Record
<1>2. GeneratorInv /\ [Next]_vars
        => [state' # state => NextWord(state) \notin drawn \/ drawn = Word]_vars
  BY <1>1
<1> QED  BY <1>2, GeneratorInvariant, PTL DEF Spec, StreamHasFullPeriod

=============================================================================
