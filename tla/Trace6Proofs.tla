---------------------------- MODULE Trace6Proofs ---------------------------
(***************************************************************************)
(* The safety properties of Trace6, for every number of attempts and hops, *)
(* every timeout, sequence numbers that start over at any place, a byte of *)
(* any size and any frames of others.                                      *)
(***************************************************************************)
EXTENDS Trace6, Induction

-----------------------------------------------------------------------------
(* The checksums.  What icmp6_checksum and the sum of RFC 1071 are, modulo *)
(* the largest word: the same number, up to a factor Byte, which is its    *)
(* own inverse.  So they agree, whatever the size of a byte and the length.*)

\* The largest word.
MaxWord == WordMod - 1

Congruent(a, b) == \E q \in Int : a = b + MaxWord * q

LEMMA WordType == WordMod \in Nat /\ WordMod >= 4 /\ MaxWord \in Nat /\ MaxWord >= 3
<1>1. Byte \in Nat /\ Byte >= 2
  BY ByteAssumption
<1>2. Byte * Byte \in Nat /\ Byte * Byte >= 2 * Byte
  BY <1>1
<1> QED
  BY <1>1, <1>2 DEF WordMod, MaxWord

LEMMA CongruentAdds ==
    ASSUME NEW a \in Int, NEW b \in Int, NEW c \in Int, NEW d \in Int,
           Congruent(a, b), Congruent(c, d)
    PROVE  Congruent(a + c, b + d)
<1>1. PICK p \in Int : a = b + MaxWord * p
  BY DEF Congruent
<1>2. PICK q \in Int : c = d + MaxWord * q
  BY DEF Congruent
<1>3. MaxWord \in Int
  BY WordType
<1>4. a + c = b + d + MaxWord * (p + q)
  BY <1>1, <1>2, <1>3
<1> QED
  BY <1>4 DEF Congruent

LEMMA CongruentTrans ==
    ASSUME NEW a \in Int, NEW b \in Int, NEW c \in Int, Congruent(a, b), Congruent(b, c)
    PROVE  Congruent(a, c)
<1>1. PICK p \in Int : a = b + MaxWord * p
  BY DEF Congruent
<1>2. PICK q \in Int : b = c + MaxWord * q
  BY DEF Congruent
<1>3. MaxWord \in Int
  BY WordType
<1>4. a = c + MaxWord * (p + q)
  BY <1>1, <1>2, <1>3
<1> QED
  BY <1>4 DEF Congruent

LEMMA CongruentSym ==
    ASSUME NEW a \in Int, NEW b \in Int, Congruent(a, b)
    PROVE  Congruent(b, a)
<1>1. PICK p \in Int : a = b + MaxWord * p
  BY DEF Congruent
<1>2. MaxWord \in Int
  BY WordType
<1>3. b = a + MaxWord * (-p) /\ -p \in Int
  BY <1>1, <1>2
<1> QED
  BY <1>3 DEF Congruent

LEMMA CongruentRefl == \A a \in Int : Congruent(a, a)
<1> SUFFICES ASSUME NEW a \in Int PROVE Congruent(a, a)
  OBVIOUS
<1>1. a = a + MaxWord * 0
  BY WordType
<1> QED
  BY <1>1 DEF Congruent

LEMMA CongruentTimes ==
    ASSUME NEW a \in Int, NEW b \in Int, NEW n \in Int, Congruent(a, b)
    PROVE  Congruent(n * a, n * b)
<1>1. PICK p \in Int : a = b + MaxWord * p
  BY DEF Congruent
<1>2. MaxWord \in Int
  BY WordType
<1>3. n * (MaxWord * p) = MaxWord * (n * p)
  BY <1>2
<1>4. n * a = n * b + MaxWord * (n * p)
  <2> DEFINE m == MaxWord * p
  <2>1. m \in Int /\ a = b + m
    BY <1>1, <1>2
  <2> HIDE DEF m
  <2>2. n * a = n * b + n * m
    BY <2>1
  <2> QED
    BY <1>3, <2>2 DEF m
<1>5. n * p \in Int
  OBVIOUS
<1> QED
  BY <1>4, <1>5 DEF Congruent

\* Numbers that are less than a word apart are congruent only if they are equal.
LEMMA CongruentNear ==
    ASSUME NEW a \in Int, NEW b \in Int, Congruent(a, b), a - b < MaxWord, b - a < MaxWord
    PROVE  a = b
<1>1. PICK q \in Int : a = b + MaxWord * q
  BY DEF Congruent
<1>2. MaxWord \in Int /\ MaxWord > 0
  BY WordType
<1>3. q >= 1 => MaxWord * q >= MaxWord
  BY <1>2
<1>4. q <= -1 => MaxWord * q <= -MaxWord
  BY <1>2
<1>5. q = 0
  BY <1>1, <1>2, <1>3, <1>4
<1> QED
  BY <1>1, <1>2, <1>5

-----------------------------------------------------------------------------
(* The carries of icmp6_checksum.                                          *)

\* What the loop of Carry computes.
Carries(fold) ==
    fold = [s \in Nat |-> IF s < WordMod THEN s ELSE fold[(s \div WordMod) + (s % WordMod)]]

\* A round of the loop.
LEMMA CarryRound ==
    ASSUME NEW s \in Nat, s >= WordMod
    PROVE  LET t == (s \div WordMod) + (s % WordMod)
           IN /\ t \in Nat /\ t > 0 /\ t < s
              /\ \E q \in Nat : s = t + MaxWord * q
<1> DEFINE q == s \div WordMod
           r == s % WordMod
<1>1. WordMod \in Nat /\ WordMod >= 4
  BY WordType
<1>2. q \in Int /\ r \in 0..(WordMod - 1) /\ s = WordMod * q + r
  BY <1>1
<1> HIDE DEF q, r
<1>3. q >= 1
  <2> SUFFICES ASSUME q <= 0 PROVE FALSE
    BY <1>2
  <2>1. WordMod * q <= 0
    BY <1>1, <1>2
  <2> QED
    BY <1>1, <1>2, <2>1
<1>4. MaxWord * q = WordMod * q - q
  BY <1>1, <1>2 DEF MaxWord
<1>5. MaxWord * q >= 1
  BY <1>1, <1>2, <1>3 DEF MaxWord
<1>6. s = q + r + MaxWord * q /\ q \in Nat /\ q + r \in Nat /\ q + r > 0 /\ q + r < s
  <2> DEFINE a == WordMod * q
             b == MaxWord * q
  <2>1. a \in Int /\ b = a - q /\ s = a + r /\ b >= 1
    BY <1>1, <1>2, <1>4, <1>5
  <2> HIDE DEF a, b
  <2>2. s = q + r + b /\ q \in Nat /\ q + r \in Nat /\ q + r > 0 /\ q + r < s
    BY <1>1, <1>2, <1>3, <2>1
  <2> QED
    BY <2>2 DEF b
<1> QED
  BY <1>6 DEF q, r

\* The remainders of congruent numbers.
LEMMA SameRemainder ==
    ASSUME NEW a \in Nat, NEW b \in Nat, Congruent(a, b)
    PROVE  a % MaxWord = b % MaxWord
<1>1. MaxWord \in Nat /\ MaxWord > 0
  BY WordType
<1>2. ASSUME NEW n \in Nat
      PROVE  n % MaxWord \in 0..(MaxWord - 1) /\ Congruent(n, n % MaxWord)
  <2>1. /\ n % MaxWord \in 0..(MaxWord - 1) /\ n \div MaxWord \in Int
        /\ n = MaxWord * (n \div MaxWord) + (n % MaxWord)
    BY <1>1
  <2>2. n = (n % MaxWord) + MaxWord * (n \div MaxWord)
    BY <1>1, <2>1
  <2> QED
    BY <2>1, <2>2 DEF Congruent
<1> DEFINE x == a % MaxWord
           y == b % MaxWord
<1>3. x \in 0..(MaxWord - 1) /\ y \in 0..(MaxWord - 1) /\ Congruent(a, x) /\ Congruent(b, y)
  BY <1>2
<1> HIDE DEF x, y
<1>4. x \in Int /\ y \in Int /\ x - y < MaxWord /\ y - x < MaxWord
  BY <1>1, <1>3
<1>5. Congruent(x, a)
  BY <1>3, <1>4, CongruentSym
<1>6. Congruent(x, b)
  BY <1>4, <1>5, CongruentTrans
<1>7. Congruent(x, y)
  BY <1>3, <1>4, <1>6, CongruentTrans
<1>8. x = y
  BY <1>4, <1>7, CongruentNear
<1> QED
  BY <1>8 DEF x, y

\* The loop comes to an end: 0 stays 0, and other numbers go to 1..MaxWord.
LEMMA CarriesExists == \E fold : Carries(fold)
<1> DEFINE g == [s \in Nat |-> IF s = 0 THEN 0 ELSE ((s - 1) % MaxWord) + 1]
<1>1. MaxWord \in Nat /\ MaxWord > 0 /\ WordMod = MaxWord + 1
  BY WordType DEF MaxWord
<1>2. ASSUME NEW s \in Nat, s < WordMod PROVE g[s] = s
  <2>1. s # 0 => s - 1 \in 0..(MaxWord - 1)
    BY <1>1, <1>2
  <2>2. s # 0 => (s - 1) % MaxWord = s - 1
    BY <1>1, <2>1
  <2> QED
    BY <2>2
<1>3. ASSUME NEW s \in Nat, s >= WordMod PROVE g[s] = g[(s \div WordMod) + (s % WordMod)]
  <2> DEFINE t == (s \div WordMod) + (s % WordMod)
  <2>1. t \in Nat /\ t > 0 /\ \E q \in Nat : s = t + MaxWord * q
    BY <1>3, CarryRound
  <2> HIDE DEF t
  <2>2. PICK q \in Nat : s = t + MaxWord * q
    BY <2>1
  <2>3. s > 0 /\ s - 1 \in Nat /\ t - 1 \in Nat
    BY <1>1, <1>3, <2>1
  <2>4. s - 1 = t - 1 + MaxWord * q
    BY <1>1, <2>1, <2>2
  <2>5. Congruent(s - 1, t - 1)
    BY <2>4 DEF Congruent
  <2>6. (s - 1) % MaxWord = (t - 1) % MaxWord
    BY <2>3, <2>5, SameRemainder
  <2>7. g[s] = g[t]
    BY <2>1, <2>3, <2>6
  <2> QED
    BY <2>7 DEF t
<1> HIDE DEF g
<1>4. g = [s \in Nat |-> g[s]]
  BY DEF g
<1>5. ASSUME NEW s \in Nat
      PROVE  g[s] = IF s < WordMod THEN s ELSE g[(s \div WordMod) + (s % WordMod)]
  <2>1. s < WordMod \/ s >= WordMod
    BY <1>1
  <2> QED
    BY <1>2, <1>3, <2>1
<1>6. g = [s \in Nat |-> IF s < WordMod THEN s ELSE g[(s \div WordMod) + (s % WordMod)]]
  BY <1>4, <1>5
<1> QED
  BY <1>6 DEF Carries

\* Carry brings a sum into a word, and only 0 becomes 0.
LEMMA CarryIs ==
    ASSUME NEW s \in Nat
    PROVE  Carry(s) \in 0..MaxWord /\ Congruent(s, Carry(s)) /\ (Carry(s) = 0 <=> s = 0)
<1> DEFINE fold == CHOOSE f : Carries(f)
           Good(n) == fold[n] \in 0..MaxWord /\ Congruent(n, fold[n]) /\ (fold[n] = 0 <=> n = 0)
           Bad == {n \in Nat : ~Good(n)}
<1>1. Carries(fold)
  BY CarriesExists
<1>2. Carry(s) = fold[s]
  BY DEF Carry, Carries
<1> HIDE DEF fold
<1>3. MaxWord \in Nat /\ WordMod = MaxWord + 1
  BY WordType DEF MaxWord
<1>4. ASSUME NEW n \in Nat, n < WordMod PROVE Good(n)
  <2>1. fold[n] = n
    BY <1>1, <1>4 DEF Carries
  <2>2. Congruent(n, n)
    BY CongruentRefl
  <2> QED
    BY <1>3, <1>4, <2>1, <2>2
<1>5. ASSUME NEW n \in Bad, \A m \in Bad : n <= m PROVE FALSE
  <2> DEFINE t == (n \div WordMod) + (n % WordMod)
  <2>1. n \in Nat /\ n >= WordMod
    BY <1>3, <1>4
  <2>2. /\ t \in Nat /\ t > 0 /\ t < n
        /\ \E q \in Nat : n = t + MaxWord * q
    BY <2>1, CarryRound
  <2>3. fold[n] = fold[t]
    <3>1. ~(n < WordMod)
      BY <1>3, <2>1
    <3> QED
      BY <1>1, <2>1, <3>1 DEF Carries
  <2> HIDE DEF t
  <2>4. Good(t)
    <3>1. t \notin Bad
      BY <1>5, <2>1, <2>2
    <3> QED
      BY <2>2, <3>1
  <2>5. Congruent(n, t)
    BY <2>2 DEF Congruent
  <2>6. Congruent(n, fold[t])
    <3>1. fold[t] \in Int /\ Congruent(t, fold[t])
      BY <1>3, <2>4
    <3> QED
      BY <2>1, <2>2, <2>5, <3>1, CongruentTrans
  <2>7. Good(n)
    BY <2>1, <2>2, <2>3, <2>4, <2>6
  <2> QED
    BY <1>5, <2>7
<1>6. Bad = {}
  <2>1. Bad \in SUBSET Nat
    OBVIOUS
  <2> HIDE DEF Bad
  <2> QED
    BY <1>5, <2>1, LeastNatural
<1>7. Good(s)
  BY <1>6
<1> QED
  BY <1>2, <1>7

-----------------------------------------------------------------------------
(* The words of a sequence of bytes in both orders, the last one filled up *)
(* with 0, and their sums.                                                 *)

AByte == 0..(Byte - 1)

Terms(bytes) == 0..(((Len(bytes) + 1) \div 2) - 1)
Low(bytes, k) == IF 2 * k + 2 <= Len(bytes) THEN bytes[2 * k + 2] ELSE 0
Big(bytes) == [k \in Terms(bytes) |-> Byte * bytes[2 * k + 1] + Low(bytes, k)]
Little(bytes) == [k \in Terms(bytes) |-> bytes[2 * k + 1] + Byte * Low(bytes, k)]
BigSum(bytes) == SumOf(Big(bytes), Terms(bytes))
LittleSum(bytes) == SumOf(Little(bytes), Terms(bytes))

\* A word of two bytes.
LEMMA TwoBytes ==
    ASSUME NEW a \in AByte, NEW b \in AByte
    PROVE  Byte * a + b \in 0..MaxWord /\ (Byte * a + b = 0 <=> a = 0 /\ b = 0)
<1>1. Byte \in Nat /\ Byte >= 2
  BY ByteAssumption
<1>2. Byte * a >= 0 /\ Byte * a <= Byte * (Byte - 1) /\ (a >= 1 => Byte * a >= Byte)
  BY <1>1 DEF AByte
<1>3. Byte * (Byte - 1) = WordMod - Byte
  BY <1>1 DEF WordMod
<1>4. WordMod \in Nat /\ Byte * a \in Int
  BY <1>1, WordType DEF AByte
<1> DEFINE x == Byte * a
<1>5. x \in Int /\ x >= 0 /\ x <= WordMod - Byte /\ (a >= 1 => x >= Byte) /\ (a = 0 => x = 0)
  BY <1>1, <1>2, <1>3, <1>4
<1> HIDE DEF x
<1>6. x + b \in 0..MaxWord /\ (x + b = 0 <=> a = 0 /\ b = 0)
  BY <1>1, <1>4, <1>5 DEF AByte, MaxWord
<1> QED
  BY <1>6 DEF x

\* The terms and the bytes in them.
LEMMA TermsType ==
    ASSUME NEW bytes \in Seq(AByte)
    PROVE  /\ IsFiniteSet(Terms(bytes))
           /\ \A k \in Terms(bytes) :
                /\ k \in Nat /\ 2 * k + 1 <= Len(bytes)
                /\ bytes[2 * k + 1] \in AByte /\ Low(bytes, k) \in AByte
                /\ Big(bytes)[k] = Byte * bytes[2 * k + 1] + Low(bytes, k)
                /\ Big(bytes)[k] \in 0..MaxWord
                /\ Little(bytes)[k] = bytes[2 * k + 1] + Byte * Low(bytes, k)
                /\ Little(bytes)[k] \in 0..MaxWord
<1>1. Len(bytes) \in Nat /\ 0 \in AByte
  BY ByteAssumption DEF AByte
<1>2. IsFiniteSet(Terms(bytes))
  BY <1>1, FS_Interval DEF Terms
<1> SUFFICES ASSUME NEW k \in Terms(bytes)
             PROVE  /\ k \in Nat /\ 2 * k + 1 <= Len(bytes)
                    /\ bytes[2 * k + 1] \in AByte /\ Low(bytes, k) \in AByte
                    /\ Big(bytes)[k] = Byte * bytes[2 * k + 1] + Low(bytes, k)
                    /\ Big(bytes)[k] \in 0..MaxWord
                    /\ Little(bytes)[k] = bytes[2 * k + 1] + Byte * Low(bytes, k)
                    /\ Little(bytes)[k] \in 0..MaxWord
  BY <1>2
<1>3. k \in Nat /\ 2 * k + 1 <= Len(bytes)
  BY <1>1 DEF Terms
<1>4. bytes[2 * k + 1] \in AByte
  BY <1>1, <1>3
<1>5. Low(bytes, k) \in AByte
  BY <1>1, <1>3 DEF Low
<1>6. Big(bytes)[k] = Byte * bytes[2 * k + 1] + Low(bytes, k)
  BY DEF Big
<1>7. Little(bytes)[k] = Byte * Low(bytes, k) + bytes[2 * k + 1]
  <2>1. Little(bytes)[k] = bytes[2 * k + 1] + Byte * Low(bytes, k)
    BY DEF Little
  <2>2. bytes[2 * k + 1] \in Int /\ Byte * Low(bytes, k) \in Int
    BY <1>4, <1>5, ByteAssumption DEF AByte
  <2> QED
    BY <2>1, <2>2
<1>8. Big(bytes)[k] \in 0..MaxWord /\ Little(bytes)[k] \in 0..MaxWord
  BY <1>4, <1>5, <1>6, <1>7, TwoBytes
<1> QED
  BY <1>3, <1>4, <1>5, <1>6, <1>8 DEF Little

\* The end-around carry.
LEMMA OnesPlusIs ==
    ASSUME NEW a \in 0..MaxWord, NEW b \in 0..MaxWord
    PROVE  /\ OnesPlus(a, b) \in 0..MaxWord
           /\ Congruent(a + b, OnesPlus(a, b))
           /\ OnesPlus(a, b) = 0 <=> a = 0 /\ b = 0
<1>1. WordMod \in Nat /\ WordMod >= 4 /\ MaxWord = WordMod - 1
  BY WordType DEF MaxWord
<1>2. CASE a + b < WordMod
  <2>1. (a + b) % WordMod = a + b /\ (a + b) \div WordMod = 0
    BY <1>1, <1>2
  <2>2. OnesPlus(a, b) = a + b
    BY <1>1, <2>1 DEF OnesPlus
  <2>3. Congruent(a + b, a + b)
    BY <1>1, CongruentRefl
  <2> QED
    BY <1>1, <1>2, <2>2, <2>3
<1>3. CASE a + b >= WordMod
  <2>1. (a + b) % WordMod = a + b - WordMod /\ (a + b) \div WordMod = 1
    BY <1>1, <1>3
  <2>2. OnesPlus(a, b) = a + b - MaxWord
    BY <1>1, <2>1 DEF OnesPlus
  <2>3. a + b = OnesPlus(a, b) + MaxWord * 1
    BY <1>1, <2>2
  <2>4. Congruent(a + b, OnesPlus(a, b))
    BY <2>3 DEF Congruent
  <2> QED
    BY <1>1, <1>3, <2>2, <2>4
<1> QED
  BY <1>1, <1>2, <1>3

\* The sum of RFC 1071 is congruent to the plain sum, and only 0 for zeros.
LEMMA OnesSumIs ==
    ASSUME NEW bytes \in Seq(AByte)
    PROVE  /\ OnesSum(bytes) \in 0..MaxWord
           /\ Congruent(BigSum(bytes), OnesSum(bytes))
           /\ OnesSum(bytes) = 0 <=> BigSum(bytes) = 0
<1> DEFINE S == Terms(bytes)
           V == 0..MaxWord
           zero == 0
           c == Chosen(S)
           h == [p \in S \X V |-> OnesPlus(p[2], Big(bytes)[p[1]])]
           big(k) == Byte * bytes[2 * k + 1]
                       + (IF 2 * k + 2 <= Len(bytes) THEN bytes[2 * k + 2] ELSE 0)
           Is(F) == F = [T \in SUBSET S |->
                          IF T = {} THEN 0
                          ELSE OnesPlus(F[T \ {CHOOSE x \in T : TRUE}], big(CHOOSE x \in T : TRUE))]
           iter == CHOOSE F : Is(F)
<1>1. OnesSum(bytes) = iter[S]
  BY DEF OnesSum, FoldSet, MapThenFoldSet, Terms
<1>2. /\ IsFiniteSet(S) /\ Chooses(c, S) /\ zero \in V
      /\ \A k \in S : Big(bytes)[k] \in V /\ Big(bytes)[k] = big(k)
  BY TermsType, ChosenChooses, WordType DEF Low
<1>3. h \in [S \X V -> V]
  BY <1>2, OnesPlusIs
<1>4. PICK F \in [SUBSET S -> V] : FoldsOver(F, S, zero, h, c)
  <2> HIDE DEF S, V, zero, h, c
  <2> QED
    BY <1>2, <1>3, SubsetRecursion
<1>5. ASSUME NEW T \in SUBSET S, T # {}
      PROVE  /\ c[T] = CHOOSE x \in T : TRUE
             /\ c[T] \in T
             /\ \A v \in V : h[<<c[T], v>>] = OnesPlus(v, big(CHOOSE x \in T : TRUE))
  <2>1. c[T] = CHOOSE x \in T : TRUE
    BY DEF Chosen
  <2>2. c[T] \in T
    BY <1>2, <1>5 DEF Chooses
  <2> HIDE DEF c, big
  <2> QED
    BY <1>2, <2>1, <2>2
<1>6. Is(F)
  <2>1. F = [T \in SUBSET S |-> IF T = {} THEN 0 ELSE h[<<c[T], F[T \ {c[T]}]>>]]
    BY <1>4 DEF FoldsOver
  <2> HIDE DEF h, c, S, V, big
  <2>2. ASSUME NEW T \in SUBSET S, T # {}
        PROVE  h[<<c[T], F[T \ {c[T]}]>>]
                 = OnesPlus(F[T \ {CHOOSE x \in T : TRUE}], big(CHOOSE x \in T : TRUE))
    BY <1>4, <1>5, <2>2
  <2> QED
    BY <2>1, <2>2
<1>7. Is(iter)
  BY <1>6
<1>8. Follows(iter, S, V, zero, h)
  <2> HIDE DEF iter, h, S, V, big
  <2>1. iter[{}] = 0
    BY <1>7
  <2>2. ASSUME NEW T \in (SUBSET S) \ {{}}, iter[T \ {c[T]}] \in V
        PROVE  iter[T] = h[<<c[T], iter[T \ {c[T]}]>>]
    <3>1. iter[T] = OnesPlus(iter[T \ {c[T]}], big(CHOOSE x \in T : TRUE))
      BY <1>5, <1>7
    <3> QED
      BY <1>5, <2>2, <3>1
  <2> QED
    BY <2>1, <2>2 DEF Follows
<1>9. IsFold(iter, S, V, zero, h)
  <2> HIDE DEF iter, S, V, zero, h
  <2> QED
    BY <1>2, <1>3, <1>8, FollowsFold
<1>10. PICK E \in [SUBSET S -> V] :
         FoldsOver(E, S, zero, h, c) /\ \A T \in SUBSET S : iter[T] = E[T]
  BY <1>9 DEF IsFold
<1> DEFINE B == Big(bytes)
           Fine(T) == /\ Congruent(SumOf(B, T), E[T])
                      /\ E[T] = 0 <=> SumOf(B, T) = 0
           G == {T \in SUBSET S : Fine(T)}
<1>11. ASSUME NEW T \in SUBSET S
       PROVE  IsFiniteSet(T) /\ SumOf(B, T) \in Nat /\ E[T] \in V /\ V \subseteq Int
  <2>1. IsFiniteSet(T) /\ \A k \in T : B[k] \in Nat
    BY <1>2, FS_Subset, WordType
  <2> HIDE DEF B
  <2>2. SumOf(B, T) \in Nat
    BY <2>1, SumNat
  <2> QED
    BY <1>10, <2>1, <2>2, WordType
<1>12. G \in SUBSET SUBSET S /\ {} \in G
  <2>1. SumOf(B, {}) = 0
    BY SumEmpty
  <2>2. E[{}] = 0
    BY <1>10 DEF FoldsOver
  <2>3. Congruent(0, 0)
    BY CongruentRefl
  <2> QED
    BY <2>1, <2>2, <2>3
<1>13. ASSUME NEW T \in (SUBSET S) \ {{}}, T \ {c[T]} \in G PROVE T \in G
  <2> DEFINE x == c[T]
             U == T \ {x}
             b == B[x]
  <2>1. /\ c[T] \in T /\ U \in SUBSET S /\ b \in V /\ Fine(U)
        /\ SumOf(B, T) \in Nat /\ SumOf(B, U) \in Nat /\ E[T] \in V /\ E[U] \in V
    BY <1>2, <1>5, <1>11, <1>13
  <2>2. E[T] = OnesPlus(E[U], b)
    <3>1. E[T] = h[<<c[T], E[U]>>]
      <4> HIDE DEF h, c
      <4> QED
        BY <1>10 DEF FoldsOver
    <3> HIDE DEF c
    <3> QED
      BY <2>1, <3>1
  <2>3. SumOf(B, T) = SumOf(B, U) + b
    <3>1. IsFiniteSet(T) /\ \A k \in T : B[k] \in Int
      BY <1>2, <1>11, WordType
    <3>2. x \in T
      BY <2>1
    <3> HIDE DEF B, x
    <3> QED
      BY <3>1, <3>2, SumRemove
  <2> HIDE DEF U, b, V, B
  <2>4. b \in 0..MaxWord /\ E[U] \in 0..MaxWord /\ E[T] \in 0..MaxWord /\ MaxWord \in Nat
    BY <2>1, WordType DEF V
  <2>5. /\ Congruent(E[U] + b, OnesPlus(E[U], b))
        /\ OnesPlus(E[U], b) = 0 <=> E[U] = 0 /\ b = 0
    BY <2>4, OnesPlusIs
  <2>6. Congruent(b, b)
    BY <2>4, CongruentRefl
  <2>7. Congruent(SumOf(B, U) + b, E[U] + b)
    <3>1. SumOf(B, U) \in Int /\ E[U] \in Int /\ b \in Int /\ Congruent(SumOf(B, U), E[U])
      BY <2>1, <2>4
    <3> QED
      BY <2>6, <3>1, CongruentAdds
  <2>8. Congruent(SumOf(B, T), E[T])
    <3>1. SumOf(B, U) + b \in Int /\ E[U] + b \in Int /\ E[T] \in Int
      BY <2>1, <2>4
    <3>2. Congruent(E[U] + b, E[T])
      BY <2>2, <2>5
    <3>3. Congruent(SumOf(B, U) + b, E[T])
      BY <2>7, <3>1, <3>2, CongruentTrans
    <3> QED
      BY <2>3, <3>3
  <2>9. E[T] = 0 <=> SumOf(B, T) = 0
    BY <2>1, <2>2, <2>3, <2>4, <2>5
  <2> QED
    BY <2>8, <2>9
<1>14. G = SUBSET S
  <2> HIDE DEF G, S, c
  <2>1. Grows(G, S, c)
    BY <1>12, <1>13 DEF Grows
  <2> QED
    BY <1>2, <1>12, <2>1, SubsetInduction
<1>15. Fine(S)
  BY <1>14
<1>16. OnesSum(bytes) = E[S] /\ E[S] \in V /\ BigSum(bytes) = SumOf(B, S)
  BY <1>1, <1>10 DEF BigSum
<1> QED
  BY <1>15, <1>16

\* A word read in the other order is, Byte times, the same modulo MaxWord.
LEMMA OrdersAgree ==
    ASSUME NEW bytes \in Seq(AByte)
    PROVE  /\ LittleSum(bytes) \in Nat /\ BigSum(bytes) \in Nat
           /\ Congruent(Byte * LittleSum(bytes), BigSum(bytes))
           /\ LittleSum(bytes) = 0 => BigSum(bytes) = 0
<1> DEFINE S == Terms(bytes)
           L == Little(bytes)
           B == Big(bytes)
           c == Chosen(S)
           Fine(T) == \E q \in Nat : Byte * SumOf(L, T) = SumOf(B, T) + MaxWord * q
           G == {T \in SUBSET S : Fine(T)}
<1>1. Byte \in Nat /\ MaxWord \in Nat /\ MaxWord > 0
  BY ByteAssumption, WordType
<1>2. IsFiniteSet(S) /\ Chooses(c, S) /\ \A k \in S : L[k] \in Nat /\ B[k] \in Nat
  BY TermsType, ChosenChooses, WordType
<1>3. ASSUME NEW k \in S
      PROVE  \E q \in Nat : Byte * L[k] = B[k] + MaxWord * q
  <2> DEFINE x == bytes[2 * k + 1]
             y == Low(bytes, k)
  <2>1. x \in AByte /\ y \in AByte /\ L[k] = x + Byte * y /\ B[k] = Byte * x + y
    BY TermsType
  <2> HIDE DEF x, y, L, B
  <2>2. x \in Nat /\ y \in Nat
    BY <1>1, <2>1 DEF AByte
  <2>3. Byte * (x + Byte * y) = Byte * x + (Byte * Byte) * y
    BY <1>1, <2>2
  <2>4. (Byte * Byte) * y = y + MaxWord * y
    BY <1>1, <2>2 DEF MaxWord, WordMod
  <2>5. Byte * L[k] = B[k] + MaxWord * y
    <3>1. Byte * x \in Int /\ MaxWord * y \in Int
      BY <1>1, <2>2
    <3> DEFINE a == Byte * x
               b == MaxWord * y
               d == (Byte * Byte) * y
    <3>2. a \in Int /\ b \in Int /\ d = y + b /\ Byte * L[k] = a + d /\ B[k] = a + y
      BY <2>1, <2>3, <2>4, <3>1
    <3> HIDE DEF a, b, d
    <3>3. Byte * L[k] = B[k] + b
      BY <2>2, <3>2
    <3> QED
      BY <3>3 DEF b
  <2> QED
    BY <2>2, <2>5
<1>4. ASSUME NEW T \in SUBSET S
      PROVE  IsFiniteSet(T) /\ SumOf(L, T) \in Nat /\ SumOf(B, T) \in Nat
  <2>1. IsFiniteSet(T) /\ \A k \in T : L[k] \in Nat /\ B[k] \in Nat
    BY <1>2, FS_Subset
  <2> HIDE DEF L, B
  <2> QED
    BY <2>1, SumNat
<1>5. G \in SUBSET SUBSET S /\ {} \in G
  <2>1. SumOf(L, {}) = 0 /\ SumOf(B, {}) = 0
    BY SumEmpty
  <2>2. Byte * 0 = 0 + MaxWord * 0
    BY <1>1
  <2> QED
    BY <2>1, <2>2
<1>6. ASSUME NEW T \in (SUBSET S) \ {{}}, T \ {c[T]} \in G PROVE T \in G
  <2> DEFINE x == c[T]
             U == T \ {x}
  <2>1. x \in T /\ x \in S /\ U \in SUBSET S /\ Fine(U)
    BY <1>2, <1>6 DEF Chooses
  <2> HIDE DEF x, S, L, B
  <2>2. IsFiniteSet(T) /\ \A k \in T : L[k] \in Int /\ B[k] \in Int
    BY <1>2, <1>4
  <2>3. SumOf(L, T) = SumOf(L, U) + L[x] /\ SumOf(B, T) = SumOf(B, U) + B[x]
    BY <2>1, <2>2, SumRemove
  <2>4. PICK p \in Nat : Byte * SumOf(L, U) = SumOf(B, U) + MaxWord * p
    BY <2>1
  <2>5. PICK q \in Nat : Byte * L[x] = B[x] + MaxWord * q
    BY <1>3, <2>1
  <2> DEFINE l == SumOf(L, U)
             b == SumOf(B, U)
             l1 == L[x]
             b1 == B[x]
  <2>6. l \in Nat /\ b \in Nat /\ l1 \in Nat /\ b1 \in Nat
    BY <1>2, <1>4, <2>1
  <2>7. Byte * l = b + MaxWord * p /\ Byte * l1 = b1 + MaxWord * q
    BY <2>4, <2>5
  <2> HIDE DEF l, b, l1, b1
  <2>8. Byte * (l + l1) = b + b1 + MaxWord * (p + q)
    <3>1. Byte * (l + l1) = Byte * l + Byte * l1
      BY <1>1, <2>6
    <3>2. MaxWord * (p + q) = MaxWord * p + MaxWord * q
      BY <1>1
    <3>3. MaxWord * p \in Int /\ MaxWord * q \in Int
      BY <1>1
    <3> QED
      BY <2>6, <2>7, <3>1, <3>2, <3>3
  <2>9. p + q \in Nat
    OBVIOUS
  <2>10. Fine(T)
    BY <2>3, <2>8, <2>9 DEF l, b, l1, b1
  <2> QED
    BY <2>10
<1>7. G = SUBSET S
  <2> HIDE DEF G, S, c
  <2>1. Grows(G, S, c)
    BY <1>5, <1>6 DEF Grows
  <2> QED
    BY <1>2, <1>5, <2>1, SubsetInduction
<1>8. PICK q \in Nat : Byte * LittleSum(bytes) = BigSum(bytes) + MaxWord * q
  BY <1>7 DEF LittleSum, BigSum
<1>9. LittleSum(bytes) \in Nat /\ BigSum(bytes) \in Nat
  BY <1>4 DEF LittleSum, BigSum
<1>10. LittleSum(bytes) = 0 => BigSum(bytes) = 0
  <2> HAVE LittleSum(bytes) = 0
  <2>1. BigSum(bytes) + MaxWord * q = 0
    BY <1>1, <1>8
  <2>2. MaxWord * q >= 0 /\ MaxWord * q \in Int
    BY <1>1
  <2> QED
    BY <1>9, <2>1, <2>2
<1> QED
  BY <1>8, <1>9, <1>10 DEF Congruent

\* When one word changes, so does the sum.
LEMMA WordChanged ==
    ASSUME NEW bytes \in Seq(AByte), NEW other \in Seq(AByte), Len(other) = Len(bytes),
           NEW k \in Terms(bytes),
           \A i \in 1..Len(bytes) : i \notin {2 * k + 1, 2 * k + 2} => other[i] = bytes[i]
    PROVE  /\ BigSum(other) = BigSum(bytes) - Big(bytes)[k] + Big(other)[k]
           /\ LittleSum(other) = LittleSum(bytes) - Little(bytes)[k] + Little(other)[k]
<1> DEFINE S == Terms(bytes)
<1>1. Terms(other) = S /\ IsFiniteSet(S)
  BY TermsType DEF Terms
<1>2. \A j \in S : /\ Big(bytes)[j] \in Int /\ Big(other)[j] \in Int
                   /\ Little(bytes)[j] \in Int /\ Little(other)[j] \in Int
  BY <1>1, TermsType, WordType
<1>3. ASSUME NEW j \in S \ {k}
      PROVE  Big(other)[j] = Big(bytes)[j] /\ Little(other)[j] = Little(bytes)[j]
  <2>1. j \in Nat /\ k \in Nat /\ j # k /\ 2 * j + 1 <= Len(bytes) /\ Len(bytes) \in Nat
    BY TermsType
  <2>2. other[2 * j + 1] = bytes[2 * j + 1]
    <3>1. 2 * j + 1 \in 1..Len(bytes) /\ 2 * j + 1 \notin {2 * k + 1, 2 * k + 2}
      BY <2>1
    <3> QED
      BY <3>1
  <2>3. Low(other, j) = Low(bytes, j)
    <3>1. CASE 2 * j + 2 <= Len(bytes)
      <4>1. 2 * j + 2 \in 1..Len(bytes) /\ 2 * j + 2 \notin {2 * k + 1, 2 * k + 2}
        BY <2>1, <3>1
      <4> QED
        BY <4>1 DEF Low
    <3>2. CASE ~(2 * j + 2 <= Len(bytes))
      BY <3>2 DEF Low
    <3> QED
      BY <3>1, <3>2
  <2> QED
    BY <1>1, <2>2, <2>3 DEF Big, Little
<1> HIDE DEF S
<1>4. k \in S
  BY DEF S
<1>5. SumOf(Big(other), S) = SumOf(Big(bytes), S) - Big(bytes)[k] + Big(other)[k]
  <2> DEFINE f == Big(bytes)
             g == Big(other)
  <2>1. SameBut(k, f, g, S)
    BY <1>2, <1>3 DEF SameBut
  <2> HIDE DEF f, g
  <2>2. SumOf(g, S) = SumOf(f, S) - f[k] + g[k]
    BY <1>1, <1>4, <2>1, SumChange
  <2> QED
    BY <2>2 DEF f, g
<1>6. SumOf(Little(other), S) = SumOf(Little(bytes), S) - Little(bytes)[k] + Little(other)[k]
  <2> DEFINE f == Little(bytes)
             g == Little(other)
  <2>1. SameBut(k, f, g, S)
    BY <1>2, <1>3 DEF SameBut
  <2> HIDE DEF f, g
  <2>2. SumOf(g, S) = SumOf(f, S) - f[k] + g[k]
    BY <1>1, <1>4, <2>1, SumChange
  <2> QED
    BY <2>2 DEF f, g
<1> QED
  BY <1>1, <1>5, <1>6 DEF BigSum, LittleSum, S

\* Words adds the whole words.
LEMMA WordsAre ==
    ASSUME NEW bytes \in Seq(AByte)
    PROVE  Words(bytes) = SumOf(Little(bytes), 0..((Len(bytes) \div 2) - 1))
<1> DEFINE S == 0..((Len(bytes) \div 2) - 1)
           L == Little(bytes)
           zero == 0
           c == Chosen(S)
           h == Adding(L, S)
           first(k) == bytes[2 * k + 1]
           second(k) == Byte * bytes[2 * k + 2]
           Is(F) == F = [T \in SUBSET S |->
                          IF T = {} THEN 0
                          ELSE F[T \ {CHOOSE x \in T : TRUE}]
                                 + first(CHOOSE x \in T : TRUE) + second(CHOOSE x \in T : TRUE)]
           iter == CHOOSE F : Is(F)
<1>1. Words(bytes) = iter[S]
  BY DEF Words, FoldSet, MapThenFoldSet
<1>2. IsFiniteSet(S) /\ Chooses(c, S) /\ zero \in Int
  <2>1. Len(bytes) \div 2 - 1 \in Int
    OBVIOUS
  <2> QED
    BY <2>1, FS_Interval, ChosenChooses
<1>3. ASSUME NEW k \in S
      PROVE  /\ first(k) \in Int /\ second(k) \in Int
             /\ L[k] = first(k) + second(k)
  <2>1. k \in Terms(bytes) /\ 2 * k + 2 <= Len(bytes)
    BY DEF Terms
  <2>2. Low(bytes, k) = bytes[2 * k + 2]
    BY <2>1 DEF Low
  <2>3. bytes[2 * k + 1] \in AByte /\ bytes[2 * k + 2] \in AByte /\ L[k] = first(k) + second(k)
    BY <2>1, <2>2, TermsType
  <2>4. Byte \in Int /\ bytes[2 * k + 1] \in Int /\ bytes[2 * k + 2] \in Int
    <3>1. Byte \in Int /\ \A x \in AByte : x \in Int
      BY ByteAssumption DEF AByte
    <3> QED
      BY <2>3, <3>1
  <2>5. \A a, b \in Int : a * b \in Int
    OBVIOUS
  <2>6. first(k) \in Int /\ second(k) \in Int
    BY <2>4, <2>5
  <2> QED
    BY <2>3, <2>6
<1> HIDE DEF first, second, L
<1>4. h \in [S \X Int -> Int] /\ \A k \in S : L[k] \in Int
  BY <1>3 DEF Adding
<1>5. PICK F \in [SUBSET S -> Int] : FoldsOver(F, S, zero, h, c)
  <2> HIDE DEF S, zero, h, c
  <2> QED
    BY <1>2, <1>4, SubsetRecursion
<1>6. ASSUME NEW T \in SUBSET S, T # {}, NEW v \in Int
      PROVE  /\ c[T] = CHOOSE x \in T : TRUE
             /\ h[<<c[T], v>>] = v + first(CHOOSE x \in T : TRUE) + second(CHOOSE x \in T : TRUE)
  <2>1. c[T] = CHOOSE x \in T : TRUE
    BY DEF Chosen
  <2>2. c[T] \in S
    BY <1>2, <1>6 DEF Chooses
  <2> DEFINE x == c[T]
  <2>3. h[<<x, v>>] = v + L[x]
    BY <2>2 DEF Adding
  <2> HIDE DEF x
  <2>4. h[<<x, v>>] = v + first(x) + second(x)
    <3>1. x \in S
      BY <2>2 DEF x
    <3>2. first(x) \in Int /\ second(x) \in Int /\ L[x] = first(x) + second(x)
      BY <1>3, <3>1
    <3> DEFINE w == h[<<x, v>>]
    <3>3. w = v + L[x]
      BY <2>3
    <3> HIDE DEF w
    <3>4. w = v + first(x) + second(x)
      BY <3>2, <3>3
    <3> QED
      BY <3>4 DEF w
  <2> QED
    BY <2>1, <2>4 DEF x
<1>7. Is(F)
  <2>1. F = [T \in SUBSET S |-> IF T = {} THEN 0 ELSE h[<<c[T], F[T \ {c[T]}]>>]]
    BY <1>5 DEF FoldsOver
  <2> HIDE DEF h, c, S
  <2>2. ASSUME NEW T \in SUBSET S, T # {}
        PROVE  h[<<c[T], F[T \ {c[T]}]>>]
                 = F[T \ {CHOOSE x \in T : TRUE}]
                     + first(CHOOSE x \in T : TRUE) + second(CHOOSE x \in T : TRUE)
    <3>1. F[T \ {c[T]}] \in Int
      BY <1>5
    <3> QED
      BY <1>6, <2>2, <3>1
  <2> QED
    BY <2>1, <2>2
<1>8. Is(iter)
  BY <1>7
<1>9. Follows(iter, S, Int, zero, h)
  <2> HIDE DEF iter, h, S
  <2>1. iter[{}] = 0
    BY <1>8
  <2>2. ASSUME NEW T \in (SUBSET S) \ {{}}, iter[T \ {c[T]}] \in Int
        PROVE  iter[T] = h[<<c[T], iter[T \ {c[T]}]>>]
    <3> DEFINE v == iter[T \ {c[T]}]
    <3>1. v \in Int
      BY <2>2
    <3>2. iter[T] = v + first(CHOOSE x \in T : TRUE) + second(CHOOSE x \in T : TRUE)
      <4>1. T \in SUBSET S /\ T # {} /\ c[T] = CHOOSE x \in T : TRUE
        BY <1>6, <2>2
      <4> QED
        BY <1>8, <4>1
    <3> HIDE DEF v
    <3>3. iter[T] = h[<<c[T], v>>]
      BY <1>6, <3>1, <3>2
    <3> QED
      BY <3>3 DEF v
  <2> QED
    BY <2>1, <2>2 DEF Follows
<1>10. IsFold(iter, S, Int, zero, h)
  <2> HIDE DEF iter, S, zero, h
  <2> QED
    BY <1>2, <1>4, <1>9, FollowsFold
<1>11. PICK E \in [SUBSET S -> Int] :
         FoldsOver(E, S, zero, h, c) /\ \A T \in SUBSET S : iter[T] = E[T]
  BY <1>10 DEF IsFold
<1>12. PICK G \in [SUBSET S -> Int] :
         FoldsOver(G, S, zero, h, c) /\ SumOf(L, S) = G[S]
  <2>1. \E G \in [SUBSET S -> Int] :
          FoldsOver(G, S, 0, Adding(L, S), Chosen(S)) /\ SumOf(L, S) = G[S]
    <3> HIDE DEF S
    <3> QED
      BY <1>2, <1>4, SumFolds
  <2> QED
    BY <2>1
<1>13. SameSubsets(E, G, S) /\ E[{}] = G[{}]
  <2>1. SameSubsets(c, c, S) /\ SameSteps(h, h, S, Int)
    BY DEF SameSubsets, SameSteps
  <2>2. E[{}] = zero /\ G[{}] = zero
    BY <1>11, <1>12 DEF FoldsOver
  <2> HIDE DEF S, zero, h, c
  <2>3. S \subseteq S
    OBVIOUS
  <2> QED
    BY <1>2, <1>4, <1>11, <1>12, <2>1, <2>2, <2>3, FoldsAgree
<1>14. iter[S] = SumOf(L, S)
  <2> HIDE DEF S, iter
  <2>1. iter[S] = E[S] /\ E[S] = G[S]
    BY <1>11, <1>13 DEF SameSubsets
  <2> QED
    BY <1>12, <2>1
<1> QED
  BY <1>1, <1>14 DEF L

\* With the odd byte, these are all words.
LEMMA WordsAndOdd ==
    ASSUME NEW bytes \in Seq(AByte)
    PROVE  Words(bytes) + Odd(bytes) = LittleSum(bytes)
<1> DEFINE n == Len(bytes) \div 2
           L == Little(bytes)
<1>1. Len(bytes) \in Nat /\ n \in Nat
  OBVIOUS
<1>2. Words(bytes) = SumOf(L, 0..(n - 1))
  BY WordsAre
<1>3. \A k \in Terms(bytes) : L[k] \in Int
  BY TermsType, WordType
<1>4. IsFiniteSet(0..(n - 1)) /\ SumOf(L, 0..(n - 1)) \in Int
  <2> DEFINE S == 0..(n - 1)
  <2>1. n - 1 \in Int
    BY <1>1
  <2>2. IsFiniteSet(S)
    BY <2>1, FS_Interval
  <2>3. \A k \in S : L[k] \in Int
    BY <1>1, <1>3 DEF Terms
  <2> HIDE DEF S, L
  <2>4. SumOf(L, S) \in Int
    BY <2>2, <2>3, SumType
  <2> QED
    BY <2>2, <2>4 DEF S
<1>5. CASE Len(bytes) % 2 = 0
  <2>1. Terms(bytes) = 0..(n - 1) /\ Odd(bytes) = 0
    BY <1>1, <1>5 DEF Terms, Odd
  <2> HIDE DEF L, n
  <2>2. LittleSum(bytes) = SumOf(L, 0..(n - 1))
    BY <2>1 DEF LittleSum, L
  <2> QED
    BY <1>2, <1>4, <2>1, <2>2
<1>6. CASE Len(bytes) % 2 = 1
  <2>1. Len(bytes) = 2 * n + 1 /\ Terms(bytes) = 0..n /\ Odd(bytes) = bytes[2 * n + 1]
    BY <1>1, <1>6 DEF Terms, Odd
  <2>2. n \in Terms(bytes) /\ Low(bytes, n) = 0
    BY <1>1, <2>1 DEF Low
  <2>3. L[n] = Odd(bytes)
    <3> HIDE DEF n
    <3>1. L[n] = bytes[2 * n + 1] + Byte * 0 /\ bytes[2 * n + 1] \in AByte
      BY <2>2, TermsType
    <3> QED
      BY <2>1, <3>1, ByteAssumption DEF AByte
  <2>4. SumOf(L, 0..n) = SumOf(L, 0..(n - 1)) + L[n]
    <3>1. \A k \in 0..n : L[k] \in Int
      BY <1>3, <2>1
    <3> HIDE DEF L, n
    <3> QED
      BY <1>1, <3>1, SumFirst
  <2> HIDE DEF n
  <2> QED
    BY <1>2, <2>1, <2>3, <2>4 DEF LittleSum
<1> QED
  BY <1>1, <1>5, <1>6

\* After whole words the words of another sequence follow as they are.
LEMMA SumOfBoth ==
    ASSUME NEW a \in Seq(AByte), Len(a) % 2 = 0, NEW b \in Seq(AByte)
    PROVE  /\ a \o b \in Seq(AByte)
           /\ LittleSum(a \o b) = LittleSum(a) + LittleSum(b)
<1> DEFINE ab == a \o b
           p == Len(a) \div 2
           t == (Len(b) + 1) \div 2
           A == Little(a)
           B == Little(b)
           C == Little(ab)
           Fine(j) == j <= t => SumOf(C, 0..(p + j - 1)) = SumOf(A, 0..(p - 1)) + SumOf(B, 0..(j - 1))
           Good == {j \in Nat : Fine(j)}
<1>1. /\ Len(a) \in Nat /\ Len(b) \in Nat /\ Len(a) = 2 * p /\ p \in Nat /\ t \in Nat
      /\ Len(b) + 1 = 2 * t \/ Len(b) + 1 = 2 * t + 1
      /\ ab \in Seq(AByte) /\ Len(ab) = Len(a) + Len(b)
      /\ \A i \in 1..Len(a) : ab[i] = a[i]
      /\ \A i \in 1..Len(b) : ab[Len(a) + i] = b[i]
  OBVIOUS
<1> HIDE DEF ab
<1>2. Terms(a) = 0..(p - 1) /\ Terms(b) = 0..(t - 1) /\ Terms(ab) = 0..(p + t - 1)
  <2>1. Terms(b) = 0..(t - 1)
    BY DEF Terms
  <2> HIDE DEF p
  <2>2. Len(ab) + 1 = 2 * p + (Len(b) + 1)
    BY <1>1
  <2>3. (2 * p + 1) \div 2 = p
    BY <1>1
  <2> HIDE DEF t
  <2>4. (2 * p + (Len(b) + 1)) \div 2 = p + t
    <3> DEFINE l == Len(b) + 1
    <3>1. l \in Nat /\ (l = 2 * t \/ l = 2 * t + 1) /\ t \in Nat /\ p \in Nat
      BY <1>1
    <3> HIDE DEF l
    <3>2. (2 * p + l) \div 2 = p + t
      BY <3>1
    <3> QED
      BY <3>2 DEF l
  <2> QED
    BY <1>1, <2>1, <2>2, <2>3, <2>4 DEF Terms
<1> HIDE DEF p, t
<1>3. ASSUME NEW k \in 0..(p - 1) PROVE C[k] = A[k] /\ A[k] \in Int
  <2>1. k \in Terms(a) /\ k \in Terms(ab) /\ 2 * k + 2 <= Len(a)
    BY <1>1, <1>2
  <2>2. ab[2 * k + 1] = a[2 * k + 1] /\ ab[2 * k + 2] = a[2 * k + 2]
    <3>1. 2 * k + 1 \in 1..Len(a) /\ 2 * k + 2 \in 1..Len(a)
      BY <1>1, <2>1
    <3> QED
      BY <1>1, <3>1
  <2>3. Low(ab, k) = Low(a, k)
    BY <1>1, <2>1, <2>2 DEF Low
  <2>4. A[k] \in Int
    BY <2>1, TermsType, WordType
  <2> QED
    BY <2>1, <2>2, <2>3, <2>4 DEF Little
<1>4. ASSUME NEW j \in 0..(t - 1) PROVE C[p + j] = B[j] /\ B[j] \in Int
  <2>1. j \in Terms(b) /\ p + j \in Terms(ab) /\ 2 * j + 1 <= Len(b)
    BY <1>1, <1>2
  <2>2. 2 * (p + j) + 1 = Len(a) + (2 * j + 1) /\ 2 * (p + j) + 2 = Len(a) + (2 * j + 2)
    BY <1>1
  <2>3. ab[2 * (p + j) + 1] = b[2 * j + 1]
    BY <1>1, <2>1, <2>2
  <2>4. Low(ab, p + j) = Low(b, j)
    BY <1>1, <2>1, <2>2 DEF Low
  <2>5. B[j] \in Int
    BY <2>1, TermsType, WordType
  <2> QED
    BY <2>1, <2>3, <2>4, <2>5 DEF Little
<1> HIDE DEF A, B, C
<1>5. IsFiniteSet(0..(p - 1)) /\ SumOf(A, 0..(p - 1)) \in Int
  <2> DEFINE S == 0..(p - 1)
  <2>1. IsFiniteSet(S) /\ \A k \in S : A[k] \in Int
    <3>1. p - 1 \in Int
      BY <1>1
    <3> QED
      BY <1>3, <3>1, FS_Interval
  <2> HIDE DEF S
  <2>2. SumOf(A, S) \in Int
    BY <2>1, SumType
  <2> QED
    BY <2>1, <2>2 DEF S
<1>6. 0 \in Good
  <2> DEFINE S == 0..(p - 1)
  <2>1. IsFiniteSet(S) /\ \A k \in S : A[k] \in Int /\ C[k] = A[k]
    BY <1>3, <1>5
  <2> HIDE DEF S
  <2>2. SumOf(C, S) = SumOf(A, S)
    BY <2>1, SumAgree
  <2>3. 0..(p + 0 - 1) = S /\ 0..(0 - 1) = {}
    BY <1>1 DEF S
  <2>4. SumOf(B, {}) = 0
    BY SumEmpty
  <2> QED
    BY <1>5, <2>2, <2>3, <2>4 DEF S
<1>7. ASSUME NEW j \in Good PROVE j + 1 \in Good
  <2> SUFFICES ASSUME j + 1 <= t
               PROVE  SumOf(C, 0..(p + j)) = SumOf(A, 0..(p - 1)) + SumOf(B, 0..j)
    <3>1. j \in Nat /\ p + (j + 1) - 1 = p + j /\ j + 1 - 1 = j
      BY <1>1
    <3> QED
      BY <3>1
  <2>1. j \in Nat /\ j \in 0..(t - 1) /\ p + j \in Nat /\ p + j - 1 \in Int
    BY <1>1
  <2>2. SumOf(C, 0..(p + j - 1)) = SumOf(A, 0..(p - 1)) + SumOf(B, 0..(j - 1))
    BY <1>1, <2>1
  <2>3. \A k \in 0..(p + j) : C[k] \in Int
    <3> SUFFICES ASSUME NEW k \in 0..(p + j) PROVE C[k] \in Int
      OBVIOUS
    <3>1. CASE k < p
      <4>1. k \in 0..(p - 1)
        BY <1>1, <2>1, <3>1
      <4> QED
        BY <1>3, <4>1
    <3>2. CASE k >= p
      <4>1. k - p \in 0..(t - 1) /\ p + (k - p) = k
        BY <1>1, <2>1, <3>2
      <4>2. C[p + (k - p)] = B[k - p] /\ B[k - p] \in Int
        BY <1>4, <4>1
      <4> QED
        BY <4>1, <4>2
    <3>3. k < p \/ k >= p
      BY <1>1, <2>1
    <3> QED
      BY <3>1, <3>2, <3>3
  <2>4. \A k \in 0..j : B[k] \in Int
    <3> SUFFICES ASSUME NEW k \in 0..j PROVE B[k] \in Int
      OBVIOUS
    <3>1. k \in 0..(t - 1)
      BY <1>1, <2>1
    <3> QED
      BY <1>4, <3>1
  <2>5. SumOf(C, 0..(p + j)) = SumOf(C, 0..(p + j - 1)) + C[p + j]
    <3>1. ASSUME NEW m \in Nat, m = p + j
          PROVE  SumOf(C, 0..m) = SumOf(C, 0..(m - 1)) + C[m]
      BY <2>3, <3>1, SumFirst
    <3>2. p \in Int /\ j \in Int
      BY <1>1, <2>1
    <3> QED
      BY <2>1, <3>1, <3>2
  <2>6. SumOf(B, 0..j) = SumOf(B, 0..(j - 1)) + B[j]
    BY <2>1, <2>4, SumFirst
  <2>7. SumOf(B, 0..(j - 1)) \in Int
    <3> DEFINE S == 0..(j - 1)
    <3>1. IsFiniteSet(S) /\ \A k \in S : B[k] \in Int
      BY <2>1, <2>4, FS_Interval
    <3> HIDE DEF S
    <3>2. SumOf(B, S) \in Int
      BY <3>1, SumType
    <3> QED
      BY <3>2 DEF S
  <2>8. C[p + j] = B[j] /\ B[j] \in Int
    BY <1>4, <2>1
  <2> QED
    BY <1>5, <2>2, <2>5, <2>6, <2>7, <2>8
<1>8. Good = Nat
  <2>1. Good \in SUBSET Nat
    OBVIOUS
  <2> HIDE DEF Good
  <2> QED
    BY <1>6, <1>7, <2>1, NumbersByInduction
<1>9. SumOf(C, 0..(p + t - 1)) = SumOf(A, 0..(p - 1)) + SumOf(B, 0..(t - 1))
  <2>1. t \in Nat /\ t <= t
    BY <1>1
  <2>2. Fine(t)
    BY <1>8, <2>1
  <2> QED
    BY <2>1, <2>2
<1>10. LittleSum(ab) = LittleSum(a) + LittleSum(b)
  BY <1>2, <1>9 DEF LittleSum, A, B, C
<1> QED
  BY <1>1, <1>10 DEF ab

-----------------------------------------------------------------------------
(* A message behind its pseudo header.                                     *)

All(addresses, message) == pseudo_hdr(addresses, Len(message)) \o message

\* What the addresses and a message may be.
IsAddresses(addresses) == addresses \in Seq(AByte) /\ Len(addresses) % 2 = 0
IsMessage(message) == message \in Seq(AByte) /\ Len(message) >= 4 /\ Len(message) < WordMod

\* The length in the pseudo header consists of bytes.
LEMMA LengthBytes ==
    ASSUME NEW n \in 0..MaxWord
    PROVE  n \div Byte \in AByte /\ n % Byte \in AByte /\ n = Byte * (n \div Byte) + (n % Byte)
<1>1. Byte \in Nat /\ Byte >= 2 /\ n \in Nat /\ n < Byte * Byte
  BY ByteAssumption, WordType DEF MaxWord, WordMod
<1> DEFINE q == n \div Byte
           r == n % Byte
<1>2. q \in Int /\ r \in 0..(Byte - 1) /\ n = Byte * q + r
  BY <1>1
<1> HIDE DEF q, r
<1>3. q >= 0
  <2> SUFFICES ASSUME q <= -1 PROVE FALSE
    BY <1>2
  <2>1. Byte * q <= -Byte
    BY <1>1, <1>2
  <2> QED
    BY <1>1, <1>2, <2>1
<1>4. q < Byte
  <2> SUFFICES ASSUME q >= Byte PROVE FALSE
    BY <1>1, <1>2
  <2>1. Byte * q >= Byte * Byte
    BY <1>1, <1>2
  <2> QED
    BY <1>1, <1>2, <2>1
<1> QED
  BY <1>1, <1>2, <1>3, <1>4 DEF AByte, q, r

LEMMA AllIs ==
    ASSUME NEW a, IsAddresses(a), NEW m, IsMessage(m)
    PROVE  /\ All(a, m) \in Seq(AByte) /\ Len(All(a, m)) = Len(a) + 8 + Len(m)
           /\ \A i \in 1..(Len(a) + 8) : All(a, m)[i] = pseudo_hdr(a, Len(m))[i]
           /\ \A i \in 1..Len(m) : All(a, m)[Len(a) + 8 + i] = m[i]
           /\ pseudo_hdr(a, Len(m)) \in Seq(AByte) /\ Len(pseudo_hdr(a, Len(m))) = Len(a) + 8
           /\ BigSum(All(a, m)) > 0
<1> DEFINE hi == Len(m) \div Byte
           lo == Len(m) % Byte
           tail == <<0, 0, hi, lo, 0, 0, 0, NextHeader>>
           h == a \o tail
           k == (Len(a) \div 2) + 1
<1>1. Len(m) \in Nat /\ Len(m) \in 0..MaxWord /\ Len(m) > 0
  BY WordType DEF IsMessage, MaxWord
<1>2. hi \in AByte /\ lo \in AByte /\ Len(m) = Byte * hi + lo
  BY <1>1, LengthBytes
<1> HIDE DEF hi, lo
<1>3. 0 \in AByte /\ NextHeader \in AByte
  BY ByteAssumption DEF AByte
<1>4. tail \in Seq(AByte) /\ Len(tail) = 8 /\ tail[3] = hi /\ tail[4] = lo
  BY <1>2, <1>3
<1>5. a \in Seq(AByte) /\ m \in Seq(AByte) /\ Len(a) \in Nat
  BY DEF IsAddresses, IsMessage
<1> HIDE DEF tail
<1>6. /\ h \in Seq(AByte) /\ Len(h) = Len(a) + 8
      /\ h[Len(a) + 3] = hi /\ h[Len(a) + 4] = lo
  <2>1. h \in Seq(AByte) /\ Len(h) = Len(a) + 8
    <3>1. a \in Seq(AByte) /\ tail \in Seq(AByte)
      BY <1>4, <1>5
    <3>2. Len(h) = Len(a) + Len(tail)
      BY <3>1
    <3> QED
      BY <1>4, <3>1, <3>2
  <2>2. Len(a) + 3 \in 1..Len(h) /\ Len(a) + 4 \in 1..Len(h)
    BY <1>5, <2>1
  <2>3. h[Len(a) + 3] = tail[3] /\ h[Len(a) + 4] = tail[4]
    BY <1>4, <1>5, <2>1, <2>2
  <2> QED
    BY <1>4, <2>1, <2>3
<1>7. pseudo_hdr(a, Len(m)) = h
  BY DEF pseudo_hdr, tail, hi, lo
<1> HIDE DEF h
<1> DEFINE all == h \o m
<1>8. /\ all \in Seq(AByte) /\ Len(all) = Len(a) + 8 + Len(m)
      /\ \A i \in 1..(Len(a) + 8) : all[i] = h[i]
      /\ \A i \in 1..Len(m) : all[Len(a) + 8 + i] = m[i]
  BY <1>1, <1>5, <1>6
<1> HIDE DEF all
<1>9. 2 * k + 1 = Len(a) + 3 /\ k \in Nat
  <2>1. Len(a) % 2 = 0
    BY DEF IsAddresses
  <2> QED
    BY <1>5, <2>1
<1> HIDE DEF k
<1>10. k \in Terms(all)
  BY <1>1, <1>5, <1>8, <1>9 DEF Terms
<1>11. all[2 * k + 1] = hi /\ Low(all, k) = lo
  <2>1. 2 * k + 2 = Len(a) + 4 /\ 2 * k + 2 <= Len(all)
    BY <1>1, <1>5, <1>8, <1>9
  <2>2. Len(a) + 3 \in 1..(Len(a) + 8) /\ Len(a) + 4 \in 1..(Len(a) + 8)
    BY <1>5
  <2> QED
    BY <1>6, <1>8, <1>9, <2>1, <2>2 DEF Low
<1>12. Big(all)[k] = Len(m)
  BY <1>2, <1>8, <1>10, <1>11, TermsType
<1>13. Big(all)[k] <= BigSum(all) /\ BigSum(all) \in Nat
  <2> DEFINE S == Terms(all)
             B == Big(all)
  <2>1. IsFiniteSet(S) /\ \A j \in S : B[j] \in Nat
    BY <1>8, TermsType, WordType
  <2> HIDE DEF S, B
  <2>2. SumOf(B, S) \in Nat /\ \A j \in S : B[j] <= SumOf(B, S)
    BY <2>1, SumNat
  <2> QED
    BY <1>10, <2>2 DEF BigSum, S, B
<1>14. BigSum(all) > 0
  BY <1>1, <1>12, <1>13
<1>15. All(a, m) = all
  BY <1>7 DEF All, all
<1> QED
  BY <1>6, <1>7, <1>8, <1>14, <1>15

\* The checksum's own word, in the sums of two messages that differ in it only.
LEMMA FieldChanged ==
    ASSUME NEW a, IsAddresses(a), NEW m, IsMessage(m), NEW n, IsMessage(n),
           Len(n) = Len(m), \A i \in 1..Len(m) : i \notin {3, 4} => n[i] = m[i]
    PROVE  /\ BigSum(All(a, n)) = BigSum(All(a, m)) - (Byte * m[3] + m[4]) + (Byte * n[3] + n[4])
           /\ LittleSum(All(a, n))
                = LittleSum(All(a, m)) - (m[3] + Byte * m[4]) + (n[3] + Byte * n[4])
<1> DEFINE x == All(a, m)
           y == All(a, n)
           l == Len(a) + 8
           k == (Len(a) \div 2) + 5
<1>1. /\ x \in Seq(AByte) /\ y \in Seq(AByte) /\ Len(x) = l + Len(m) /\ Len(y) = Len(x)
      /\ \A i \in 1..l : x[i] = y[i]
      /\ \A i \in 1..Len(m) : x[l + i] = m[i] /\ y[l + i] = n[i]
  <2>1. /\ x \in Seq(AByte) /\ Len(x) = l + Len(m)
        /\ \A i \in 1..l : x[i] = pseudo_hdr(a, Len(m))[i]
        /\ \A i \in 1..Len(m) : x[l + i] = m[i]
    BY AllIs
  <2>2. /\ y \in Seq(AByte) /\ Len(y) = l + Len(n)
        /\ \A i \in 1..l : y[i] = pseudo_hdr(a, Len(n))[i]
        /\ \A i \in 1..Len(n) : y[l + i] = n[i]
    BY AllIs
  <2> HIDE DEF x, y, l
  <2> QED
    BY <2>1, <2>2
<1>2. Len(a) \in Nat /\ Len(m) \in Nat /\ Len(m) >= 4 /\ Len(a) % 2 = 0
  BY DEF IsMessage, IsAddresses
<1>3. l \in Nat /\ 2 * k + 1 = l + 3 /\ k \in Nat
  BY <1>2
<1> HIDE DEF x, y, l, k
<1>4. k \in Terms(x) /\ k \in Terms(y) /\ 2 * k + 2 <= Len(x)
  <2>1. Len(x) \in Nat /\ Len(y) = Len(x) /\ Len(x) = l + Len(m)
    BY <1>1, <1>2, <1>3
  <2>2. 2 * k + 2 <= Len(x)
    BY <1>2, <1>3, <2>1
  <2> QED
    BY <1>3, <2>1, <2>2 DEF Terms
<1>5. ASSUME NEW i \in 1..Len(x), i \notin {2 * k + 1, 2 * k + 2}
      PROVE  y[i] = x[i]
  <2>1. CASE i <= l
    BY <1>1, <1>3, <2>1
  <2>2. CASE i > l
    <3>1. i - l \in 1..Len(m) /\ i - l \notin {3, 4} /\ l + (i - l) = i
      BY <1>1, <1>2, <1>3, <1>5, <2>2
    <3>2. x[l + (i - l)] = m[i - l] /\ y[l + (i - l)] = n[i - l]
      BY <1>1, <3>1
    <3> QED
      BY <3>1, <3>2
  <2> QED
    BY <1>3, <2>1, <2>2
<1>6. /\ BigSum(y) = BigSum(x) - Big(x)[k] + Big(y)[k]
      /\ LittleSum(y) = LittleSum(x) - Little(x)[k] + Little(y)[k]
  BY <1>1, <1>4, <1>5, WordChanged
<1>7. 3 \in 1..Len(m) /\ 4 \in 1..Len(m) /\ 2 * k + 1 = l + 3 /\ 2 * k + 2 = l + 4
  BY <1>2, <1>3
<1>8. x[2 * k + 1] = m[3] /\ Low(x, k) = m[4]
  BY <1>1, <1>4, <1>7 DEF Low
<1>9. y[2 * k + 1] = n[3] /\ Low(y, k) = n[4]
  BY <1>1, <1>4, <1>7 DEF Low
<1>10. Big(x)[k] = Byte * m[3] + m[4] /\ Little(x)[k] = m[3] + Byte * m[4]
  BY <1>1, <1>4, <1>8, TermsType
<1>11. Big(y)[k] = Byte * n[3] + n[4] /\ Little(y)[k] = n[3] + Byte * n[4]
  BY <1>1, <1>4, <1>9, TermsType
<1> QED
  BY <1>6, <1>10, <1>11 DEF x, y

\* The code's sum is the little-endian one.
LEMMA ChecksumIs ==
    ASSUME NEW a, IsAddresses(a), NEW m, IsMessage(m)
    PROVE  LET inverted == MaxWord - Carry(LittleSum(All(a, m)))
           IN icmp6_checksum(a, m) = <<inverted % Byte, inverted \div Byte>>
<1> DEFINE h == pseudo_hdr(a, Len(m))
<1>1. h \in Seq(AByte) /\ Len(h) = Len(a) + 8 /\ m \in Seq(AByte)
  BY AllIs DEF IsMessage
<1>2. Len(h) % 2 = 0
  <2>1. Len(a) \in Nat /\ Len(a) % 2 = 0
    BY DEF IsAddresses
  <2> QED
    BY <1>1, <2>1
<1> HIDE DEF h
<1>3. Words(h) + Odd(h) = LittleSum(h) /\ Words(m) + Odd(m) = LittleSum(m) /\ Odd(h) = 0
  BY <1>1, <1>2, WordsAndOdd DEF Odd
<1>4. LittleSum(h \o m) = LittleSum(h) + LittleSum(m)
  BY <1>1, <1>2, SumOfBoth
<1>5. Words(h) \in Int /\ Words(m) \in Int /\ Odd(m) \in Int
  <2>1. ASSUME NEW b \in Seq(AByte) PROVE Words(b) \in Int /\ Odd(b) \in Int
    <3> DEFINE S == 0..((Len(b) \div 2) - 1)
               L == Little(b)
    <3>1. Words(b) = SumOf(L, S)
      BY WordsAre
    <3>2. Len(b) \in Nat /\ IsFiniteSet(S) /\ S \subseteq Terms(b)
      <4>1. (Len(b) \div 2) - 1 \in Int
        OBVIOUS
      <4> QED
        BY <4>1, FS_Interval DEF Terms
    <3>3. \A k \in S : L[k] \in Int
      BY <3>2, TermsType, WordType
    <3>4. Odd(b) \in Int
      BY <3>2, ByteAssumption DEF Odd, AByte
    <3> HIDE DEF S, L
    <3>5. SumOf(L, S) \in Int
      BY <3>2, <3>3, SumType
    <3> QED
      BY <3>1, <3>4, <3>5
  <2> QED
    BY <1>1, <2>1
<1>6. Words(h) + Words(m) + Odd(m) = LittleSum(h \o m)
  BY <1>3, <1>4, <1>5
<1>7. WordMod - 1 - Carry(LittleSum(h \o m)) = MaxWord - Carry(LittleSum(h \o m))
  BY DEF MaxWord
<1> QED
  BY <1>6, <1>7 DEF icmp6_checksum, All, h

-----------------------------------------------------------------------------
(* What passes.                                                            *)

\* A word as its two bytes.
LEMMA TwoBytesOf ==
    ASSUME NEW n \in 0..MaxWord, NEW x \in AByte, NEW y \in AByte
    PROVE  n % Byte = x /\ n \div Byte = y <=> n = x + Byte * y
<1>1. Byte \in Nat /\ Byte >= 2 /\ n \in Nat
  BY ByteAssumption, WordType
<1> DEFINE q == n \div Byte
           r == n % Byte
<1>2. q \in AByte /\ r \in AByte /\ n = Byte * q + r
  BY LengthBytes
<1> HIDE DEF q, r
<1>3. Byte * q \in Int /\ Byte * y \in Int /\ q \in Int /\ y \in Int
  BY <1>1, <1>2 DEF AByte
<1>4. q >= y + 1 => Byte * q >= Byte * y + Byte
  BY <1>1, <1>3
<1>5. y >= q + 1 => Byte * y >= Byte * q + Byte
  BY <1>1, <1>3
<1>6. ASSUME n = x + Byte * y PROVE q = y
  <2>1. Byte * q + r = x + Byte * y
    BY <1>2, <1>6
  <2> QED
    BY <1>1, <1>2, <1>3, <1>4, <1>5, <2>1 DEF AByte
<1>7. ASSUME n = x + Byte * y PROVE r = x
  <2>1. Byte * q + r = x + Byte * q
    BY <1>2, <1>6, <1>7
  <2> QED
    BY <1>1, <1>2, <1>3, <2>1 DEF AByte
<1>8. ASSUME r = x, q = y PROVE n = x + Byte * y
  BY <1>1, <1>2, <1>3, <1>8 DEF AByte
<1> QED
  BY <1>6, <1>7, <1>8 DEF q, r

\* Verifying is to ask whether the sum, in any order, is 0 modulo MaxWord.
LEMMA VerifiesIs ==
    ASSUME NEW a, IsAddresses(a), NEW m, IsMessage(m)
    PROVE  /\ Verifies(a, m) <=> Congruent(BigSum(All(a, m)), 0)
           /\ Verifies(a, m) <=> Congruent(LittleSum(All(a, m)), 0)
<1> DEFINE all == All(a, m)
           b == BigSum(all)
           l == LittleSum(all)
           r == OnesSum(all)
<1>1. all \in Seq(AByte) /\ b > 0
  BY AllIs
<1>2. b \in Nat /\ l \in Nat /\ Congruent(Byte * l, b)
  <2> HIDE DEF all
  <2> QED
    BY <1>1, OrdersAgree
<1>3. r \in 0..MaxWord /\ Congruent(b, r) /\ (r = 0 <=> b = 0)
  <2> HIDE DEF all
  <2> QED
    BY <1>1, OnesSumIs
<1>4. Verifies(a, m) <=> r = MaxWord
  BY DEF Verifies, All, MaxWord
<1> HIDE DEF all, b, l, r
<1>5. MaxWord \in Nat /\ MaxWord > 0 /\ Byte \in Nat
  BY WordType, ByteAssumption
<1>6. Congruent(MaxWord, 0)
  <2>1. MaxWord = 0 + MaxWord * 1
    BY <1>5
  <2> QED
    BY <2>1 DEF Congruent
<1>7. ASSUME r = MaxWord PROVE Congruent(b, 0)
  <2>1. Congruent(b, MaxWord)
    BY <1>3, <1>7
  <2> QED
    BY <1>2, <1>5, <1>6, <2>1, CongruentTrans
<1>8. ASSUME Congruent(b, 0) PROVE r = MaxWord
  <2>1. r \in Int /\ r >= 1 /\ r <= MaxWord
    BY <1>1, <1>2, <1>3, <1>5
  <2>2. Congruent(0, b) /\ Congruent(0, MaxWord)
    BY <1>2, <1>5, <1>6, <1>8, CongruentSym
  <2>3. Congruent(0, r)
    BY <1>2, <1>3, <2>1, <2>2, CongruentTrans
  <2>4. Congruent(r, 0)
    BY <2>1, <2>3, CongruentSym
  <2>5. Congruent(r, MaxWord)
    BY <1>5, <2>1, <2>2, <2>4, CongruentTrans
  <2>6. r - MaxWord < MaxWord /\ MaxWord - r < MaxWord
    BY <1>5, <2>1
  <2> QED
    BY <1>5, <2>1, <2>5, <2>6, CongruentNear
<1>9. ASSUME Congruent(l, 0) PROVE Congruent(b, 0)
  <2>1. Congruent(Byte * l, Byte * 0) /\ Byte * 0 = 0 /\ Byte * l \in Int
    <3>1. l \in Int /\ Byte \in Int /\ 0 \in Int
      BY <1>2, <1>5
    <3> QED
      BY <1>9, <3>1, CongruentTimes
  <2>2. Congruent(b, Byte * l)
    BY <1>2, <2>1, CongruentSym
  <2> QED
    BY <1>2, <2>1, <2>2, CongruentTrans
<1>10. ASSUME Congruent(b, 0) PROVE Congruent(l, 0)
  <2>1. Byte * l \in Int
    BY <1>2, <1>5
  <2>2. Congruent(Byte * l, 0)
    BY <1>2, <1>10, <2>1, CongruentTrans
  <2>3. Congruent(Byte * (Byte * l), 0)
    <3>1. Byte * 0 = 0
      BY <1>5
    <3>2. Byte \in Int /\ 0 \in Int
      BY <1>5
    <3>3. Congruent(Byte * (Byte * l), Byte * 0)
      BY <2>1, <2>2, <3>2, CongruentTimes
    <3> QED
      BY <3>1, <3>3
  <2>4. Byte * (Byte * l) = l + MaxWord * l
    BY <1>2, <1>5 DEF MaxWord, WordMod
  <2>5. Congruent(Byte * (Byte * l), l)
    <3>1. l \in Int
      BY <1>2
    <3> QED
      BY <2>4, <3>1 DEF Congruent
  <2>6. Byte * (Byte * l) \in Int
    BY <1>5, <2>1
  <2>7. Congruent(l, Byte * (Byte * l))
    BY <1>2, <2>5, <2>6, CongruentSym
  <2> QED
    BY <1>2, <2>3, <2>6, <2>7, CongruentTrans
<1> QED
  BY <1>4, <1>7, <1>8, <1>9, <1>10 DEF all, b, l

Zeroed(m) == [m EXCEPT ![3] = 0, ![4] = 0]

\* A message passes the check of the code just if it verifies and its
\* checksum is not the largest word.
THEOREM PassesIs ==
    ASSUME NEW a, IsAddresses(a), NEW m, IsMessage(m)
    PROVE  icmp6_checksum(a, Zeroed(m)) = <<m[3], m[4]>>
             <=> Verifies(a, m) /\ ~(m[3] = Byte - 1 /\ m[4] = Byte - 1)
<1> DEFINE z == Zeroed(m)
           l == LittleSum(All(a, z))
           s == Carry(l)
           C == m[3] + Byte * m[4]
<1>1. Len(m) \in Nat /\ Len(m) >= 4 /\ m \in Seq(AByte) /\ 0 \in AByte
  BY ByteAssumption DEF IsMessage, AByte
<1>2. m[3] \in AByte /\ m[4] \in AByte
  BY <1>1
<1>3. /\ z \in Seq(AByte) /\ Len(z) = Len(m) /\ z[3] = 0 /\ z[4] = 0
      /\ \A i \in 1..Len(m) : i \notin {3, 4} => m[i] = z[i]
  BY <1>1 DEF Zeroed
<1>4. IsMessage(z)
  BY <1>1, <1>3 DEF IsMessage
<1> HIDE DEF z
<1>5. MaxWord \in Nat /\ MaxWord > 0 /\ Byte \in Nat /\ Byte >= 2
  BY WordType, ByteAssumption
<1>6. l \in Nat /\ l > 0
  <2>1. All(a, z) \in Seq(AByte) /\ BigSum(All(a, z)) > 0
    BY <1>4, AllIs
  <2> QED
    BY <2>1, OrdersAgree
<1> HIDE DEF l
<1>7. s \in 1..MaxWord /\ Congruent(l, s)
  BY <1>5, <1>6, CarryIs
<1>8. C \in 0..MaxWord
  <2>1. Byte * m[4] + m[3] \in 0..MaxWord
    BY <1>2, TwoBytes
  <2>2. Byte * m[4] + m[3] = C
    BY <1>2, <1>5 DEF AByte
  <2> QED
    BY <2>1, <2>2
<1>9. LittleSum(All(a, m)) = l + C
  <2>1. LittleSum(All(a, m)) = LittleSum(All(a, z)) - (z[3] + Byte * z[4]) + (m[3] + Byte * m[4])
    <3>1. Len(m) = Len(z) /\ \A i \in 1..Len(z) : i \notin {3, 4} => m[i] = z[i]
      BY <1>3
    <3> QED
      BY <1>4, <3>1, FieldChanged
  <2>2. z[3] + Byte * z[4] = 0
    BY <1>3, <1>5
  <2>3. LittleSum(All(a, z)) = l /\ m[3] + Byte * m[4] = C
    BY DEF l
  <2> HIDE DEF C
  <2> QED
    BY <1>5, <1>6, <1>8, <2>1, <2>2, <2>3
<1>10. icmp6_checksum(a, z) = <<m[3], m[4]>> <=> s + C = MaxWord
  <2> DEFINE n == MaxWord - s
  <2>1. icmp6_checksum(a, z) = <<n % Byte, n \div Byte>>
    BY <1>4, ChecksumIs DEF l
  <2>2. n \in 0..MaxWord
    BY <1>5, <1>7
  <2> HIDE DEF n
  <2>3. n % Byte = m[3] /\ n \div Byte = m[4] <=> n = C
    BY <1>2, <2>2, TwoBytesOf
  <2> HIDE DEF C, s
  <2>4. n = C <=> s + C = MaxWord
    BY <1>5, <1>7, <1>8 DEF n
  <2> QED
    BY <2>1, <2>3, <2>4
<1>11. m[3] = Byte - 1 /\ m[4] = Byte - 1 <=> C = MaxWord
  <2>1. MaxWord = (Byte - 1) + Byte * (Byte - 1)
    BY <1>5 DEF MaxWord, WordMod
  <2>2. Byte - 1 \in AByte /\ MaxWord \in 0..MaxWord
    BY <1>5 DEF AByte
  <2>3. MaxWord % Byte = Byte - 1 /\ MaxWord \div Byte = Byte - 1
    BY <2>1, <2>2, TwoBytesOf
  <2>4. MaxWord % Byte = m[3] /\ MaxWord \div Byte = m[4] <=> MaxWord = C
    BY <1>2, <2>2, TwoBytesOf
  <2> QED
    BY <2>3, <2>4
<1> HIDE DEF s, C
<1>12. s \in Int /\ C \in Int /\ l \in Int /\ l + C \in Int /\ s + C \in Int
  BY <1>5, <1>6, <1>7, <1>8
<1>13. Congruent(l + C, s + C)
  BY <1>7, <1>12, CongruentAdds, CongruentRefl
<1>14. Congruent(l + C, 0) <=> Congruent(s + C, 0)
  <2>1. Congruent(s + C, l + C)
    BY <1>12, <1>13, CongruentSym
  <2> QED
    BY <1>12, <1>13, <2>1, CongruentTrans
<1>15. Congruent(s + C, 0) <=> s + C = MaxWord \/ s + C = 2 * MaxWord
  <2>1. ASSUME s + C = MaxWord PROVE Congruent(s + C, 0)
    <3>1. s + C = 0 + MaxWord * 1
      BY <1>5, <2>1
    <3> QED
      BY <3>1 DEF Congruent
  <2>2. ASSUME s + C = 2 * MaxWord PROVE Congruent(s + C, 0)
    <3>1. s + C = 0 + MaxWord * 2
      BY <1>5, <2>2
    <3> QED
      BY <3>1 DEF Congruent
  <2>3. ASSUME Congruent(s + C, 0) PROVE s + C = MaxWord \/ s + C = 2 * MaxWord
    <3>1. PICK q \in Int : s + C = 0 + MaxWord * q
      BY <2>3 DEF Congruent
    <3>2. s + C >= 1 /\ s + C <= 2 * MaxWord
      BY <1>5, <1>7, <1>8
    <3>3. q <= 0 => MaxWord * q <= 0
      BY <1>5
    <3>4. q >= 3 => MaxWord * q >= MaxWord * 3
      BY <1>5
    <3>5. q \in {1, 2}
      BY <1>5, <3>1, <3>2, <3>3, <3>4
    <3> QED
      BY <1>5, <3>1, <3>5
  <2> QED
    BY <2>1, <2>2, <2>3
<1>16. Verifies(a, m) <=> s + C = MaxWord \/ s + C = 2 * MaxWord
  BY <1>9, <1>14, <1>15, VerifiesIs
<1>17. s + C = 2 * MaxWord <=> s = MaxWord /\ C = MaxWord
  BY <1>5, <1>7, <1>8
<1>18. s + C = MaxWord => C # MaxWord
  BY <1>5, <1>7, <1>8
<1> QED
  BY <1>5, <1>10, <1>11, <1>12, <1>16, <1>17, <1>18 DEF z

\* What WithSum makes of a message whose checksum is still 0 verifies.
THEOREM WithSumIs ==
    ASSUME NEW a, IsAddresses(a), NEW z, IsMessage(z), z[3] = 0, z[4] = 0
    PROVE  LET m == WithSum(a, z)
           IN /\ IsMessage(m) /\ Len(m) = Len(z)
              /\ \A i \in 1..Len(z) : i \notin {3, 4} => m[i] = z[i]
              /\ Verifies(a, m) /\ ~(m[3] = Byte - 1 /\ m[4] = Byte - 1)
<1> DEFINE all == All(a, z)
           r == OnesSum(all)
           b == BigSum(all)
           n == MaxWord - r
           hi == n \div Byte
           lo == n % Byte
           m == [z EXCEPT ![3] = hi, ![4] = lo]
<1>1. Len(z) \in Nat /\ Len(z) >= 4 /\ z \in Seq(AByte)
  BY DEF IsMessage
<1>2. MaxWord \in Nat /\ MaxWord > 0 /\ Byte \in Nat /\ Byte >= 2
  BY WordType, ByteAssumption
<1>3. all \in Seq(AByte) /\ b > 0
  BY AllIs
<1>4. r \in 0..MaxWord /\ Congruent(b, r) /\ (r = 0 <=> b = 0) /\ b \in Nat
  <2> HIDE DEF all
  <2> QED
    BY <1>3, OnesSumIs, OrdersAgree
<1>5. WithSum(a, z) = m
  BY DEF WithSum, All, MaxWord
<1> HIDE DEF r, b
<1>6. n \in 0..MaxWord /\ n < MaxWord
  BY <1>2, <1>3, <1>4
<1>7. hi \in AByte /\ lo \in AByte /\ n = Byte * hi + lo
  <2> HIDE DEF n
  <2> QED
    BY <1>6, LengthBytes
<1> HIDE DEF hi, lo
<1>8. /\ m \in Seq(AByte) /\ Len(m) = Len(z) /\ m[3] = hi /\ m[4] = lo
      /\ \A i \in 1..Len(z) : i \notin {3, 4} => m[i] = z[i]
  BY <1>1, <1>7
<1> HIDE DEF m
<1>9. IsMessage(m)
  BY <1>8 DEF IsMessage
<1>10. BigSum(All(a, m)) = b + n
  <2>1. BigSum(All(a, m)) = BigSum(All(a, z)) - (Byte * z[3] + z[4]) + (Byte * m[3] + m[4])
    BY <1>8, <1>9, FieldChanged
  <2>2. Byte * z[3] + z[4] = 0
    BY <1>2
  <2>3. Byte * m[3] + m[4] = n
    BY <1>7, <1>8
  <2>4. b \in Int /\ n \in Int
    BY <1>2, <1>4, <1>6
  <2> HIDE DEF n
  <2> QED
    BY <2>1, <2>2, <2>3, <2>4 DEF b
<1>11. Congruent(b + n, 0)
  <2>1. b \in Int /\ r \in Int /\ n \in Int /\ r + n = MaxWord
    BY <1>2, <1>4
  <2>2. Congruent(n, n)
    BY <2>1, CongruentRefl
  <2> HIDE DEF n
  <2>3. Congruent(b + n, r + n)
    BY <1>4, <2>1, <2>2, CongruentAdds
  <2>4. MaxWord = 0 + MaxWord * 1
    BY <1>2
  <2>5. Congruent(MaxWord, 0)
    BY <2>4 DEF Congruent
  <2>6. b + n \in Int
    BY <2>1
  <2> QED
    BY <1>2, <2>1, <2>3, <2>5, <2>6, CongruentTrans
<1>12. Verifies(a, m)
  BY <1>9, <1>10, <1>11, VerifiesIs
<1>13. ~(m[3] = Byte - 1 /\ m[4] = Byte - 1)
  <2> SUFFICES ASSUME hi = Byte - 1, lo = Byte - 1 PROVE FALSE
    BY <1>8
  <2>1. MaxWord = Byte * (Byte - 1) + (Byte - 1)
    BY <1>2 DEF MaxWord, WordMod
  <2>2. n = MaxWord
    BY <1>7, <2>1
  <2> QED
    BY <1>2, <1>6, <2>2
<1> QED
  BY <1>5, <1>8, <1>9, <1>12, <1>13

\* Another byte changes the sum, and by less than MaxWord.
LEMMA ByteChanged ==
    ASSUME NEW all \in Seq(AByte), NEW j \in 1..Len(all), NEW v \in AByte, v # all[j]
    PROVE  LET d == BigSum([all EXCEPT ![j] = v]) - BigSum(all)
           IN d \in Int /\ d # 0 /\ d < MaxWord /\ -d < MaxWord
<1> DEFINE other == [all EXCEPT ![j] = v]
           k == (j - 1) \div 2
           old == all[j]
<1>1. /\ other \in Seq(AByte) /\ Len(other) = Len(all) /\ other[j] = v /\ Len(all) \in Nat
      /\ \A i \in 1..Len(all) : i # j => other[i] = all[i]
  OBVIOUS
<1> HIDE DEF other
<1>2. j \in Nat /\ k \in Nat /\ (j = 2 * k + 1 \/ j = 2 * k + 2)
  BY <1>1
<1> HIDE DEF k
<1>3. k \in Terms(all) /\ k \in Terms(other)
  BY <1>1, <1>2 DEF Terms
<1>4. BigSum(other) = BigSum(all) - Big(all)[k] + Big(other)[k]
  BY <1>1, <1>2, <1>3, WordChanged
<1>5. /\ Big(all)[k] = Byte * all[2 * k + 1] + Low(all, k)
      /\ Big(other)[k] = Byte * other[2 * k + 1] + Low(other, k)
      /\ Low(all, k) \in AByte /\ all[2 * k + 1] \in AByte
      /\ Low(other, k) \in AByte /\ other[2 * k + 1] \in AByte
  BY <1>1, <1>3, TermsType
<1>6. BigSum(all) \in Int
  BY OrdersAgree
<1>7. Byte \in Nat /\ Byte >= 2 /\ old \in AByte
  BY ByteAssumption
<1>8. MaxWord = Byte * Byte - 1 /\ MaxWord \in Nat /\ Byte * Byte >= 2 * Byte
  BY <1>7, WordType DEF MaxWord, WordMod
<1> HIDE DEF old
<1>9. CASE j = 2 * k + 1
  <2>1. other[2 * k + 1] = v /\ all[2 * k + 1] = old
    BY <1>1, <1>9 DEF old
  <2>2. Low(other, k) = Low(all, k)
    <3>1. 2 * k + 2 <= Len(all) => 2 * k + 2 \in 1..Len(all) /\ 2 * k + 2 # j
      BY <1>1, <1>2, <1>9
    <3> QED
      BY <1>1, <3>1 DEF Low
  <2> DEFINE d == v - old
             y == Low(all, k)
  <2>3. d \in Int /\ d # 0 /\ d <= Byte - 1 /\ -d <= Byte - 1
    BY <1>7 DEF old, AByte
  <2>4. Big(other)[k] - Big(all)[k] = Byte * d
    <3>1. Byte * v = Byte * old + Byte * d /\ Byte * old \in Int /\ Byte * d \in Int
      BY <1>7 DEF AByte
    <3>2. y \in Int
      BY <1>5 DEF AByte
    <3> HIDE DEF d, y
    <3>3. Big(other)[k] = Byte * v + y /\ Big(all)[k] = Byte * old + y
      BY <1>5, <2>1, <2>2 DEF y
    <3> QED
      BY <3>1, <3>2, <3>3
  <2>5. Byte * d \in Int /\ Byte * d # 0 /\ Byte * d < MaxWord /\ -(Byte * d) < MaxWord
    <3> HIDE DEF d
    <3>1. d >= 1 => Byte * d >= Byte
      BY <1>7, <2>3
    <3>2. d <= -1 => Byte * d <= -Byte
      BY <1>7, <2>3
    <3>3. Byte * d <= Byte * (Byte - 1) /\ Byte * (-d) <= Byte * (Byte - 1)
      <4>1. Byte * d <= Byte * (Byte - 1)
        BY <1>7, <2>3
      <4>2. -d \in Int /\ Byte * (-d) <= Byte * (Byte - 1)
        BY <1>7, <2>3
      <4> QED
        BY <4>1, <4>2
    <3>4. Byte * (Byte - 1) = Byte * Byte - Byte /\ Byte * (-d) = -(Byte * d)
      BY <1>7, <2>3
    <3>5. Byte * d \in Int
      BY <1>7, <2>3
    <3> QED
      BY <1>7, <1>8, <2>3, <3>1, <3>2, <3>3, <3>4, <3>5
  <2>6. Big(all)[k] \in Int /\ Big(other)[k] \in Int
    BY <1>1, <1>3, <1>8, TermsType
  <2> HIDE DEF d, y
  <2>7. BigSum(other) - BigSum(all) = Byte * d
    BY <1>4, <1>6, <2>4, <2>5, <2>6
  <2> QED
    BY <2>5, <2>7 DEF other
<1>10. CASE j = 2 * k + 2
  <2>1. Low(other, k) = v /\ Low(all, k) = old
    BY <1>1, <1>10 DEF Low, old
  <2>2. other[2 * k + 1] = all[2 * k + 1]
    <3>1. 2 * k + 1 \in 1..Len(all) /\ 2 * k + 1 # j
      BY <1>1, <1>2, <1>10
    <3> QED
      BY <1>1, <3>1
  <2>3. Big(all)[k] \in Int /\ Big(other)[k] \in Int
    BY <1>1, <1>3, <1>8, TermsType
  <2>4. Big(other)[k] - Big(all)[k] = v - old
    <3> DEFINE x == Byte * all[2 * k + 1]
    <3>1. x \in Int /\ v \in Int /\ old \in Int
      BY <1>5, <1>7 DEF AByte
    <3>2. Big(other)[k] = x + v /\ Big(all)[k] = x + old
      BY <1>5, <2>1, <2>2
    <3> HIDE DEF x
    <3> QED
      BY <3>1, <3>2
  <2>5. v \in Int /\ old \in Int /\ v # old /\ v - old <= Byte - 1 /\ old - v <= Byte - 1
    BY <1>7 DEF old, AByte
  <2>6. BigSum(other) - BigSum(all) = v - old
    BY <1>4, <1>6, <2>3, <2>4, <2>5
  <2> QED
    BY <1>7, <1>8, <2>5, <2>6 DEF other
<1> QED
  BY <1>2, <1>9, <1>10

\* Of two messages that differ in one byte at most one verifies.
THEOREM OneByteOff ==
    ASSUME NEW a, IsAddresses(a), NEW m, IsMessage(m), Verifies(a, m),
           NEW i \in 1..Len(m), NEW v \in AByte, v # m[i]
    PROVE  IsMessage([m EXCEPT ![i] = v]) /\ ~Verifies(a, [m EXCEPT ![i] = v])
<1> DEFINE n == [m EXCEPT ![i] = v]
           x == All(a, m)
           j == Len(a) + 8 + i
           h == pseudo_hdr(a, Len(m))
<1>1. m \in Seq(AByte) /\ Len(m) \in Nat /\ Len(a) \in Nat
  BY DEF IsMessage, IsAddresses
<1>2. /\ n \in Seq(AByte) /\ Len(n) = Len(m) /\ n[i] = v
      /\ \A k \in 1..Len(m) : k # i => n[k] = m[k]
  BY <1>1
<1> HIDE DEF n
<1>3. IsMessage(n)
  BY <1>2 DEF IsMessage
<1>4. /\ x \in Seq(AByte) /\ Len(x) = Len(a) + 8 + Len(m)
      /\ \A k \in 1..(Len(a) + 8) : x[k] = h[k]
      /\ \A k \in 1..Len(m) : x[Len(a) + 8 + k] = m[k]
  BY AllIs
<1>5. /\ All(a, n) \in Seq(AByte) /\ Len(All(a, n)) = Len(x)
      /\ \A k \in 1..(Len(a) + 8) : All(a, n)[k] = h[k]
      /\ \A k \in 1..Len(m) : All(a, n)[Len(a) + 8 + k] = n[k]
  BY <1>2, <1>3, <1>4, AllIs
<1> HIDE DEF x, h
<1>6. j \in 1..Len(x) /\ x[j] = m[i] /\ v # x[j]
  BY <1>1, <1>4
<1>7. All(a, n) = [x EXCEPT ![j] = v]
  <2>1. ASSUME NEW k \in 1..Len(x) PROVE All(a, n)[k] = [x EXCEPT ![j] = v][k]
    <3>1. CASE k <= Len(a) + 8
      <4>1. k \in 1..(Len(a) + 8) /\ k # j
        BY <1>1, <3>1
      <4> QED
        BY <1>4, <1>5, <4>1
    <3>2. CASE k > Len(a) + 8
      <4> DEFINE l == k - (Len(a) + 8)
      <4>1. l \in 1..Len(m) /\ Len(a) + 8 + l = k /\ (l = i <=> k = j)
        <5>1. Len(x) = Len(a) + 8 + Len(m) /\ k \in Nat /\ k <= Len(x) /\ i \in Nat
          BY <1>1, <1>4
        <5> QED
          BY <1>1, <3>2, <5>1
      <4>2. All(a, n)[k] = n[l] /\ x[k] = m[l]
        BY <1>4, <1>5, <4>1
      <4> HIDE DEF l
      <4> QED
        BY <1>2, <1>4, <4>1, <4>2
    <3> QED
      BY <1>1, <3>1, <3>2
  <2> QED
    BY <1>4, <1>5, <2>1
<1> HIDE DEF j
<1>8. ASSUME Verifies(a, n) PROVE FALSE
  <2> DEFINE b == BigSum(x)
             c == BigSum(All(a, n))
  <2>1. b \in Int /\ c \in Int
    BY <1>4, <1>5, OrdersAgree
  <2>2. Congruent(b, 0) /\ Congruent(c, 0)
    BY <1>3, <1>8, VerifiesIs DEF x
  <2>3. c - b \in Int /\ c - b # 0 /\ c - b < MaxWord /\ -(c - b) < MaxWord
    BY <1>4, <1>6, <1>7, ByteChanged
  <2> HIDE DEF b, c
  <2>4. Congruent(0, b)
    BY <2>1, <2>2, CongruentSym
  <2>5. Congruent(c, b)
    BY <2>1, <2>2, <2>4, CongruentTrans
  <2>6. c - b < MaxWord /\ b - c < MaxWord
    BY <2>1, <2>3, WordType
  <2>7. c = b
    BY <2>1, <2>5, <2>6, CongruentNear
  <2> QED
    BY <2>1, <2>3, <2>7
<1> QED
  BY <1>3, <1>8 DEF n

-----------------------------------------------------------------------------
(* Numbers.                                                                *)

\* The sequence number goes on by one, and LastSeq back.
LEMMA NextRemainder ==
    ASSUME NEW n \in Nat, NEW b \in Nat, b > 0
    PROVE  /\ ((n % b) + 1) % b = (n + 1) % b
           /\ (((n + 1) % b) + b - 1) % b = n % b
           /\ n % b \in 0..(b - 1) /\ (n + 1) % b \in 0..(b - 1)
<1> DEFINE r == n % b
           q == n \div b
<1>1. r \in 0..(b - 1) /\ q \in Int /\ n = b * q + r
  OBVIOUS
<1> HIDE DEF r, q
<1>2. b * q \in Int /\ b * (q + 1) = b * q + b
  BY <1>1
<1>3. CASE r + 1 < b
  <2>1. n + 1 = b * q + (r + 1) /\ r + 1 \in 0..(b - 1)
    BY <1>1, <1>2, <1>3
  <2>2. (n + 1) % b = r + 1
    BY <1>1, <2>1, DivModUnique
  <2>3. r + 1 = b * 0 + (r + 1) /\ r + 1 + b - 1 = b * 1 + r
    BY <1>1
  <2>4. (r + 1) % b = r + 1
    BY <1>1, <2>1, <2>3, DivModUnique
  <2>5. (r + 1 + b - 1) % b = r
    BY <1>1, <2>3, DivModUnique
  <2> QED
    BY <1>1, <2>1, <2>2, <2>4, <2>5 DEF r
<1>4. CASE r + 1 = b
  <2>1. n + 1 = b * (q + 1) + 0 /\ 0 \in 0..(b - 1) /\ q + 1 \in Int
    BY <1>1, <1>2, <1>4
  <2>2. (n + 1) % b = 0
    BY <1>1, <2>1, DivModUnique
  <2>3. r + 1 = b * 1 + 0 /\ 0 + b - 1 = b * 0 + r
    BY <1>1, <1>4
  <2>4. (r + 1) % b = 0
    BY <1>1, <2>1, <2>3, DivModUnique
  <2>5. (0 + b - 1) % b = r
    BY <1>1, <2>3, DivModUnique
  <2> QED
    BY <1>1, <2>1, <2>2, <2>4, <2>5 DEF r
<1> QED
  BY <1>1, <1>3, <1>4

-----------------------------------------------------------------------------
(* Frames.                                                                 *)

LEMMA Sizes ==
    /\ Byte \in Nat /\ Byte >= 3 /\ WordMod \in Nat /\ WordMod >= 9
    /\ Bytes = AByte /\ MaxWord = WordMod - 1 /\ 0 \in Bytes
    /\ SeqMod \in 1..WordMod /\ Attempts \in Nat /\ HopLimit \in Nat /\ Timeout \in Nat
    /\ HopMod \in Nat \ {0} /\ Modulus \in Nat /\ Timeout < Modulus /\ Distances \subseteq Nat \ {0}
<1>1. Byte \in Nat /\ Byte >= 2
  BY ByteAssumption
<1>2. Byte # 2
  BY <1>1, TypesAssumption DEF Bytes
<1>3. Byte \in Nat /\ Byte >= 3
  BY <1>1, <1>2
<1>4. Byte * Byte \in Nat /\ Byte * Byte >= 9
  BY <1>3
<1> QED
  BY <1>3, <1>4, ArgumentsAssumption DEF Bytes, AByte, WordMod, MaxWord

LEMMA AddressesAre ==
    /\ IsAddresses(Outbound)
    /\ \A host \in DOMAIN Address : IsAddresses(From(host))
<1>1. ASSUME NEW x \in DOMAIN Address, NEW y \in DOMAIN Address
      PROVE  IsAddresses(Address[x] \o Address[y])
  <2> DEFINE a == Address[x]
             b == Address[y]
  <2>1. a \in Seq(AByte) /\ b \in Seq(AByte) /\ Len(a) % 2 = 0 /\ Len(b) % 2 = 0
    BY AddressAssumption, Sizes
  <2> HIDE DEF a, b
  <2>2. Len(a \o b) = Len(a) + Len(b) /\ Len(a) \in Nat /\ Len(b) \in Nat /\ a \o b \in Seq(AByte)
    BY <2>1
  <2>3. (Len(a) + Len(b)) % 2 = 0
    BY <2>1, <2>2
  <2> QED
    BY <2>2, <2>3 DEF IsAddresses, a, b
<1> QED
  BY <1>1, AddressAssumption DEF From, Outbound

LEMMA MessagesAre ==
    ASSUME NEW m
    PROVE  m \in Messages <=> IsMessage(m) /\ Len(m) >= 8
BY Sizes DEF Messages, IsMessage

LEMMA FramesAre ==
    ASSUME NEW f \in Frame
    PROVE  /\ f.src \in DOMAIN Address /\ f.src # "*" /\ IsAddresses(From(f.src))
           /\ IsMessage(f.icmp) /\ Len(f.icmp) >= 8 /\ f.icmp \in Seq(Bytes)
           /\ TypeOf(f) \in Bytes /\ SeqOf(f) \in 0..(WordMod - 1)
<1>1. f.src \in DOMAIN Address /\ f.icmp \in Messages
  BY DEF Frame
<1>2. IsMessage(f.icmp) /\ Len(f.icmp) >= 8 /\ f.icmp \in Seq(Bytes)
  BY <1>1, MessagesAre DEF Messages
<1>3. f.icmp[1] \in Bytes /\ f.icmp[7] \in AByte /\ f.icmp[8] \in AByte
  BY <1>2, Sizes
<1> QED
  BY <1>1, <1>2, <1>3, AddressesAre, AddressAssumption, TwoBytes, Sizes DEF TypeOf, SeqOf

\* The code's check, for a frame of any host.
LEMMA CheckIs ==
    ASSUME NEW f \in Frame
    PROVE  checkIcmpProperties(f) <=> Intact(f) /\ ~AllOnes(f)
<1>1. IsAddresses(From(f.src)) /\ IsMessage(f.icmp)
  BY FramesAre
<1> QED
  BY <1>1, PassesIs DEF checkIcmpProperties, Intact, AllOnes, Zeroed

\* Only an echo reply to this trace or to one of its kind is taken for an
\* answer: the other handlers refuse every code.
LEMMA Accepted ==
    ASSUME NEW f \in Frame, ~Spins(f), ~Throws(f), checkMessage(f)
    PROVE  /\ TypeOf(f) = icmpEchoRep
           /\ f \in Foreign => OfTwin(f)
<1>1. ~handleIcmpTimeEx(f) /\ ~handleIcmpDestUnreach(f)
  BY DEF handleIcmpTimeEx, handleIcmpDestUnreach
<1>2. TypeOf(f) = icmpEchoRep /\ Id(f) = <<icmpID, 0>>
  BY <1>1 DEF checkMessage, handleIcmpEchoRep
<1>3. Intact(f)
  BY CheckIs DEF checkMessage
<1>4. f.quirks = {}
  <2>1. f.quirks \subseteq {"class", "other", "udp", "extension", "endless"}
    BY DEF Frame
  <2>2. "class" \notin f.quirks /\ "other" \notin f.quirks /\ "udp" \notin f.quirks
    BY DEF checkMessage, IsForMe
  <2>3. "endless" \notin f.quirks
    BY DEF Spins, checkMessage
  <2>4. "extension" \notin f.quirks
    BY <2>2 DEF Throws, checkMessage
  <2> QED
    BY <2>1, <2>2, <2>3, <2>4
<1> QED
  BY <1>2, <1>3, <1>4 DEF OfTwin

\* An answer to a probe is a frame that is intact; an echo reply comes from the
\* destination, when the hop limit was enough.
LEMMA AnswersAre ==
    ASSUME NEW hopLimit \in Int, NEW seq \in 0..(WordMod - 1), NEW f \in AnswersTo(hopLimit, seq)
    PROVE  /\ f \in Frame /\ Intact(f) /\ ~AllOnes(f)
           /\ TypeOf(f) = icmpEchoRep => f.src = "dst" /\ ~(hopLimit < distance)
<1>1. ASSUME NEW host \in DOMAIN Address, NEW rest \in Seq(Bytes), Len(rest) = 4,
             NEW type \in Bytes, NEW code \in Bytes
      PROVE  LET g == [src |-> host, quirks |-> {},
                       icmp |-> WithSum(From(host), <<type, code, 0, 0>> \o rest)]
             IN g \in Frame /\ Intact(g) /\ ~AllOnes(g) /\ TypeOf(g) = type
  <2> DEFINE head == <<type, code, 0, 0>>
             z == head \o rest
             m == WithSum(From(host), z)
             g == [src |-> host, quirks |-> {}, icmp |-> m]
  <2>1. head \in Seq(Bytes) /\ Len(head) = 4 /\ head[1] = type /\ head[3] = 0 /\ head[4] = 0
    BY Sizes
  <2> HIDE DEF head
  <2>2. z \in Seq(Bytes) /\ Len(z) = 8 /\ z[1] = type /\ z[3] = 0 /\ z[4] = 0
    <3>1. head \in Seq(Bytes) /\ rest \in Seq(Bytes)
      BY <2>1
    <3>2. /\ z \in Seq(Bytes) /\ Len(z) = Len(head) + Len(rest)
          /\ \A k \in 1..Len(head) : z[k] = head[k]
      BY <3>1
    <3> QED
      BY <1>1, <2>1, <3>2
  <2> HIDE DEF z
  <2>3. IsMessage(z) /\ IsAddresses(From(host))
    BY <2>2, Sizes, AddressesAre DEF IsMessage
  <2>4. /\ IsMessage(m) /\ Len(m) = 8 /\ m[1] = type
        /\ Verifies(From(host), m) /\ ~(m[3] = Byte - 1 /\ m[4] = Byte - 1)
    <3>1. 1 \in 1..Len(z) /\ 1 \notin {3, 4}
      BY <2>2
    <3> QED
      BY <2>2, <2>3, <3>1, WithSumIs
  <2> HIDE DEF m
  <2>5. m \in Messages
    <3>1. IsMessage(m) /\ Len(m) >= 8
      BY <2>4
    <3> QED
      BY <3>1, MessagesAre
  <2>6. g \in Frame
    BY <2>5 DEF Frame
  <2>7. Intact(g) /\ ~AllOnes(g) /\ TypeOf(g) = type
    BY <2>4 DEF Intact, AllOnes, TypeOf
  <2> QED
    BY <2>6, <2>7 DEF z, m, head
<1>2. {"dst", "router"} \subseteq DOMAIN Address
  BY AddressAssumption
<1>3. seq \div Byte \in Bytes /\ seq % Byte \in Bytes
  BY LengthBytes, Sizes
<1>4. 0 \in Bytes /\ 4 \in Bytes /\ icmpID \in Bytes /\ icmpTimeEx \in Bytes /\ icmpEchoRep \in Bytes
      /\ icmpDestUnreach \in Bytes
  BY TypesAssumption, Sizes
<1> DEFINE zeros == <<0, 0, 0, 0>>
           echo == <<icmpID, 0, seq \div Byte, seq % Byte>>
           answer(host, type, code, rest) ==
             [src |-> host, quirks |-> {},
              icmp |-> WithSum(From(host), <<type, code, 0, 0>> \o rest)]
<1>5. zeros \in Seq(Bytes) /\ Len(zeros) = 4 /\ echo \in Seq(Bytes) /\ Len(echo) = 4
  BY <1>3, <1>4
<1>6. \/ hopLimit < distance /\ f = answer("router", icmpTimeEx, 0, zeros)
      \/ ~(hopLimit < distance) /\ f = answer("dst", icmpEchoRep, 0, echo)
      \/ ~(hopLimit < distance) /\ f = answer("dst", icmpDestUnreach, 4, zeros)
  BY DEF AnswersTo
<1> HIDE DEF zeros, echo
<1>7. CASE f = answer("router", icmpTimeEx, 0, zeros)
  <2>1. f \in Frame /\ Intact(f) /\ ~AllOnes(f) /\ TypeOf(f) = icmpTimeEx
    BY <1>1, <1>2, <1>4, <1>5, <1>7
  <2> QED
    BY <2>1, TypesAssumption
<1>8. CASE ~(hopLimit < distance) /\ f = answer("dst", icmpEchoRep, 0, echo)
  <2>1. f \in Frame /\ Intact(f) /\ ~AllOnes(f)
    BY <1>1, <1>2, <1>4, <1>5, <1>8
  <2>2. f.src = "dst"
    BY <1>8
  <2> QED
    BY <1>8, <2>1, <2>2
<1>9. CASE f = answer("dst", icmpDestUnreach, 4, zeros)
  <2>1. f \in Frame /\ Intact(f) /\ ~AllOnes(f) /\ TypeOf(f) = icmpDestUnreach
    BY <1>1, <1>2, <1>4, <1>5, <1>9
  <2> QED
    BY <2>1, TypesAssumption
<1> QED
  BY <1>6, <1>7, <1>8, <1>9

-----------------------------------------------------------------------------
(* The inductive invariant.                                                *)

Printed == Len(output)

\* Where the loops are, the number of results says, and the sequence number too.
Position ==
    /\ at \in {"open", "line", "closed"} => Printed = (hops - 1) * Attempts
    /\ at \in {"probe", "wait"} =>
         /\ hops <= HopLimit /\ attempt <= Attempts
         /\ Printed = (hops - 1) * Attempts + (attempt - 1)
    /\ at \in {"open", "line", "probe"} => sequenceNumber = Printed % SeqMod
    /\ at = "wait" => sequenceNumber = (Printed + 1) % SeqMod

\* Each result is where it belongs.
InOrder ==
    \A k \in DOMAIN output :
      /\ output[k].of = (k - 1) % SeqMod
      /\ output[k].line = ((k - 1) \div Attempts) + 1

\* A host is printed for a reply and for nothing else.
RepliesOnly ==
    \A k \in DOMAIN output :
      /\ output[k].kind \in {"reply", "silence"}
      /\ output[k].kind = "reply" <=> output[k].host # "*"

\* A host stops the probes after its line.
Stopping ==
    /\ stopProbes <=> Hosts # {}
    /\ at = "open" => hops = 1 /\ Hosts = {}
    /\ at \in {"probe", "wait"} => \A k \in Hosts : output[k].line = hops
    /\ at \in {"line", "closed"} => \A k \in Hosts : output[k].line = hops - 1
    /\ \A k \in Hosts : output[k].line = output[Printed].line
    /\ at = "closed" => stopProbes \/ hops > HopLimit

\* The answers under way are intact, and a reply is one of the destination,
\* which the hop limit has already reached.
AnswersFit ==
    \A f \in answers :
      /\ Intact(f) /\ ~AllOnes(f)
      /\ TypeOf(f) = icmpEchoRep => f.src = "dst" /\ distance < HopMod /\ distance <= hops

\* As long as all answers came in time, the hops do not pass the destination.
Approaching ==
    onTime /\ Attempts > 0 =>
        IF distance >= HopMod THEN Hosts = {}
        ELSE /\ at \in {"open", "probe", "wait"} => hops <= distance
             /\ at \in {"line", "closed"} =>
                  hops <= distance \/ (stopProbes /\ hops = distance + 1)
             /\ \A k \in DOMAIN output :
                  output[k].host = IF output[k].line = distance THEN "dst" ELSE "*"

ResultType ==
    [ line : 1..HopLimit, host : DOMAIN Address \cup {"*"},
      kind : {"reply", "refused", "exceeded", "silence"},
      seq : 0..(WordMod - 1), of : 0..(SeqMod - 1) ]

\* The probe that is waited for is the next one that gets a result.
LEMMA Waiting ==
    ASSUME TypeOK, Position, at = "wait"
    PROVE  /\ Printed \in Nat /\ hops \in 1..HopLimit /\ attempt \in 1..Attempts /\ Attempts > 0
           /\ LastSeq = Printed % SeqMod /\ LastSeq \in 0..(SeqMod - 1)
           /\ (Printed \div Attempts) + 1 = hops
<1>1. output \in Seq(ResultType)
  BY DEF TypeOK, ResultType
<1>2. Printed \in Nat
  BY <1>1 DEF Printed
<1>3. hops \in 1..HopLimit /\ attempt \in 1..Attempts /\ Attempts \in Nat /\ HopLimit \in Nat
  BY Sizes DEF TypeOK, Position
<1>4. Printed = (hops - 1) * Attempts + (attempt - 1) /\ sequenceNumber = (Printed + 1) % SeqMod
  BY DEF Position
<1> HIDE DEF Printed
<1>5. SeqMod \in Nat /\ SeqMod > 0
  BY Sizes
<1>6. LastSeq = Printed % SeqMod /\ LastSeq \in 0..(SeqMod - 1)
  BY <1>2, <1>4, <1>5, NextRemainder DEF LastSeq
<1>7. Printed = Attempts * (hops - 1) + (attempt - 1) /\ attempt - 1 \in 0..(Attempts - 1)
      /\ hops - 1 \in Int /\ Attempts > 0
  BY <1>3, <1>4
<1>8. Printed \div Attempts = hops - 1
  BY <1>2, <1>3, <1>7, DivModUnique
<1> QED
  BY <1>2, <1>3, <1>6, <1>7, <1>8

\* What comes of a result for the probe.
LEMMA Finishing ==
    ASSUME TypeOK, Position, InOrder, Stopping, at = "wait",
           NEW result \in ResultType, result.line = hops, result.of = LastSeq,
           NEW stop \in BOOLEAN, result.host # "*" <=> stop,
           FinishAttempt(result, stop), sequenceNumber' = sequenceNumber
    PROVE  /\ output' \in Seq(ResultType) /\ hops' \in 1..(HopLimit + 1)
           /\ attempt' \in 1..(Attempts + 1) /\ stopProbes' \in BOOLEAN /\ at' \in {"probe", "line"}
           /\ DOMAIN output' = DOMAIN output \cup {Printed + 1}
           /\ \A k \in DOMAIN output : output'[k] = output[k] /\ k # Printed + 1
           /\ output'[Printed + 1] = result
           /\ Position' /\ InOrder' /\ Stopping'
<1>1. /\ Printed \in Nat /\ hops \in 1..HopLimit /\ attempt \in 1..Attempts /\ Attempts > 0
      /\ LastSeq = Printed % SeqMod /\ (Printed \div Attempts) + 1 = hops
  BY Waiting
<1>2. output \in Seq(ResultType) /\ DOMAIN output = 1..Printed
  BY DEF TypeOK, ResultType, Printed
<1>3. output' = Append(output, result)
  BY DEF FinishAttempt
<1>4. /\ output' \in Seq(ResultType) /\ Len(output') = Printed + 1 /\ DOMAIN output' = 1..(Printed + 1)
      /\ \A k \in 1..Printed : output'[k] = output[k]
      /\ output'[Printed + 1] = result
  BY <1>2, <1>3 DEF Printed
<1>5. Printed' = Printed + 1
  BY <1>4 DEF Printed
<1> HIDE DEF Printed
<1>6. Attempts \in Nat /\ HopLimit \in Nat
  BY Sizes
<1>7. /\ stopProbes' = (stopProbes \/ stop) /\ attempt' = attempt + 1
      /\ at' = IF attempt < Attempts THEN "probe" ELSE "line"
      /\ hops' = IF attempt < Attempts THEN hops ELSE hops + 1
  BY DEF FinishAttempt
<1>8. DOMAIN output' = DOMAIN output \cup {Printed + 1} /\ \A k \in DOMAIN output : k # Printed + 1
  BY <1>1, <1>2, <1>4
<1>9. stopProbes' \in BOOLEAN
  BY <1>7 DEF TypeOK
<1>10. hops' \in 1..(HopLimit + 1) /\ attempt' \in 1..(Attempts + 1) /\ at' \in {"probe", "line"}
  BY <1>1, <1>6, <1>7
<1>11. Position'
  <2>1. Printed = (hops - 1) * Attempts + (attempt - 1) /\ sequenceNumber = (Printed + 1) % SeqMod
    BY DEF Position
  <2>2. (hops - 1) * Attempts \in Int /\ hops * Attempts = (hops - 1) * Attempts + Attempts
    BY <1>1, <1>6
  <2>3. CASE attempt < Attempts
    <3>1. at' = "probe" /\ hops' <= HopLimit /\ attempt' <= Attempts
      BY <1>1, <1>6, <1>7, <2>3
    <3>2. Printed' = (hops' - 1) * Attempts + (attempt' - 1)
      BY <1>1, <1>5, <1>6, <1>7, <2>1, <2>2, <2>3
    <3>3. sequenceNumber' = Printed' % SeqMod
      BY <1>5, <2>1
    <3> QED
      BY <3>1, <3>2, <3>3 DEF Position
  <2>4. CASE ~(attempt < Attempts)
    <3>1. at' = "line" /\ attempt = Attempts /\ hops' = hops + 1
      BY <1>1, <1>6, <1>7, <2>4
    <3>2. hops' - 1 = hops
      BY <1>1, <3>1
    <3>3. Printed' = (hops' - 1) * Attempts
      BY <1>1, <1>5, <1>6, <2>1, <2>2, <3>1, <3>2
    <3>4. sequenceNumber' = Printed' % SeqMod
      BY <1>5, <2>1
    <3> QED
      BY <3>1, <3>3, <3>4 DEF Position
  <2> QED
    BY <2>3, <2>4
<1>12. InOrder'
  <2> SUFFICES ASSUME NEW k \in 1..(Printed + 1)
               PROVE  output'[k].of = (k - 1) % SeqMod /\ output'[k].line = ((k - 1) \div Attempts) + 1
    BY <1>4 DEF InOrder
  <2>1. CASE k \in 1..Printed
    BY <1>2, <1>4, <2>1 DEF InOrder
  <2>2. CASE k = Printed + 1
    <3>1. k - 1 = Printed
      BY <1>1, <2>2
    <3> QED
      BY <1>1, <1>4, <2>2, <3>1
  <2> QED
    BY <1>1, <2>1, <2>2
<1>13. Stopping'
  <2>1. Hosts' = {k \in DOMAIN output' : output'[k].host # "*"}
    BY DEF Hosts
  <2>2. \A k \in DOMAIN output : k \in Hosts' <=> k \in Hosts
    BY <1>2, <1>4, <1>8, <2>1 DEF Hosts
  <2>3. Printed + 1 \in Hosts' <=> stop
    BY <1>4, <1>8, <2>1
  <2>4. Hosts \subseteq DOMAIN output /\ Hosts' \subseteq DOMAIN output \cup {Printed + 1}
    BY <1>8, <2>1 DEF Hosts
  <2>5. stopProbes' <=> Hosts' # {}
    <3>1. stopProbes <=> Hosts # {}
      BY DEF Stopping
    <3> QED
      BY <1>7, <2>2, <2>3, <2>4, <3>1
  <2>6. \A k \in Hosts' : output'[k].line = hops
    <3> SUFFICES ASSUME NEW k \in Hosts' PROVE output'[k].line = hops
      OBVIOUS
    <3>1. CASE k \in DOMAIN output
      <4>1. k \in Hosts /\ output'[k] = output[k]
        BY <1>2, <1>4, <2>2, <3>1
      <4> QED
        BY <4>1 DEF Stopping
    <3>2. CASE k = Printed + 1
      BY <1>4, <3>2
    <3> QED
      BY <2>4, <3>1, <3>2
  <2>7. output'[Printed'].line = hops
    BY <1>4, <1>5
  <2>8. at' = "probe" => hops' = hops
    BY <1>7
  <2>9. at' = "line" => hops' - 1 = hops
    BY <1>1, <1>7
  <2>10. at' # "open" /\ at' # "wait" /\ at' # "closed"
    BY <1>10
  <2> QED
    BY <2>5, <2>6, <2>7, <2>8, <2>9, <2>10 DEF Stopping
<1> QED
  BY <1>2, <1>4, <1>8, <1>9, <1>10, <1>11, <1>12, <1>13

Inv == TypeOK /\ Position /\ InOrder /\ RepliesOnly /\ Stopping /\ AnswersFit /\ Approaching

LEMMA InvInit == Init => Inv
<1> SUFFICES ASSUME Init PROVE Inv
  OBVIOUS
<1> USE DEF Init
<1>1. output = <<>> /\ DOMAIN output = {} /\ Printed = 0 /\ Hosts = {}
  BY DEF Printed, Hosts
<1>2. TypeOK
  <2>1. /\ 1 \in 1..(HopLimit + 1) /\ 1 \in 1..(Attempts + 1) /\ 0 \in 0..(SeqMod - 1)
        /\ Timeout \in 0..(Modulus - 1)
    BY Sizes
  <2>2. output \in Seq(ResultType)
    BY <1>1
  <2> QED
    BY <2>1, <2>2 DEF TypeOK, ResultType
<1>3. Position
  <2>1. 0 = SeqMod * 0 + 0 /\ 0 \in 0..(SeqMod - 1) /\ SeqMod \in Nat /\ SeqMod > 0
    BY Sizes
  <2>2. 0 % SeqMod = 0
    BY <2>1, DivModUnique
  <2> QED
    BY <1>1, <2>2, Sizes DEF Position
<1>4. InOrder
  BY <1>1 DEF InOrder
<1>5. Stopping /\ RepliesOnly
  BY <1>1 DEF Stopping, RepliesOnly
<1>6. AnswersFit
  BY DEF AnswersFit
<1>7. Approaching
  <2>1. distance \in Nat /\ distance >= 1
    BY Sizes
  <2> QED
    BY <1>1, <2>1 DEF Approaching
<1> QED
  BY <1>2, <1>3, <1>4, <1>5, <1>6, <1>7 DEF Inv

\* What the steps keep that print nothing and move no hop.
LEMMA NothingPrinted ==
    ASSUME InOrder, RepliesOnly, UNCHANGED <<output, hops, stopProbes>>
    PROVE  Printed' = Printed /\ Hosts' = Hosts /\ InOrder' /\ RepliesOnly'
BY DEF Printed, Hosts, InOrder, RepliesOnly

LEMMA OpenKeeps == ASSUME Inv, Open PROVE Inv'
<1> USE DEF Inv, Open
<1>1. UNCHANGED <<hops, attempt, stopProbes, sequenceNumber, to, ret, late, distance, output, answers, onTime>>
      /\ at = "open" /\ at' \in {"line", "exit"}
  OBVIOUS
<1>2. TypeOK'
  BY <1>1 DEF TypeOK
<1>3. Printed' = Printed /\ Hosts' = Hosts /\ InOrder' /\ RepliesOnly'
  BY <1>1, NothingPrinted
<1>4. Position'
  BY <1>1, <1>3 DEF Position
<1>5. Stopping'
  BY <1>1, <1>3 DEF Stopping
<1>6. AnswersFit'
  BY <1>1 DEF AnswersFit, Intact, AllOnes, TypeOf
<1>7. Approaching'
  BY <1>1, <1>3 DEF Approaching
<1> QED
  BY <1>2, <1>3, <1>4, <1>5, <1>6, <1>7

LEMMA StartLineKeeps == ASSUME Inv, StartLine PROVE Inv'
<1> USE DEF Inv, StartLine
<1>1. UNCHANGED <<stopProbes, sequenceNumber, to, ret, late, distance, output, answers, onTime>>
      /\ at = "line" /\ attempt' = 1 /\ ~stopProbes /\ hops <= HopLimit
  BY DEF MoreHops
<1>2. /\ Attempts > 0 => at' = "probe" /\ hops' = hops
      /\ Attempts = 0 => at' = "line" /\ hops' = hops + 1
      /\ Attempts \in Nat /\ HopLimit \in Nat /\ hops \in 1..HopLimit
  BY <1>1, Sizes DEF TypeOK
<1>3. Hosts = {}
  BY <1>1 DEF Stopping
<1>4. Printed' = Printed /\ Hosts' = Hosts
  BY <1>1 DEF Printed, Hosts
<1>5. TypeOK'
  BY <1>1, <1>2 DEF TypeOK
<1>6. Position'
  <2>1. Printed = (hops - 1) * Attempts /\ sequenceNumber = Printed % SeqMod
    BY <1>1 DEF Position
  <2>2. CASE Attempts > 0
    <3>1. Printed = (hops - 1) * Attempts + (1 - 1)
      BY <1>2, <2>1
    <3> QED
      BY <1>1, <1>2, <1>4, <2>1, <2>2, <3>1 DEF Position
  <2>3. CASE Attempts = 0
    <3>1. (hops - 1) * Attempts = 0 /\ (hops' - 1) * Attempts = 0
      BY <1>2, <2>3
    <3> QED
      BY <1>1, <1>2, <1>4, <2>1, <2>3, <3>1 DEF Position
  <2> QED
    BY <1>2, <2>2, <2>3
<1>7. InOrder' /\ RepliesOnly'
  BY <1>1 DEF InOrder, RepliesOnly
<1>8. Stopping'
  <2>1. at' \in {"probe", "line"}
    BY <1>2
  <2> QED
    BY <1>1, <1>3, <1>4, <2>1 DEF Stopping
<1>9. AnswersFit'
  <2>1. SUFFICES ASSUME NEW f \in answers, TypeOf(f) = icmpEchoRep, f.src = "dst",
                        distance < HopMod /\ distance <= hops
                 PROVE  distance <= hops'
    BY <1>1 DEF AnswersFit, Intact, AllOnes, TypeOf
  <2>2. distance \in Nat
    BY Sizes DEF TypeOK
  <2> QED
    BY <1>2, <2>1, <2>2
<1>10. Approaching'
  <2> SUFFICES ASSUME onTime, Attempts > 0 PROVE Approaching'
    BY <1>1 DEF Approaching
  <2>1. at' = "probe" /\ hops' = hops
    BY <1>2
  <2> QED
    BY <1>1, <1>4, <2>1 DEF Approaching
<1> QED
  BY <1>5, <1>6, <1>7, <1>8, <1>9, <1>10

LEMMA CloseKeeps == ASSUME Inv, Close PROVE Inv'
<1> USE DEF Inv, Close
<1>1. UNCHANGED <<hops, attempt, stopProbes, sequenceNumber, to, ret, late, distance, output, answers, onTime>>
      /\ at = "line" /\ at' = "closed" /\ ~MoreHops
  OBVIOUS
<1>2. TypeOK'
  BY <1>1 DEF TypeOK
<1>3. Printed' = Printed /\ Hosts' = Hosts /\ InOrder' /\ RepliesOnly'
  BY <1>1, NothingPrinted
<1>4. Position'
  BY <1>1, <1>3 DEF Position
<1>5. Stopping'
  <2>1. stopProbes \/ hops > HopLimit
    BY <1>1, Sizes DEF MoreHops, TypeOK
  <2> QED
    BY <1>1, <1>3, <2>1 DEF Stopping
<1>6. AnswersFit'
  BY <1>1 DEF AnswersFit, Intact, AllOnes, TypeOf
<1>7. Approaching'
  BY <1>1, <1>3 DEF Approaching
<1> QED
  BY <1>2, <1>3, <1>4, <1>5, <1>6, <1>7

LEMMA ProbeKeeps == ASSUME Inv, Probe PROVE Inv'
<1> USE DEF Inv, Probe
<1>1. UNCHANGED <<hops, attempt, stopProbes, late, distance, output>>
      /\ at = "probe" /\ at' = "wait" /\ to' = Timeout /\ ret' = R!NoCall
      /\ sequenceNumber' = (sequenceNumber + 1) % SeqMod
  OBVIOUS
<1>2. Printed' = Printed /\ Hosts' = Hosts /\ InOrder' /\ RepliesOnly'
  BY <1>1, NothingPrinted
<1>3. Printed \in Nat
  BY DEF TypeOK, Printed
<1> HIDE DEF Probe
<1>4. sequenceNumber' = (Printed + 1) % SeqMod /\ sequenceNumber' \in 0..(SeqMod - 1)
  <2>1. sequenceNumber = Printed % SeqMod
    BY <1>1 DEF Position
  <2> QED
    <3>1. SeqMod \in Nat /\ SeqMod > 0
      BY Sizes
    <3>2. ((Printed % SeqMod) + 1) % SeqMod = (Printed + 1) % SeqMod
          /\ (Printed + 1) % SeqMod \in 0..(SeqMod - 1)
      BY <1>3, <3>1, NextRemainder
    <3> QED
      BY <1>1, <2>1, <3>2
<1>5. onTime' \in BOOLEAN /\ (onTime' => onTime)
  BY DEF Probe, TypeOK
<1>6. ASSUME NEW f \in answers', f \notin answers
      PROVE  /\ f \in Frame /\ Intact(f) /\ ~AllOnes(f)
             /\ TypeOf(f) = icmpEchoRep => f.src = "dst" /\ ~(hops % HopMod < distance)
  <2>1. f \in AnswersTo(hops % HopMod, sequenceNumber)
    BY <1>6 DEF Probe
  <2>2. sequenceNumber \in 0..(WordMod - 1) /\ hops % HopMod \in Int
    BY Sizes DEF TypeOK
  <2> QED
    BY <2>1, <2>2, AnswersAre
<1>7. TypeOK'
  <2>1. \A f \in answers' : f \in Frame
    BY <1>6 DEF TypeOK
  <2>2. Timeout \in 0..(Modulus - 1)
    BY Sizes
  <2> QED
    BY <1>1, <1>4, <1>5, <2>1, <2>2 DEF TypeOK
<1>8. Position'
  BY <1>1, <1>2, <1>4 DEF Position
<1>9. Stopping'
  BY <1>1, <1>2 DEF Stopping
<1>10. AnswersFit'
  <2>1. ~(hops % HopMod < distance) => distance < HopMod /\ distance <= hops
    <3>1. distance \in Nat /\ HopMod \in Nat /\ HopMod > 0 /\ hops \in Nat
      BY Sizes DEF TypeOK
    <3>2. hops % HopMod < HopMod /\ hops % HopMod <= hops /\ hops % HopMod \in Int
      <4> DEFINE r == hops % HopMod
                 q == hops \div HopMod
      <4>1. r \in 0..(HopMod - 1) /\ q \in Int /\ q >= 0 /\ hops = HopMod * q + r
        BY <3>1
      <4> HIDE DEF r, q
      <4>2. HopMod * q >= 0
        BY <3>1, <4>1
      <4>3. HopMod * q \in Int
        BY <3>1, <4>1
      <4> QED
        BY <3>1, <4>1, <4>2, <4>3 DEF r
    <3> QED
      BY <3>1, <3>2
  <2> SUFFICES ASSUME NEW f \in answers'
               PROVE  /\ Intact(f) /\ ~AllOnes(f)
                      /\ TypeOf(f) = icmpEchoRep =>
                           f.src = "dst" /\ distance < HopMod /\ distance <= hops
    BY <1>1 DEF AnswersFit, Intact, AllOnes, TypeOf
  <2>2. CASE f \in answers
    BY <2>2 DEF AnswersFit
  <2>3. CASE f \notin answers
    BY <1>6, <2>1, <2>3
  <2> QED
    BY <2>2, <2>3
<1>11. Approaching'
  BY <1>1, <1>2, <1>5 DEF Approaching
<1> QED
  BY <1>2, <1>7, <1>8, <1>9, <1>10, <1>11

LEMMA SocketFailsKeeps == ASSUME Inv, SocketFails PROVE Inv'
<1> USE DEF Inv, SocketFails
<1>1. UNCHANGED <<hops, attempt, stopProbes, sequenceNumber, to, ret, late, distance, output, answers, onTime>>
      /\ at' = "exit"
  OBVIOUS
<1>2. TypeOK'
  BY <1>1 DEF TypeOK
<1>3. Printed' = Printed /\ Hosts' = Hosts /\ InOrder' /\ RepliesOnly'
  BY <1>1, NothingPrinted
<1>4. Position'
  BY <1>1 DEF Position
<1>5. Stopping'
  BY <1>1, <1>3 DEF Stopping
<1>6. AnswersFit'
  BY <1>1 DEF AnswersFit, Intact, AllOnes, TypeOf
<1>7. Approaching'
  BY <1>1, <1>3 DEF Approaching
<1> QED
  BY <1>2, <1>3, <1>4, <1>5, <1>6, <1>7

\* What a read leaves of the timeout, whatever it returns.
LEMMA ReadTyped ==
    ASSUME TypeOK, R!Delay, late' => MayBeLate, R!Frame \/ R!Silence
    PROVE  /\ to' \in 0..(Modulus - 1) /\ ret' \in FrameLengths \cup {R!NoCall, 0}
           /\ late' \in BOOLEAN /\ (late' => MayBeLate)
<1>1. late' \in BOOLEAN
  BY DEF TypeOK, R!Delay
<1>2. CASE R!Frame
  BY <1>1, <1>2 DEF R!Frame, R!Left
<1>3. CASE R!Silence
  <2>1. 0 \in 0..(Modulus - 1)
    BY Sizes
  <2> QED
    BY <1>1, <1>3, <2>1 DEF R!Silence
<1> QED
  BY <1>2, <1>3

\* The answers that are left are fit, also for later hops.
LEMMA StillFit ==
    ASSUME TypeOK, AnswersFit, answers' \subseteq answers, distance' = distance,
           hops' \in Int, hops <= hops'
    PROVE  AnswersFit'
<1>1. distance \in Nat /\ hops \in Int
  BY Sizes DEF TypeOK
<1>2. SUFFICES ASSUME NEW f \in answers
               PROVE  /\ Intact(f) /\ ~AllOnes(f)
                      /\ TypeOf(f) = icmpEchoRep =>
                           f.src = "dst" /\ distance < HopMod /\ distance <= hops'
  BY DEF AnswersFit, Intact, AllOnes, TypeOf
<1> QED
  BY <1>1 DEF AnswersFit

\* An attempt that ends keeps the invariant, if its result is one that an
\* approaching trace may have.
LEMMA AttemptKeeps ==
    ASSUME Inv, at = "wait",
           NEW result \in ResultType, result.line = hops, result.of = LastSeq,
           result.kind \in {"reply", "silence"}, result.kind = "reply" <=> result.host # "*",
           NEW stop \in BOOLEAN, result.host # "*" <=> stop,
           FinishAttempt(result, stop), UNCHANGED <<sequenceNumber, distance>>,
           answers' \subseteq answers,
           to' \in 0..(Modulus - 1), ret' \in FrameLengths \cup {R!NoCall, 0},
           late' \in BOOLEAN, late' => MayBeLate,
           onTime' \in BOOLEAN, onTime' => onTime,
           onTime' =>
             IF distance >= HopMod THEN result.host = "*"
             ELSE hops <= distance => result.host = IF hops = distance THEN "dst" ELSE "*"
    PROVE  Inv'
<1> USE DEF Inv
<1>1. /\ output' \in Seq(ResultType) /\ hops' \in 1..(HopLimit + 1)
      /\ attempt' \in 1..(Attempts + 1) /\ stopProbes' \in BOOLEAN /\ at' \in {"probe", "line"}
      /\ DOMAIN output' = DOMAIN output \cup {Printed + 1}
      /\ \A k \in DOMAIN output : output'[k] = output[k] /\ k # Printed + 1
      /\ output'[Printed + 1] = result
      /\ Position' /\ InOrder' /\ Stopping'
  BY Finishing
<1>2. hops \in 1..HopLimit /\ attempt \in 1..Attempts /\ Attempts \in Nat /\ HopLimit \in Nat
      /\ distance \in Nat /\ HopMod \in Nat
  BY Waiting, Sizes DEF TypeOK
<1>3. /\ stopProbes' = (stopProbes \/ stop)
      /\ at' = IF attempt < Attempts THEN "probe" ELSE "line"
      /\ hops' = IF attempt < Attempts THEN hops ELSE hops + 1
  BY DEF FinishAttempt
<1>4. TypeOK'
  BY <1>1 DEF TypeOK, ResultType
<1>5. AnswersFit'
  <2>1. hops' \in Int /\ hops <= hops'
    BY <1>2, <1>3
  <2> QED
    BY <2>1, StillFit
<1>6. Approaching'
  <2> SUFFICES ASSUME onTime', Attempts > 0
               PROVE IF distance >= HopMod THEN Hosts' = {}
                     ELSE /\ at' \in {"open", "probe", "wait"} => hops' <= distance
                          /\ at' \in {"line", "closed"} =>
                               hops' <= distance \/ (stopProbes' /\ hops' = distance + 1)
                          /\ \A k \in DOMAIN output' :
                               output'[k].host = IF output'[k].line = distance THEN "dst" ELSE "*"
    BY DEF Approaching
  <2>1. Hosts' = {k \in DOMAIN output' : output'[k].host # "*"}
    BY DEF Hosts
  <2>2. CASE distance >= HopMod
    <3>1. Hosts = {} /\ result.host = "*"
      BY <2>2 DEF Approaching
    <3>2. \A k \in DOMAIN output' : output'[k].host = "*"
      BY <1>1, <3>1 DEF Hosts
    <3> QED
      BY <2>1, <2>2, <3>2
  <2>3. CASE ~(distance >= HopMod)
    <3>1. hops <= distance
      BY <2>3 DEF Approaching
    <3>2. result.host = IF hops = distance THEN "dst" ELSE "*"
      BY <2>3, <3>1
    <3>3. stop <=> hops = distance
      BY <3>2
    <3>4. \A k \in DOMAIN output' :
            output'[k].host = IF output'[k].line = distance THEN "dst" ELSE "*"
      <4> SUFFICES ASSUME NEW k \in DOMAIN output'
                   PROVE  output'[k].host = IF output'[k].line = distance THEN "dst" ELSE "*"
        OBVIOUS
      <4>1. CASE k \in DOMAIN output
        BY <1>1, <2>3, <4>1 DEF Approaching
      <4>2. CASE k = Printed + 1
        BY <1>1, <3>2, <4>2
      <4> QED
        BY <1>1, <4>1, <4>2
    <3>5. CASE attempt < Attempts
      BY <1>3, <2>3, <3>1, <3>4, <3>5
    <3>6. CASE ~(attempt < Attempts)
      <4>1. at' = "line" /\ hops' = hops + 1
        BY <1>3, <3>6
      <4>2. hops' <= distance \/ (stopProbes' /\ hops' = distance + 1)
        BY <1>2, <1>3, <3>1, <3>3, <4>1
      <4> QED
        BY <2>3, <3>4, <4>1, <4>2
    <3> QED
      BY <3>5, <3>6
  <2> QED
    BY <2>2, <2>3
<1>7. RepliesOnly'
  BY <1>1 DEF RepliesOnly
<1> QED
  BY <1>1, <1>4, <1>5, <1>6, <1>7

LEMMA ReceiveKeeps == ASSUME Inv, Receive PROVE Inv'
<1> USE DEF Inv
<1>1. /\ at = "wait" /\ R!Delay /\ (late' => MayBeLate) /\ R!Frame
      /\ UNCHANGED <<sequenceNumber, distance>>
  BY DEF Receive, ReadTakes
<1>2. PICK f \in answers \cup Foreign :
         /\ answers' \in {answers, answers \ {f}}
         /\ onTime' = (onTime /\ ~OfTwin(f))
         /\ \/ /\ Spins(f) \/ Throws(f)
               /\ at' = IF Spins(f) THEN "spins" ELSE "exit"
               /\ UNCHANGED <<hops, attempt, stopProbes, output>>
            \/ /\ ~Spins(f) /\ ~Throws(f) /\ checkMessage(f)
               /\ FinishAttempt(Result(f.src, SeqOf(f), Kind(f)),
                                TypeOf(f) \in {icmpEchoRep, icmpDestUnreach})
            \/ /\ ~Spins(f) /\ ~Throws(f) /\ ~checkMessage(f)
               /\ UNCHANGED <<at, hops, attempt, stopProbes, output>>
  BY DEF Receive
<1>3. /\ to' \in 0..(Modulus - 1) /\ ret' \in FrameLengths \cup {R!NoCall, 0}
      /\ late' \in BOOLEAN /\ (late' => MayBeLate)
  BY <1>1, ReadTyped
<1>4. f \in Frame
  BY <1>2, ForeignAssumption DEF TypeOK
<1>5. answers' \subseteq answers
  BY <1>2
<1>6. onTime' \in BOOLEAN /\ (onTime' => onTime /\ ~OfTwin(f))
  BY <1>2 DEF TypeOK
<1>7. ASSUME at' \in {at, "spins", "exit"}, UNCHANGED <<hops, attempt, stopProbes, output>>
      PROVE  Inv'
  <2>1. Printed' = Printed /\ Hosts' = Hosts /\ InOrder' /\ RepliesOnly'
    BY <1>7, NothingPrinted
  <2>2. TypeOK'
    <3>1. \A g \in answers' : g \in Frame
      BY <1>5 DEF TypeOK
    <3>2. at' \in {"open", "line", "probe", "wait", "closed", "exit", "spins"}
      BY <1>1, <1>7
    <3> QED
      BY <1>1, <1>3, <1>6, <1>7, <3>1, <3>2 DEF TypeOK
  <2>3. Position'
    BY <1>1, <1>7, <2>1 DEF Position
  <2>4. Stopping'
    BY <1>1, <1>7, <2>1 DEF Stopping
  <2>5. AnswersFit'
    <3>1. hops \in Int
      BY DEF TypeOK
    <3>2. hops' \in Int /\ hops <= hops'
      BY <1>7, <3>1
    <3> QED
      BY <1>1, <1>5, <3>2, StillFit
  <2>6. Approaching'
    BY <1>1, <1>6, <1>7, <2>1 DEF Approaching
  <2> QED
    BY <2>1, <2>2, <2>3, <2>4, <2>5, <2>6
<1>8. CASE Spins(f) \/ Throws(f)
  <2>1. at' \in {"spins", "exit"} /\ UNCHANGED <<hops, attempt, stopProbes, output>>
    BY <1>2, <1>8
  <2> QED
    BY <1>7, <2>1
<1>9. CASE ~Spins(f) /\ ~Throws(f) /\ ~checkMessage(f)
  <2>1. UNCHANGED <<at, hops, attempt, stopProbes, output>>
    BY <1>2, <1>9
  <2> QED
    BY <1>7, <2>1
<1>10. CASE ~Spins(f) /\ ~Throws(f) /\ checkMessage(f)
  <2> DEFINE result == Result(f.src, SeqOf(f), Kind(f))
             stop == TypeOf(f) \in {icmpEchoRep, icmpDestUnreach}
  <2>1. FinishAttempt(result, stop)
    BY <1>2, <1>10
  <2>2. TypeOf(f) = icmpEchoRep /\ (f \in Foreign => OfTwin(f))
    BY <1>4, <1>10, Accepted
  <2>3. stop \in BOOLEAN /\ stop
    BY <2>2
  <2>4. f.src \in DOMAIN Address /\ f.src # "*" /\ SeqOf(f) \in 0..(WordMod - 1)
    BY <1>4, FramesAre
  <2>5. /\ result \in ResultType /\ result.line = hops /\ result.of = LastSeq
        /\ result.host = f.src /\ result.kind = "reply"
    <3>1. hops \in 1..HopLimit /\ LastSeq \in 0..(SeqMod - 1)
      BY <1>1, Waiting
    <3>2. Kind(f) = "reply"
      BY <2>2, TypesAssumption DEF Kind
    <3> QED
      BY <2>4, <3>1, <3>2 DEF Result, ResultType
  <2>6. onTime' => IF distance >= HopMod THEN result.host = "*"
                   ELSE hops <= distance => result.host = IF hops = distance THEN "dst" ELSE "*"
    <3> SUFFICES ASSUME onTime' PROVE f.src = "dst" /\ distance < HopMod /\ distance <= hops
      <4>1. distance \in Nat /\ HopMod \in Nat /\ hops \in Nat
        BY Sizes DEF TypeOK
      <4> QED
        BY <2>5, <4>1
    <3>1. f \in answers
      BY <1>2, <1>6, <2>2
    <3> QED
      BY <2>2, <3>1 DEF AnswersFit
  <2>7. /\ result.host # "*" <=> stop
        /\ result.kind \in {"reply", "silence"} /\ (result.kind = "reply" <=> result.host # "*")
    BY <2>3, <2>4, <2>5
  <2>8. onTime' => onTime
    BY <1>6
  <2> HIDE DEF result, stop
  <2> QED
    BY <1>1, <1>3, <1>5, <1>6, <2>1, <2>3, <2>5, <2>6, <2>7, <2>8, AttemptKeeps
<1> QED
  BY <1>2, <1>8, <1>9, <1>10

LEMMA TimesOutKeeps == ASSUME Inv, TimesOut PROVE Inv'
<1> USE DEF Inv
<1>1. /\ at = "wait" /\ R!Delay /\ (late' => MayBeLate) /\ R!Silence
      /\ onTime' = (onTime /\ hops % HopMod < distance)
      /\ UNCHANGED <<sequenceNumber, distance, answers>>
  BY DEF TimesOut
<1> DEFINE result == Result("*", LastSeq, "silence")
<1>2. FinishAttempt(result, FALSE)
  BY DEF TimesOut
<1>3. /\ to' \in 0..(Modulus - 1) /\ ret' \in FrameLengths \cup {R!NoCall, 0}
      /\ late' \in BOOLEAN /\ (late' => MayBeLate)
  BY <1>1, ReadTyped
<1>4. onTime' \in BOOLEAN /\ (onTime' => onTime /\ hops % HopMod < distance)
  BY <1>1 DEF TypeOK
<1>5. /\ result \in ResultType /\ result.line = hops /\ result.of = LastSeq
      /\ result.host = "*" /\ result.kind = "silence"
  <2>1. hops \in 1..HopLimit /\ LastSeq \in 0..(SeqMod - 1) /\ LastSeq \in 0..(WordMod - 1)
    BY <1>1, Waiting, Sizes
  <2> QED
    BY <2>1 DEF Result, ResultType
<1>6. onTime' => IF distance >= HopMod THEN result.host = "*"
                 ELSE hops <= distance => result.host = IF hops = distance THEN "dst" ELSE "*"
  <2> SUFFICES ASSUME onTime', ~(distance >= HopMod), hops = distance PROVE FALSE
    BY <1>5
  <2>1. HopMod \in Nat /\ hops \in 0..(HopMod - 1)
    BY Sizes DEF TypeOK
  <2>2. hops = HopMod * 0 + hops
    BY <2>1
  <2>3. hops % HopMod = hops
    BY <2>1, <2>2, DivModUnique
  <2> QED
    BY <1>4, <2>1, <2>3
<1>7. /\ FALSE \in BOOLEAN /\ (result.host # "*" <=> FALSE)
      /\ result.kind \in {"reply", "silence"} /\ (result.kind = "reply" <=> result.host # "*")
  BY <1>5
<1>8. answers' \subseteq answers /\ (onTime' => onTime)
  BY <1>1, <1>4
<1> HIDE DEF result
<1> QED
  BY <1>1, <1>2, <1>3, <1>4, <1>5, <1>6, <1>7, <1>8, AttemptKeeps

LEMMA InvNext == ASSUME Inv, [Next]_vars PROVE Inv'
<1>1. CASE UNCHANGED vars
  <2>1. Printed' = Printed /\ Hosts' = Hosts
    BY <1>1 DEF vars, Printed, Hosts
  <2>2. TypeOK'
    BY <1>1 DEF Inv, vars, TypeOK
  <2>3. Position' /\ InOrder' /\ RepliesOnly' /\ Stopping'
    BY <1>1, <2>1 DEF Inv, vars, Position, InOrder, RepliesOnly, Stopping
  <2>4. AnswersFit' /\ Approaching'
    BY <1>1, <2>1 DEF Inv, vars, AnswersFit, Intact, AllOnes, TypeOf, Approaching
  <2> QED
    BY <2>2, <2>3, <2>4 DEF Inv
<1> QED
  BY <1>1, OpenKeeps, StartLineKeeps, CloseKeeps, ProbeKeeps, ReceiveKeeps, TimesOutKeeps,
     SocketFailsKeeps DEF Next

LEMMA Invariant == Spec => []Inv
BY InvInit, InvNext, PTL DEF Spec

-----------------------------------------------------------------------------
(* What follows from the invariant.                                        *)

\* n blocks of b numbers.
LEMMA Blocks ==
    ASSUME NEW n \in Nat, NEW b \in Nat, b > 0
    PROVE  {((k - 1) \div b) + 1 : k \in 1..(n * b)} = 1..n
<1>1. ASSUME NEW k \in 1..(n * b) PROVE ((k - 1) \div b) + 1 \in 1..n
  <2> DEFINE q == (k - 1) \div b
             r == (k - 1) % b
  <2>1. n * b \in Int /\ k - 1 \in Nat /\ k - 1 < n * b
    <3>1. n * b \in Int
      OBVIOUS
    <3> QED
      BY <3>1
  <2>2. q \in Int /\ r \in 0..(b - 1) /\ k - 1 = b * q + r
    BY <2>1
  <2> HIDE DEF q, r
  <2>3. b * q \in Int
    BY <2>2
  <2>4. q >= 0
    <3>1. q <= -1 => b * q <= -b
      BY <2>2
    <3> QED
      BY <2>1, <2>2, <2>3, <3>1
  <2>5. q < n
    <3>1. q >= n => b * q >= n * b
      BY <2>2
    <3> QED
      BY <2>1, <2>2, <2>3, <3>1
  <2> QED
    BY <2>2, <2>4, <2>5 DEF q
<1>2. ASSUME NEW l \in 1..n PROVE \E k \in 1..(n * b) : ((k - 1) \div b) + 1 = l
  <2> DEFINE k == (l - 1) * b + 1
  <2>1. (l - 1) * b \in Int /\ (l - 1) * b >= 0 /\ n * b \in Int
    OBVIOUS
  <2>2. (l - 1) * b <= (n - 1) * b /\ (n - 1) * b = n * b - b
    OBVIOUS
  <2>3. k \in 1..(n * b) /\ k - 1 = b * (l - 1) + 0
    BY <2>1, <2>2
  <2>4. (k - 1) \div b = l - 1
    <3>1. k - 1 \in Int /\ l - 1 \in Int /\ 0 \in 0..(b - 1)
      BY <2>3
    <3> HIDE DEF k
    <3> QED
      BY <2>3, <3>1, DivModUnique
  <2> HIDE DEF k
  <2>5. ((k - 1) \div b) + 1 = l
    BY <2>4
  <2>6. k \in 1..(n * b)
    BY <2>3
  <2> QED
    BY <2>5, <2>6, Zenon
<1> QED
  BY <1>1, <1>2

\* A trace that is closed has finished all lines before the hop it would go on
\* with.
LEMMA ClosedLines ==
    ASSUME Inv, at = "closed"
    PROVE  /\ Printed = (hops - 1) * Attempts /\ hops - 1 \in Nat
           /\ DOMAIN output = 1..Printed /\ Printed \in Nat
           /\ Attempts > 0 => Lines = 1..(hops - 1)
           /\ Attempts = 0 => Lines = {}
<1> USE DEF Inv
<1>1. Printed = (hops - 1) * Attempts /\ hops - 1 \in Nat /\ Attempts \in Nat
  BY Sizes DEF Position, TypeOK
<1>2. DOMAIN output = 1..Printed /\ Printed \in Nat
  BY DEF TypeOK, Printed
<1>3. Lines = {((k - 1) \div Attempts) + 1 : k \in 1..Printed}
  BY <1>2 DEF Lines, InOrder
<1>4. Attempts > 0 => Lines = 1..(hops - 1)
  BY <1>1, <1>3, Blocks
<1>5. Attempts = 0 => Lines = {}
  <2>1. Attempts = 0 => Printed = 0
    BY <1>1
  <2> QED
    BY <1>2, <1>3, <2>1
<1> QED
  BY <1>1, <1>2, <1>4, <1>5

LEMMA InvOneResultPerProbe == Inv => OneResultPerProbe
<1> SUFFICES ASSUME Inv PROVE OneResultPerProbe
  OBVIOUS
<1>1. InOrder
  BY DEF Inv
<1>2. ASSUME at = "closed" PROVE Len(output) = Attempts * Cardinality(Lines)
  <2>1. /\ Printed = (hops - 1) * Attempts /\ hops - 1 \in Nat
        /\ Attempts > 0 => Lines = 1..(hops - 1)
        /\ Attempts = 0 => Lines = {}
    BY <1>2, ClosedLines
  <2>2. CASE Attempts > 0
    <3> DEFINE n == hops - 1
    <3>1. n \in Nat /\ Lines = 1..n /\ Printed = n * Attempts
      BY <2>1, <2>2
    <3> HIDE DEF n
    <3>2. Cardinality(1..n) = n
      BY <3>1, FS_Interval
    <3> QED
      BY <3>1, <3>2, Sizes DEF Printed
  <2>3. CASE Attempts = 0
    <3>1. Printed = 0
      BY <2>1, <2>3
    <3>2. Cardinality(Lines) = 0
      BY <2>1, <2>3, FS_EmptySet
    <3> QED
      BY <2>3, <3>1, <3>2 DEF Printed
  <2> QED
    BY <2>2, <2>3, Sizes
<1> QED
  BY <1>1, <1>2 DEF OneResultPerProbe, InOrder

\* What ends a trace is what names a host.
LEMMA HostsEnd == Inv => Ending = Hosts
BY DEF Inv, RepliesOnly, Ending, Hosts

LEMMA InvStopsAtReply == Inv => StopsAtReply
BY HostsEnd DEF Inv, Stopping, StopsAtReply, Printed

LEMMA InvFindsDestination == Inv => FindsDestination
<1> SUFFICES ASSUME Inv, at = "closed", onTime, Attempts > 0
             PROVE  IF distance > HopLimit \/ distance >= HopMod THEN Hosts = {}
                    ELSE /\ Lines = 1..distance
                         /\ \A k \in DOMAIN output :
                              output[k].host = IF output[k].line = distance THEN "dst" ELSE "*"
  BY HostsEnd DEF FindsDestination
<1> USE DEF Inv
<1>1. distance \in Nat /\ HopMod \in Nat /\ hops \in Nat /\ HopLimit \in Nat
  BY Sizes DEF TypeOK
<1>2. ASSUME NEW k \in DOMAIN output PROVE output[k].line \in 1..HopLimit
  <2>1. output \in Seq(ResultType)
    BY DEF TypeOK, ResultType
  <2>2. output[k] \in ResultType
    BY <2>1
  <2> QED
    BY <2>2 DEF ResultType
<1>3. CASE distance >= HopMod
  BY <1>3 DEF Approaching
<1>4. CASE ~(distance >= HopMod)
  <2>1. \A k \in DOMAIN output :
          output[k].host = IF output[k].line = distance THEN "dst" ELSE "*"
    BY <1>4 DEF Approaching
  <2>2. "dst" # "*"
    OBVIOUS
  <2>3. CASE distance > HopLimit
    <3>1. \A k \in DOMAIN output : output[k].line # distance
      BY <1>1, <1>2, <2>3
    <3> QED
      BY <2>1, <2>3, <3>1 DEF Hosts
  <2>4. CASE ~(distance > HopLimit)
    <3>1. hops = distance + 1
      <4> SUFFICES ASSUME hops <= distance PROVE FALSE
        BY <1>1, <1>4 DEF Approaching
      <4>1. stopProbes
        BY <1>1, <2>4 DEF Stopping
      <4>2. PICK k \in Hosts : output[k].line = hops - 1
        BY <4>1 DEF Stopping
      <4>3. output[k].line = distance
        BY <2>1, <4>2 DEF Hosts
      <4> QED
        BY <1>1, <4>2, <4>3
    <3>2. hops - 1 = distance
      BY <1>1, <3>1
    <3>3. Lines = 1..distance
      BY <3>2, ClosedLines
    <3> QED
      BY <1>4, <2>1, <2>4, <3>3
  <2> QED
    BY <2>3, <2>4
<1> QED
  BY <1>3, <1>4

LEMMA InvProbesVerify == Inv => ProbesVerify
<1> SUFFICES ASSUME Inv, at = "wait" PROVE Verifies(Outbound, ProbeMessage)
  BY DEF ProbesVerify
<1> DEFINE sum == icmp6_checksum(Outbound, Probing(<<0, 0>>))
           m == ProbeMessage
<1>1. LastSeq \in 0..(SeqMod - 1)
  BY Waiting DEF Inv
<1>2. LastSeq \in 0..MaxWord
  BY <1>1, Sizes
<1>3. LastSeq \div Byte \in AByte /\ LastSeq % Byte \in AByte
  BY <1>2, LengthBytes
<1>4. icmpEchoRequ \in AByte /\ icmpID \in AByte /\ 0 \in AByte
  BY TypesAssumption, Sizes
<1>5. Probing(<<0, 0>>) \in Seq(AByte) /\ Len(Probing(<<0, 0>>)) = 8
  BY <1>3, <1>4 DEF Probing
<1>6. sum[1] \in AByte /\ sum[2] \in AByte /\ sum = <<sum[1], sum[2]>>
  <2> DEFINE p == Probing(<<0, 0>>)
             inverted == MaxWord - Carry(LittleSum(All(Outbound, p)))
  <2>1. IsAddresses(Outbound) /\ IsMessage(p)
    <3>1. p \in Seq(AByte) /\ Len(p) = 8
      BY <1>5
    <3> HIDE DEF p
    <3>2. IsMessage(p)
      BY <3>1, Sizes DEF IsMessage
    <3> QED
      BY <3>2, AddressesAre
  <2>2. sum = <<inverted % Byte, inverted \div Byte>>
    BY <2>1, ChecksumIs
  <2> HIDE DEF p
  <2>3. LittleSum(All(Outbound, p)) \in Nat
    BY <2>1, AllIs, OrdersAgree
  <2>4. inverted \in 0..MaxWord
    <3>1. MaxWord \in Nat
      BY Sizes
    <3> QED
      BY <2>3, <3>1, CarryIs
  <2> HIDE DEF inverted, sum
  <2> QED
    BY <2>2, <2>4, LengthBytes
<1> HIDE DEF sum
<1>7. m = Probing(sum)
  BY DEF ProbeMessage, sum
<1>8. IsMessage(m) /\ m[3] = sum[1] /\ m[4] = sum[2] /\ Zeroed(m) = Probing(<<0, 0>>)
  <2>1. m = <<icmpEchoRequ, 0, sum[1], sum[2], icmpID, 0, LastSeq \div Byte, LastSeq % Byte>>
    BY <1>7 DEF Probing
  <2> HIDE DEF m
  <2>2. m \in Seq(AByte) /\ Len(m) = 8 /\ m[3] = sum[1] /\ m[4] = sum[2]
    BY <1>3, <1>4, <1>6, <2>1
  <2>3. Zeroed(m) = Probing(<<0, 0>>)
    BY <2>1 DEF Zeroed, Probing
  <2> QED
    BY <2>2, <2>3, Sizes DEF IsMessage
<1>9. icmp6_checksum(Outbound, Zeroed(m)) = <<m[3], m[4]>>
  BY <1>6, <1>8 DEF sum
<1> HIDE DEF m
<1>10. Verifies(Outbound, m)
  BY <1>8, <1>9, AddressesAre, PassesIs
<1> QED
  BY <1>10 DEF m

LEMMA InvOnlyIntactPass == Inv => OnlyIntactPass
<1> SUFFICES ASSUME Inv PROVE OnlyIntactPass
  OBVIOUS
<1>1. ASSUME NEW f \in answers \cup Foreign
      PROVE  checkIcmpProperties(f) <=> Intact(f) /\ ~AllOnes(f)
  BY CheckIs, ForeignAssumption DEF Inv, TypeOK
<1>2. \A f \in answers : ~AllOnes(f)
  BY DEF Inv, AnswersFit
<1>3. ASSUME NEW f \in answers, NEW k \in DOMAIN f.icmp, NEW b \in 0..(Byte - 1), b # f.icmp[k]
      PROVE  ~checkIcmpProperties([f EXCEPT !.icmp[k] = b])
  <2> DEFINE m == [f.icmp EXCEPT ![k] = b]
             g == [f EXCEPT !.icmp[k] = b]
  <2>1. f \in Frame /\ Intact(f)
    BY DEF Inv, TypeOK, AnswersFit
  <2>2. g.src = f.src /\ g.icmp = m /\ g.quirks = f.quirks
    BY <2>1 DEF Frame
  <2>3. /\ IsAddresses(From(f.src)) /\ IsMessage(f.icmp) /\ Len(f.icmp) >= 8
        /\ f.icmp \in Seq(AByte) /\ b \in AByte
    BY <2>1, FramesAre, Sizes DEF AByte
  <2>4. k \in 1..Len(f.icmp) /\ Verifies(From(f.src), f.icmp)
    BY <2>1, <2>3 DEF Intact
  <2>5. IsMessage(m) /\ ~Verifies(From(f.src), m)
    BY <1>3, <2>3, <2>4, OneByteOff
  <2>6. Len(m) = Len(f.icmp)
    BY <2>3
  <2> HIDE DEF m
  <2>7. m \in Messages
    BY <2>3, <2>5, <2>6, MessagesAre
  <2>8. g \in Frame
    BY <2>1, <2>7 DEF Frame, m
  <2> HIDE DEF g
  <2>9. ~Intact(g)
    BY <2>2, <2>5 DEF Intact
  <2> QED
    BY <2>8, <2>9, CheckIs DEF g
<1> QED
  BY <1>1, <1>2, <1>3 DEF OnlyIntactPass

-----------------------------------------------------------------------------
(* The end of a trace.  Each step makes a list of five numbers smaller:    *)
(* the part of the program, the hops, the tries of a hop and the probe of  *)
(* a try that are to come, and the timeout.                                *)

Part == CASE at = "open" -> 2 [] at \in {"line", "probe", "wait"} -> 1 [] OTHER -> 0
HopsLeft == HopLimit + 1 - hops
TriesLeft == IF at = "line" THEN Attempts + 1 ELSE Attempts + 1 - attempt
Unsent == IF at = "probe" THEN 1 ELSE 0

Rank == <<Part, HopsLeft, TriesLeft, Unsent, to>>

Ranked == Rank \in [1..5 -> Nat]

\* A frame that is read late may leave any timeout.
ComesToAnEnd == Shrinks(Rank', Rank) \/ (Receive /\ late')

LEMMA RankType == TypeOK => Ranked
<1> SUFFICES ASSUME TypeOK PROVE Rank \in [1..5 -> Nat]
  BY DEF Ranked
<1>1. HopLimit \in Nat /\ Attempts \in Nat /\ Modulus \in Nat
  BY ArgumentsAssumption
<1>2. Part \in Nat /\ Unsent \in Nat
  BY DEF Part, Unsent
<1>3. HopsLeft \in Nat /\ TriesLeft \in Nat /\ to \in Nat
  BY <1>1 DEF TypeOK, HopsLeft, TriesLeft
<1> QED
  BY <1>2, <1>3 DEF Rank

\* A step to the next try, or behind the last one.
LEMMA FinishShrinks ==
    ASSUME TypeOK, at = "wait", NEW r, NEW b, FinishAttempt(r, b)
    PROVE  Part' = Part /\ (HopsLeft' < HopsLeft \/ (HopsLeft' = HopsLeft /\ TriesLeft' < TriesLeft))
<1>1. HopLimit \in Nat /\ Attempts \in Nat /\ hops \in Nat /\ attempt \in Nat
  BY ArgumentsAssumption DEF TypeOK
<1>2. /\ attempt' = attempt + 1 /\ at' \in {"probe", "line"}
      /\ at' = "line" => hops' = hops + 1
      /\ at' = "probe" => hops' = hops
  BY DEF FinishAttempt
<1>3. Part' = Part
  BY <1>2 DEF Part
<1>4. CASE at' = "line"
  BY <1>1, <1>2, <1>3, <1>4 DEF HopsLeft
<1>5. CASE at' = "probe"
  BY <1>1, <1>2, <1>3, <1>5 DEF HopsLeft, TriesLeft
<1> QED
  BY <1>2, <1>4, <1>5

LEMMA StepShrinks ==
    ASSUME TypeOK, Ranked, Ranked', Next
    PROVE  Shrinks(Rank', Rank) \/ (Receive /\ late')
<1>1. Rank \in [1..5 -> Nat] /\ Rank' \in [1..5 -> Nat]
  BY DEF Ranked
<1>2. /\ Rank[1] = Part /\ Rank[2] = HopsLeft /\ Rank[3] = TriesLeft
      /\ Rank[4] = Unsent /\ Rank[5] = to
      /\ Rank'[1] = Part' /\ Rank'[2] = HopsLeft' /\ Rank'[3] = TriesLeft'
      /\ Rank'[4] = Unsent' /\ Rank'[5] = to'
  BY DEF Rank
<1>3. HopLimit \in Nat /\ Attempts \in Nat /\ hops \in Nat /\ attempt \in Nat
  BY ArgumentsAssumption DEF TypeOK
<1>4. CASE Open \/ Close \/ SocketFails
  <2>1. Part' < Part
    BY <1>4 DEF Open, Close, SocketFails, Part
  <2> QED
    BY <1>1, <1>2, <2>1, ShrinksAt
<1>5. CASE StartLine
  <2>1. Part' = Part /\ at = "line" /\ attempt' = 1
    BY <1>5 DEF StartLine, Part
  <2>2. CASE Attempts > 0
    <3>1. at' = "probe" /\ hops' = hops
      BY <1>5, <2>2 DEF StartLine
    <3>2. HopsLeft' = HopsLeft
      BY <3>1 DEF HopsLeft
    <3>3. TriesLeft' < TriesLeft
      BY <1>3, <2>1, <3>1 DEF TriesLeft
    <3> QED
      BY <1>1, <1>2, <2>1, <3>2, <3>3, ShrinksAt
  <2>3. CASE ~(Attempts > 0)
    <3>1. hops' = hops + 1
      BY <1>5, <2>3 DEF StartLine
    <3>2. HopsLeft' < HopsLeft
      BY <1>3, <3>1 DEF HopsLeft
    <3> QED
      BY <1>1, <1>2, <2>1, <3>2, ShrinksAt
  <2> QED
    BY <2>2, <2>3
<1>6. CASE Probe
  <2>1. at = "probe" /\ at' = "wait" /\ hops' = hops /\ attempt' = attempt
    BY <1>6 DEF Probe
  <2>2. Part' = Part /\ HopsLeft' = HopsLeft /\ TriesLeft' = TriesLeft /\ Unsent' < Unsent
    BY <2>1 DEF Part, HopsLeft, TriesLeft, Unsent
  <2> QED
    BY <1>1, <1>2, <2>2, ShrinksAt
<1>7. CASE TimesOut
  <2>1. at = "wait" /\ \E r : FinishAttempt(r, FALSE)
    BY <1>7 DEF TimesOut
  <2> QED
    BY <1>1, <1>2, <2>1, FinishShrinks, ShrinksAt
<1>8. CASE Receive /\ ~late'
  <2>1. at = "wait" /\ to' < to
    BY <1>8 DEF Receive, ReadTakes, R!Frame, R!Left
  <2>2. CASE at' \in {"spins", "exit"}
    <3>1. Part' < Part
      BY <2>1, <2>2 DEF Part
    <3> QED
      BY <1>1, <1>2, <3>1, ShrinksAt
  <2>3. CASE \E r, b : FinishAttempt(r, b)
    BY <1>1, <1>2, <2>1, <2>3, FinishShrinks, ShrinksAt
  <2>4. CASE UNCHANGED <<at, hops, attempt>>
    <3>1. /\ Part' = Part /\ HopsLeft' = HopsLeft
          /\ TriesLeft' = TriesLeft /\ Unsent' = Unsent
      BY <2>4 DEF Part, HopsLeft, TriesLeft, Unsent
    <3> QED
      BY <1>1, <1>2, <2>1, <3>1, ShrinksAt
  <2> QED
    BY <1>8, <2>2, <2>3, <2>4 DEF Receive
<1> QED
  BY <1>4, <1>5, <1>6, <1>7, <1>8 DEF Next

-----------------------------------------------------------------------------
(* The theorems.                                                           *)

\* Every variable stays in its range, the sequence number, the hop and what the
\* reads leave of the timeout too.
THEOREM Trace6Types == Spec => []TypeOK
<1>1. Inv => TypeOK
  BY DEF Inv
<1> QED
  BY <1>1, Invariant, PTL

\* Each probe has one result, in its order and its line, however often the
\* sequence numbers start over and whatever is read between the answers.
THEOREM EachProbeHasItsResult == Spec => []OneResultPerProbe
BY InvOneResultPerProbe, Invariant, PTL

\* A reply or a refusal is only printed in the last line, and a trace that is
\* over before the hop limit has printed one.
THEOREM RepliesInLastLine == Spec => []StopsAtReply
BY InvStopsAtReply, Invariant, PTL

\* A trace whose replies come in time ends in the line of the destination and
\* names it in each attempt of that line, and no other host but a router
\* before.
THEOREM DestinationIsFound == Spec => []FindsDestination
BY InvFindsDestination, Invariant, PTL

\* The checksum of each probe is right.
THEOREM ProbesAreIntact == Spec => []ProbesVerify
BY InvProbesVerify, Invariant, PTL

\* A trace cannot go on for ever while the process is not late: each of its
\* steps makes Rank smaller, whatever frames come, and that has an end
\* (NoEndlessShrinking).
THEOREM TraceShrinks == Spec => []Ranked /\ [][ComesToAnEnd]_vars
<1>1. TypeOK => Ranked
  BY RankType
<1>2. TypeOK /\ Ranked /\ Ranked' /\ [Next]_vars => [ComesToAnEnd]_vars
  BY StepShrinks DEF ComesToAnEnd
<1> QED
  BY <1>1, <1>2, Trace6Types, PTL DEF Spec

\* Of all frames the check passes just those that are intact, but for a checksum
\* of ones, and none that differs from an answer in one byte.
THEOREM ChecksTellIntact == Spec => []OnlyIntactPass
BY InvOnlyIntactPass, Invariant, PTL
=============================================================================
