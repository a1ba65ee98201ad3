----------------------- MODULE NetstringReaderProofs -----------------------
(***************************************************************************)
(* The safety properties of NetstringReader, for every size of the buffer, *)
(* every set of streams that StreamsAssumption allows, and every way in    *)
(* which they are cut into reads; and that sendMessage writes netstrings.  *)
(***************************************************************************)
EXTENDS NetstringReader, Induction

LEMMA SameSeq ==
    ASSUME NEW B, NEW a \in Seq(B), NEW b \in Seq(B), Len(a) = Len(b),
           \A i \in 1..Len(a) : a[i] = b[i]
    PROVE  a = b
OBVIOUS

\* A byte as a string.
LEMMA One ==
    ASSUME NEW B, NEW x \in B PROVE <<x>> \in Seq(B) /\ Len(<<x>>) = 1 /\ <<x>>[1] = x
OBVIOUS

\* A part of a sequence, place by place.
LEMMA SubIs ==
    ASSUME NEW B, NEW s \in Seq(B), NEW a \in Nat, NEW b \in Nat, a <= b, b <= Len(s)
    PROVE  /\ SubSeq(s, a + 1, b) \in Seq(B) /\ Len(SubSeq(s, a + 1, b)) = b - a
           /\ \A i \in 1..(b - a) : SubSeq(s, a + 1, b)[i] = s[a + i]
OBVIOUS

\* s is a and then c, byte by byte.
Joins(s, a, c) ==
    /\ Len(s) = Len(a) + Len(c)
    /\ \A i \in 1..Len(a) : s[i] = a[i]
    /\ \A i \in 1..Len(c) : s[Len(a) + i] = c[i]

LEMMA ConcatIs ==
    ASSUME NEW B, NEW a \in Seq(B), NEW c \in Seq(B)
    PROVE  a \o c \in Seq(B) /\ Joins(a \o c, a, c)
<1> DEFINE n == Len(a)
           m == Len(c)
           s == a \o c
<1>1. n \in Nat /\ m \in Nat
  OBVIOUS
<1>2. s \in Seq(B) /\ Len(s) = n + m
  OBVIOUS
<1>3. \A i \in 1..(n + m) : s[i] = IF i <= n THEN a[i] ELSE c[i - n]
  OBVIOUS
<1> HIDE DEF s, n, m
<1>4. ASSUME NEW i \in 1..n PROVE s[i] = a[i]
  <2>1. i \in 1..(n + m) /\ i <= n
    BY <1>1
  <2> QED
    BY <1>3, <2>1
<1>5. ASSUME NEW i \in 1..m PROVE s[n + i] = c[i]
  <2>1. n + i \in 1..(n + m) /\ ~(n + i <= n) /\ (n + i) - n = i
    BY <1>1
  <2> QED
    BY <1>3, <2>1
<1>6. Joins(s, a, c)
  BY <1>2, <1>4, <1>5 DEF Joins, n, m
<1> QED
  BY <1>2, <1>6 DEF s

LEMMA NulIs == Nul \in Bytes
BY BytesAssumption

LEMMA Marks == ":" \in Bytes /\ Comma \in Bytes
BY BytesAssumption

LEMMA DigitsAre ==
    /\ Digits \in Seq(Bytes) /\ Len(Digits) = 10
    /\ \A i \in 1..10 : Digits[i] \in Bytes
<1>1. ToSet(Digits) \subseteq Bytes
  BY BytesAssumption
<1>2. Len(Digits) = 10 /\ DOMAIN Digits = 1..10
  BY DEF Digits
<1>3. ASSUME NEW i \in 1..10 PROVE Digits[i] \in Bytes
  <2>1. Digits[i] \in ToSet(Digits)
    BY <1>2 DEF ToSet
  <2> QED
    BY <1>1, <2>1
<1>4. Digits = [i \in 1..10 |-> Digits[i]]
  BY DEF Digits
<1> QED
  BY <1>2, <1>3, <1>4

-----------------------------------------------------------------------------
(* Searching a string.                                                     *)

HasNone(s, c) == \A i \in 1..Len(s) : s[i] # c
FirstAt(s, c, k) == k \in 1..Len(s) /\ s[k] = c /\ \A i \in 1..(k - 1) : s[i] # c

LEMMA StrChrIs ==
    ASSUME NEW s \in Seq(Bytes), NEW c
    PROVE  \/ StrChr(s, c) = 0 /\ HasNone(s, c)
           \/ StrChr(s, c) # 0 /\ FirstAt(s, c, StrChr(s, c))
<1> DEFINE I == {i \in 1..Len(s) : s[i] = c}
<1>1. StrChr(s, c) = IF I # {} THEN Min(I) ELSE 0
  BY DEF StrChr, SelectInSeq
<1>2. CASE I = {}
  BY <1>1, <1>2 DEF HasNone
<1>3. CASE I # {}
  <2>1. I \in SUBSET Nat
    OBVIOUS
  <2>2. \E m \in I : \A k \in I : m <= k
    BY <1>3, <2>1, LeastNatural
  <2>3. Min(I) \in I /\ \A k \in I : Min(I) <= k
    BY <2>2 DEF Min
  <2>4. PICK k : k = Min(I)
    OBVIOUS
  <2>5. k \in 1..Len(s) /\ s[k] = c /\ StrChr(s, c) = k
    BY <1>1, <1>3, <2>3, <2>4
  <2>6. ASSUME NEW i \in 1..(k - 1) PROVE s[i] # c
    <3>1. i \in 1..Len(s) /\ ~(k <= i)
      BY <2>5
    <3>2. i \notin I
      BY <2>3, <2>4, <3>1
    <3> QED
      BY <3>1, <3>2
  <2> QED
    BY <2>5, <2>6 DEF FirstAt
<1> QED
  BY <1>2, <1>3

\* The first occurrence is the only first one.
LEMMA FirstAtIs ==
    ASSUME NEW s \in Seq(Bytes), NEW c, NEW k, FirstAt(s, c, k)
    PROVE  StrChr(s, c) = k
<1>1. ~HasNone(s, c)
  BY DEF HasNone, FirstAt
<1>2. FirstAt(s, c, StrChr(s, c))
  BY <1>1, StrChrIs
<1> QED
  BY <1>2 DEF FirstAt

LEMMA NoneIs ==
    ASSUME NEW s \in Seq(Bytes), NEW c, HasNone(s, c)
    PROVE  StrChr(s, c) = 0
BY StrChrIs DEF HasNone, FirstAt

-----------------------------------------------------------------------------
(* Memory.                                                                 *)

\* The string s is in memory, behind the first `from` bytes.
Text(mem, from, s) ==
    /\ from \in 0..Len(mem) /\ s \in Seq(Bytes) /\ HasNone(s, Nul)
    /\ from + Len(s) <= Len(mem)
    /\ \A k \in 1..Len(s) : mem[from + k] = s[k]
    /\ from + Len(s) < Len(mem) => mem[from + Len(s) + 1] = Nul

LEMMA TextIs ==
    ASSUME NEW mem \in Seq(Bytes), NEW from, NEW s, Text(mem, from, s)
    PROVE  StringAt(mem, from) = s
<1> DEFINE ends == {i \in from..(Len(mem) - 1) : mem[i + 1] = Nul}
           e == IF ends = {} THEN Len(mem) ELSE Min(ends)
           m == from + Len(s)
<1>1. from \in Nat /\ Len(s) \in Nat /\ Len(mem) \in Nat /\ m \in Nat /\ m <= Len(mem)
  BY DEF Text
<1>2. ASSUME NEW i \in ends PROVE i >= m
  <2> SUFFICES ASSUME i < m PROVE FALSE
    BY <1>1
  <2>1. i + 1 - from \in 1..Len(s) /\ from + (i + 1 - from) = i + 1
    BY <1>1
  <2>2. mem[i + 1] = s[i + 1 - from] /\ s[i + 1 - from] # Nul
    BY <2>1 DEF Text, HasNone
  <2> QED
    BY <2>2
<1>3. e = m
  <2>1. CASE m < Len(mem)
    <3>1. m \in ends
      BY <1>1, <2>1 DEF Text
    <3>2. \A i \in ends : i \in Int
      BY <1>1
    <3>3. Min(ends) = m
      <4>1. ASSUME NEW x \in ends, \A y \in ends : x <= y PROVE x = m
        <5>1. x \in Int /\ m \in Int /\ x >= m /\ x <= m
          BY <1>1, <1>2, <3>1, <3>2, <4>1
        <5> HIDE DEF ends, m
        <5> QED
          BY <5>1
      <4>2. \E x \in ends : \A y \in ends : x <= y
        BY <1>2, <3>1
      <4> HIDE DEF ends
      <4> QED
        BY <4>1, <4>2 DEF Min
    <3> QED
      BY <3>1, <3>3
  <2>2. CASE m = Len(mem)
    <3>1. ends = {}
      BY <1>1, <1>2, <2>2
    <3> QED
      BY <2>2, <3>1
  <2> QED
    BY <1>1, <2>1, <2>2
<1>4. StringAt(mem, from) = SubSeq(mem, from + 1, m)
  BY <1>3 DEF StringAt
<1>5. /\ SubSeq(mem, from + 1, m) \in Seq(Bytes) /\ Len(SubSeq(mem, from + 1, m)) = Len(s)
      /\ \A k \in 1..Len(s) : SubSeq(mem, from + 1, m)[k] = mem[from + k]
  <2>1. from <= m /\ m - from = Len(s)
    BY <1>1
  <2> HIDE DEF m
  <2> QED
    BY <1>1, <2>1, SubIs
<1>6. s \in Seq(Bytes) /\ \A k \in 1..Len(s) : mem[from + k] = s[k]
  BY DEF Text
<1> DEFINE r == SubSeq(mem, from + 1, m)
<1>7. r = s
  <2>1. r \in Seq(Bytes) /\ Len(r) = Len(s) /\ \A k \in 1..Len(r) : r[k] = s[k]
    BY <1>5, <1>6
  <2> HIDE DEF r
  <2> QED
    BY <1>6, <2>1, SameSeq
<1> QED
  BY <1>4, <1>7

LEMMA PutIs ==
    ASSUME NEW mem \in Seq(Bytes), NEW at \in Nat, NEW w \in Seq(Bytes), at + Len(w) <= Len(mem)
    PROVE  /\ Put(mem, at, w) \in Seq(Bytes) /\ Len(Put(mem, at, w)) = Len(mem)
           /\ \A i \in 1..Len(mem) :
                Put(mem, at, w)[i] = IF at < i /\ i <= at + Len(w) THEN w[i - at] ELSE mem[i]
<1> DEFINE a == SubSeq(mem, 1, at)
           b == SubSeq(mem, at + Len(w) + 1, Len(mem))
           n == Len(mem)
           l == Len(w)
<1>1. n \in Nat /\ l \in Nat /\ at + l <= n
  OBVIOUS
<1>2. a \in Seq(Bytes) /\ Len(a) = at /\ \A i \in 1..at : a[i] = mem[i]
  BY <1>1
<1>3. b \in Seq(Bytes) /\ Len(b) = n - (at + l) /\ \A i \in 1..(n - (at + l)) : b[i] = mem[at + l + i]
  BY <1>1
<1>4. Put(mem, at, w) = (a \o w) \o b
  BY DEF Put
<1> HIDE DEF a, b
<1>5. /\ a \o w \in Seq(Bytes) /\ Len(a \o w) = at + l
      /\ \A i \in 1..(at + l) : (a \o w)[i] = IF i <= at THEN a[i] ELSE w[i - at]
  BY <1>1, <1>2
<1> DEFINE c == a \o w
<1> HIDE DEF c
<1>6. c \in Seq(Bytes) /\ Len(c) = at + l
  BY <1>5 DEF c
<1>7. /\ c \o b \in Seq(Bytes) /\ Len(c \o b) = n
      /\ \A i \in 1..n : (c \o b)[i] = IF i <= at + l THEN c[i] ELSE b[i - (at + l)]
  BY <1>1, <1>3, <1>6
<1>8. ASSUME NEW i \in 1..n
      PROVE  (c \o b)[i] = IF at < i /\ i <= at + l THEN w[i - at] ELSE mem[i]
  <2>1. CASE i <= at
    BY <1>1, <1>2, <1>5, <1>7, <2>1 DEF c
  <2>2. CASE at < i /\ i <= at + l
    BY <1>1, <1>5, <1>7, <2>2 DEF c
  <2>3. CASE at + l < i
    <3>1. i - (at + l) \in 1..(n - (at + l)) /\ at + l + (i - (at + l)) = i
      BY <1>1, <2>3
    <3> QED
      BY <1>1, <1>3, <1>7, <2>3, <3>1
  <2>4. i <= at \/ (at < i /\ i <= at + l) \/ at + l < i
    BY <1>1
  <2> QED
    BY <2>1, <2>2, <2>3, <2>4
<1> QED
  BY <1>4, <1>7, <1>8 DEF c

\* A string that is written with its 0 byte, or to the end of memory, is there.
LEMMA PutText ==
    ASSUME NEW mem \in Seq(Bytes), NEW s \in Seq(Bytes), HasNone(s, Nul), Len(s) < Len(mem)
    PROVE  /\ Put(mem, 0, Append(s, Nul)) \in Seq(Bytes)
           /\ Len(Put(mem, 0, Append(s, Nul))) = Len(mem)
           /\ Text(Put(mem, 0, Append(s, Nul)), 0, s)
<1> DEFINE w == Append(s, Nul)
           n == Len(mem)
           p == Put(mem, 0, w)
<1>1. n \in Nat /\ Len(s) \in Nat /\ Nul \in Bytes
  BY NulIs
<1>2. /\ w \in Seq(Bytes) /\ Len(w) = Len(s) + 1 /\ w[Len(s) + 1] = Nul
      /\ \A i \in 1..Len(s) : w[i] = s[i]
  BY <1>1
<1> HIDE DEF w
<1>3. /\ p \in Seq(Bytes) /\ Len(p) = n
      /\ \A i \in 1..n : p[i] = IF 0 < i /\ i <= 0 + Len(w) THEN w[i - 0] ELSE mem[i]
  BY <1>1, <1>2, PutIs
<1>4. \A i \in 1..(Len(s) + 1) : p[i] = w[i]
  BY <1>1, <1>2, <1>3
<1> HIDE DEF p
<1>5. Text(p, 0, s)
  BY <1>1, <1>2, <1>3, <1>4 DEF Text
<1> QED
  BY <1>3, <1>5 DEF p, w

\* A string that is appended to one.
LEMMA AppendText ==
    ASSUME NEW mem \in Seq(Bytes), NEW t, Text(mem, 0, t), NEW s \in Seq(Bytes), HasNone(s, Nul),
           Len(t) + Len(s) < Len(mem)
    PROVE  /\ Put(mem, Len(t), Append(s, Nul)) \in Seq(Bytes)
           /\ Len(Put(mem, Len(t), Append(s, Nul))) = Len(mem)
           /\ Text(Put(mem, Len(t), Append(s, Nul)), 0, t \o s)
<1> DEFINE w == Append(s, Nul)
           n == Len(mem)
           l == Len(t)
           p == Put(mem, l, w)
           u == t \o s
<1>0. t \in Seq(Bytes)
  BY DEF Text
<1>1. n \in Nat /\ Len(s) \in Nat /\ Nul \in Bytes /\ l \in Nat
  BY <1>0, NulIs
<1>2. /\ w \in Seq(Bytes) /\ Len(w) = Len(s) + 1 /\ w[Len(s) + 1] = Nul
      /\ \A i \in 1..Len(s) : w[i] = s[i]
  BY <1>1
<1> HIDE DEF w
<1>3. /\ p \in Seq(Bytes) /\ Len(p) = n
      /\ \A i \in 1..n : p[i] = IF l < i /\ i <= l + Len(w) THEN w[i - l] ELSE mem[i]
  <2>1. l + Len(w) <= n
    BY <1>1, <1>2
  <2> HIDE DEF l
  <2> QED
    BY <1>1, <1>2, <2>1, PutIs
<1>4. /\ u \in Seq(Bytes) /\ Len(u) = l + Len(s)
      /\ \A i \in 1..(l + Len(s)) : u[i] = IF i <= l THEN t[i] ELSE s[i - l]
  BY <1>0, <1>1
<1>5. \A i \in 1..l : mem[i] = t[i] /\ t[i] # Nul
  <2>1. \A i \in 1..l : 0 + i = i
    BY <1>1
  <2> QED
    BY <2>1 DEF Text, HasNone
<1> HIDE DEF p, u
<1>6. ASSUME NEW i \in 1..(l + Len(s)) PROVE p[i] = u[i] /\ u[i] # Nul
  <2>1. i \in 1..n
    BY <1>1
  <2>2. CASE i <= l
    <3>1. i \in 1..l
      BY <1>1, <2>2
    <3> QED
      BY <1>1, <1>3, <1>4, <1>5, <2>1, <2>2, <3>1
  <2>3. CASE i > l
    <3>1. i - l \in 1..Len(s) /\ ~(i <= l) /\ l < i /\ i <= l + Len(w)
      BY <1>1, <1>2, <2>3
    <3>2. p[i] = w[i - l] /\ u[i] = s[i - l]
      BY <1>3, <1>4, <2>1, <3>1
    <3> QED
      BY <1>2, <3>1, <3>2 DEF HasNone
  <2> QED
    BY <1>1, <2>2, <2>3
<1>7. p[l + Len(s) + 1] = Nul
  <2>1. l + Len(s) + 1 \in 1..n /\ l + Len(s) + 1 <= l + Len(w) /\ l < l + Len(s) + 1
        /\ l + Len(s) + 1 - l = Len(s) + 1
    BY <1>1, <1>2
  <2> QED
    BY <1>2, <1>3, <2>1
<1>8. HasNone(u, Nul)
  BY <1>4, <1>6 DEF HasNone
<1>9. Text(p, 0, u)
  <2>1. \A k \in 1..Len(u) : p[0 + k] = u[k]
    BY <1>1, <1>4, <1>6
  <2>2. p[0 + Len(u) + 1] = Nul /\ 0 \in 0..Len(p) /\ 0 + Len(u) <= Len(p)
    BY <1>1, <1>3, <1>4, <1>7
  <2> QED
    BY <1>4, <1>8, <2>1, <2>2 DEF Text
<1> QED
  BY <1>3, <1>9 DEF p, u, w

\* The end of a string is a string in memory.
LEMMA TextEnd ==
    ASSUME NEW mem \in Seq(Bytes), NEW s, Text(mem, 0, s), NEW k \in 0..Len(s)
    PROVE  Text(mem, k, SubSeq(s, k + 1, Len(s)))
<1> DEFINE r == SubSeq(s, k + 1, Len(s))
<1>1. s \in Seq(Bytes) /\ Len(s) \in Nat /\ Len(mem) \in Nat /\ Len(s) <= Len(mem)
  BY DEF Text
<1>2. r \in Seq(Bytes) /\ Len(r) = Len(s) - k /\ \A i \in 1..(Len(s) - k) : r[i] = s[k + i]
  BY <1>1
<1> HIDE DEF r
<1>3. ASSUME NEW i \in 1..Len(r) PROVE mem[k + i] = r[i] /\ r[i] # Nul
  <2>1. i \in 1..(Len(s) - k) /\ k + i \in 1..Len(s) /\ 0 + (k + i) = k + i
    BY <1>1, <1>2
  <2>2. s[k + i] # Nul /\ mem[k + i] = s[k + i]
    BY <2>1 DEF Text, HasNone
  <2> QED
    BY <1>2, <2>1, <2>2
<1>4. k + Len(r) = Len(s) /\ k \in 0..Len(mem)
  BY <1>1, <1>2
<1>5. Len(s) < Len(mem) => mem[Len(s) + 1] = Nul
  <2>1. 0 + Len(s) = Len(s)
    BY <1>1
  <2> QED
    BY <2>1 DEF Text
<1>6. HasNone(r, Nul)
  BY <1>3 DEF HasNone
<1>7. Text(mem, k, r)
  BY <1>1, <1>2, <1>3, <1>4, <1>5, <1>6 DEF Text
<1> QED
  BY <1>7 DEF r

-----------------------------------------------------------------------------
(* Numbers in digits.                                                      *)

ValueStep(s) == [p \in (1..Len(s)) \X Int |-> 10 * p[2] + StrChr(Digits, s[p[1]]) - 1]

LEMMA StrChrType == ASSUME NEW s \in Seq(Bytes), NEW c PROVE StrChr(s, c) \in 0..Len(s)
BY StrChrIs DEF FirstAt

LEMMA ValueSteps ==
    ASSUME NEW s \in Seq(Bytes)
    PROVE  \E v : Steps(v, Len(s), Int, 0, ValueStep(s)) /\ Value(s) = v[Len(s)]
<1> DEFINE n == Len(s)
           D == 1..n
           h == ValueStep(s)
           zero == 0
           Is(f) == f = [T \in SUBSET D |->
                          IF T = {} THEN 0
                          ELSE 10 * f[T \ {Max(T)}] + StrChr(Digits, s[Max(T)]) - 1]
           iter == CHOOSE f : Is(f)
<1>1. n \in Nat /\ DOMAIN s = D
  OBVIOUS
<1>2. \A c : StrChr(Digits, c) \in Int
  BY StrChrType, DigitsAre
<1>3. h \in [D \X Int -> Int] /\ zero \in Int
  BY <1>2 DEF ValueStep
<1>4. \A k \in D, x \in Int : h[<<k, x>>] = 10 * x + StrChr(Digits, s[k]) - 1
  BY DEF ValueStep
<1>5. PICK f \in [SUBSET D -> Int] : IsLeftFold(f, n, zero, h)
  <2> HIDE DEF n, h, zero
  <2> QED
    BY <1>1, <1>3, LeftFoldExists
<1>6. \A T \in (SUBSET D) \ {{}} : Max(T) \in D
  BY <1>1, GreatestOfSome
<1> HIDE DEF h, D
<1>7. Is(f)
  <2>1. ASSUME NEW T \in SUBSET D, T # {}
        PROVE  h[<<Max(T), f[T \ {Max(T)}]>>] = 10 * f[T \ {Max(T)}] + StrChr(Digits, s[Max(T)]) - 1
    BY <1>4, <1>5, <1>6, <2>1
  <2> QED
    BY <1>5, <2>1 DEF IsLeftFold, D
<1>8. Is(iter)
  BY <1>7
<1>9. Value(s) = iter[D]
  BY <1>1 DEF Value, FoldLeft, MapThenFoldSet
<1> HIDE DEF iter
<1>10. FoldsLeft(iter, n, Int, zero, h)
  <2>1. iter[{}] = 0
    BY <1>8
  <2>2. ASSUME NEW T \in (SUBSET D) \ {{}}, iter[T \ {Max(T)}] \in Int
        PROVE  iter[T] = h[<<Max(T), iter[T \ {Max(T)}]>>]
    <3>1. iter[T] = 10 * iter[T \ {Max(T)}] + StrChr(Digits, s[Max(T)]) - 1
      BY <1>8
    <3> QED
      BY <1>4, <1>6, <2>2, <3>1
  <2> QED
    BY <2>1, <2>2 DEF FoldsLeft, D
<1> HIDE DEF zero, n
<1>11. Steps(PrefixFolds(iter, n), n, Int, zero, h)
  BY <1>1, <1>3, <1>10, LeftFoldSteps DEF D
<1>12. PrefixFolds(iter, n)[n] = iter[D]
  BY <1>1 DEF D, PrefixFolds
<1> QED
  BY <1>9, <1>11, <1>12 DEF zero, n, h

IsDigit(b) == b \in ToSet(Digits)
AllDigits(s) == \A i \in 1..Len(s) : IsDigit(s[i])

LEMMA DigitIs ==
    ASSUME NEW b
    PROVE  /\ IsDigit(b) <=> \E v \in 0..9 : b = Digits[v + 1]
           /\ IsDigit(b) => StrChr(Digits, b) \in 1..10
<1>1. DOMAIN Digits = 1..10 /\ Len(Digits) = 10
  BY DEF Digits
<1>2. ASSUME IsDigit(b) PROVE \E v \in 0..9 : b = Digits[v + 1]
  <2>1. PICK i \in 1..10 : b = Digits[i]
    BY <1>1, <1>2 DEF IsDigit, ToSet
  <2>2. i - 1 \in 0..9 /\ i = (i - 1) + 1
    OBVIOUS
  <2> QED
    BY <2>1, <2>2
<1>3. ASSUME NEW v \in 0..9, b = Digits[v + 1] PROVE IsDigit(b)
  <2>1. v + 1 \in DOMAIN Digits
    BY <1>1
  <2> QED
    BY <1>3, <2>1 DEF IsDigit, ToSet
<1>4. ASSUME IsDigit(b) PROVE StrChr(Digits, b) \in 1..10
  <2>1. PICK v \in 0..9 : b = Digits[v + 1]
    BY <1>2, <1>4
  <2>2. v + 1 \in 1..10
    OBVIOUS
  <2>3. ~HasNone(Digits, b)
    BY <1>1, <2>1, <2>2 DEF HasNone
  <2>4. FirstAt(Digits, b, StrChr(Digits, b))
    BY <2>3, DigitsAre, StrChrIs
  <2> QED
    BY <1>1, <2>4 DEF FirstAt
<1> QED
  BY <1>2, <1>3, <1>4

LEMMA NoDigits == ~IsDigit(":") /\ ~IsDigit(Comma) /\ ~IsDigit(Nul)
<1> DEFINE D == {"0", "1", "2", "3", "4", "5", "6", "7", "8", "9"}
<1>1. \A v \in 0..9 : Digits[v + 1] \in D
  BY DEF Digits
<1>2. ":" \notin D /\ Comma \notin D /\ Nul \notin D
  BY DEF Comma, Nul
<1> HIDE DEF D
<1> QED
  BY <1>1, <1>2, DigitIs

\* The place of a digit is its value.
LEMMA DigitAt == \A v \in 0..9 : StrChr(Digits, Digits[v + 1]) = v + 1
<1> SUFFICES ASSUME NEW v \in 0..9 PROVE FirstAt(Digits, Digits[v + 1], v + 1)
  BY DigitsAre, FirstAtIs
<1>1. \A i \in 1..10 : i < v + 1 => Digits[i] # Digits[v + 1]
  BY DEF Digits
<1> QED
  BY <1>1, DigitsAre DEF FirstAt

\* Only the first digit is 0.
LEMMA ZeroDigit == \A v \in 1..9 : Digits[v + 1] # "0"
BY DEF Digits

LEMMA ValueEmpty == Value(<<>>) = 0
<1>1. <<>> \in Seq(Bytes) /\ Len(<<>>) = 0
  OBVIOUS
<1>2. PICK v : Steps(v, 0, Int, 0, ValueStep(<<>>)) /\ Value(<<>>) = v[0]
  BY <1>1, ValueSteps
<1> QED
  BY <1>2 DEF Steps

LEMMA ValueType == ASSUME NEW s \in Seq(Bytes) PROVE Value(s) \in Int
<1>1. PICK v : Steps(v, Len(s), Int, 0, ValueStep(s)) /\ Value(s) = v[Len(s)]
  BY ValueSteps
<1>2. Len(s) \in 0..Len(s)
  OBVIOUS
<1> QED
  BY <1>1, <1>2 DEF Steps

LEMMA ValueAppend ==
    ASSUME NEW s \in Seq(Bytes), NEW b \in Bytes
    PROVE  Value(Append(s, b)) = 10 * Value(s) + StrChr(Digits, b) - 1
<1> DEFINE t == Append(s, b)
           n == Len(s)
           zero == 0
           hs == ValueStep(s)
           ht == ValueStep(t)
<1>1. /\ n \in Nat /\ t \in Seq(Bytes) /\ Len(t) = n + 1 /\ t[n + 1] = b
      /\ \A i \in 1..n : t[i] = s[i]
  OBVIOUS
<1> HIDE DEF t
<1>2. PICK v : Steps(v, n, Int, zero, hs) /\ Value(s) = v[n]
  BY ValueSteps
<1>3. PICK w : Steps(w, n + 1, Int, zero, ht) /\ Value(t) = w[n + 1]
  BY <1>1, ValueSteps
<1>4. SameSteps(ht, hs, 1..n, Int)
  <2>1. ASSUME NEW k \in 1..n, NEW x \in Int PROVE ht[<<k, x>>] = hs[<<k, x>>]
    <3>1. k \in 1..Len(t) /\ t[k] = s[k]
      BY <1>1
    <3> QED
      BY <3>1 DEF ValueStep
  <2> QED
    BY <2>1 DEF SameSteps
<1>5. w[n] = v[n]
  <2> HIDE DEF zero, hs, ht, n
  <2>1. n + 1 \in Nat /\ n <= n + 1
    BY <1>1
  <2> QED
    BY <1>1, <1>2, <1>3, <1>4, <2>1, StepsAgree
<1>6. w[n + 1] = ht[<<n + 1, w[n]>>] /\ w[n] \in Int
  <2>1. n + 1 \in 1..(n + 1) /\ (n + 1) - 1 = n /\ n \in 0..(n + 1)
    BY <1>1
  <2> QED
    BY <1>3, <2>1 DEF Steps
<1>7. ht[<<n + 1, w[n]>>] = 10 * w[n] + StrChr(Digits, t[n + 1]) - 1
  <2>1. n + 1 \in 1..Len(t)
    BY <1>1
  <2> QED
    BY <1>6, <2>1 DEF ValueStep
<1> QED
  BY <1>1, <1>2, <1>3, <1>5, <1>6, <1>7 DEF t

\* Digits have a natural number for a value.
LEMMA ValueNat ==
    ASSUME NEW s \in Seq(Bytes), AllDigits(s)
    PROVE  Value(s) \in Nat
<1>1. PICK v : Steps(v, Len(s), Int, 0, ValueStep(s)) /\ Value(s) = v[Len(s)]
  BY ValueSteps
<1> DEFINE Good == {k \in Nat : k <= Len(s) => v[k] \in Nat}
<1>2. 0 \in Good
  BY <1>1 DEF Steps
<1>3. ASSUME NEW k \in Good PROVE k + 1 \in Good
  <2> SUFFICES ASSUME k + 1 <= Len(s) PROVE v[k + 1] \in Nat
    OBVIOUS
  <2>1. k + 1 \in 1..Len(s) /\ (k + 1) - 1 = k /\ v[k] \in Nat
    OBVIOUS
  <2>2. v[k + 1] = ValueStep(s)[<<k + 1, v[k]>>]
    BY <1>1, <2>1 DEF Steps
  <2>3. ValueStep(s)[<<k + 1, v[k]>>] = 10 * v[k] + StrChr(Digits, s[k + 1]) - 1
    BY <2>1 DEF ValueStep
  <2>4. StrChr(Digits, s[k + 1]) \in 1..10
    BY <2>1, DigitIs DEF AllDigits
  <2>5. v[k] \in Nat /\ v[k + 1] = 10 * v[k] + StrChr(Digits, s[k + 1]) - 1
    BY <2>1, <2>2, <2>3
  <2>6. \A a \in Nat, d \in 1..10 : 10 * a + d - 1 \in Nat
    OBVIOUS
  <2> HIDE DEF Good
  <2> QED
    BY <2>4, <2>5, <2>6
<1>4. Good = Nat
  <2>1. Good \in SUBSET Nat
    OBVIOUS
  <2> HIDE DEF Good
  <2> QED
    BY <1>2, <1>3, <2>1, NumbersByInduction
<1> QED
  BY <1>1, <1>4

\* The first n bytes are digits, and no more.
Leads(s, n) ==
    /\ n \in 0..Len(s)
    /\ \A i \in 1..n : IsDigit(s[i])
    /\ n < Len(s) => ~IsDigit(s[n + 1])

LEMMA AtolIs ==
    ASSUME NEW s \in Seq(Bytes), NEW n, Leads(s, n)
    PROVE  Atol(s) = Value(SubSeq(s, 1, n))
<1> DEFINE num == CHOOSE k \in 0..Len(s) :
                    /\ \A i \in 1..k : s[i] \in ToSet(Digits)
                    /\ k < Len(s) => s[k + 1] \notin ToSet(Digits)
<1>1. Atol(s) = Value(SubSeq(s, 1, num))
  BY DEF Atol
<1>2. Leads(s, num)
  <2>1. n \in 0..Len(s) /\ (\A i \in 1..n : s[i] \in ToSet(Digits))
        /\ (n < Len(s) => s[n + 1] \notin ToSet(Digits))
    BY DEF Leads, IsDigit
  <2> QED
    BY <2>1 DEF Leads, IsDigit
<1> HIDE DEF num
<1>3. ~(num < n) /\ ~(n < num)
  <2>1. num \in Int /\ n \in Int /\ Len(s) \in Int
    BY <1>2 DEF Leads
  <2>2. num < n => num + 1 \in 1..n /\ num < Len(s)
    BY <1>2, <2>1 DEF Leads
  <2>3. n < num => n + 1 \in 1..num /\ n < Len(s)
    BY <1>2, <2>1 DEF Leads
  <2> QED
    BY <1>2, <2>2, <2>3 DEF Leads
<1>4. num = n
  BY <1>2, <1>3 DEF Leads
<1> QED
  BY <1>1, <1>4

LEMMA LeadsExists == ASSUME NEW s \in Seq(Bytes) PROVE \E n : Leads(s, n)
<1> DEFINE Ends == {n \in 0..Len(s) : n = Len(s) \/ ~IsDigit(s[n + 1])}
<1>1. Ends \in SUBSET Nat /\ Len(s) \in Ends
  OBVIOUS
<1>2. PICK n \in Ends : \A k \in Ends : n <= k
  BY <1>1, LeastNatural
<1>3. ASSUME NEW i \in 1..n PROVE IsDigit(s[i])
  <2>1. i - 1 \in 0..Len(s) /\ i - 1 # Len(s) /\ ~(n <= i - 1) /\ (i - 1) + 1 = i
    OBVIOUS
  <2>2. i - 1 \notin Ends
    BY <1>2, <2>1
  <2> QED
    BY <2>1, <2>2
<1>4. Leads(s, n)
  BY <1>3 DEF Leads
<1> QED
  BY <1>4

LEMMA AtolType == ASSUME NEW s \in Seq(Bytes) PROVE Atol(s) \in Nat
<1>1. PICK n : Leads(s, n)
  BY LeadsExists
<1> DEFINE d == SubSeq(s, 1, n)
<1>2. n \in 0..Len(s)
  BY <1>1 DEF Leads
<1>3. d \in Seq(Bytes) /\ Len(d) = n /\ \A i \in 1..n : d[i] = s[i]
  BY <1>2
<1> HIDE DEF d
<1>4. AllDigits(d)
  BY <1>1, <1>3 DEF AllDigits, Leads
<1> QED
  BY <1>1, <1>3, <1>4, AtolIs, ValueNat DEF d

-----------------------------------------------------------------------------
(* Numbers as digits.                                                      *)

\* Without the last digit there are fewer.
Shorter == [n \in Nat |-> n \div 10]

LEMMA ShorterIs ==
    /\ Decreases(Shorter, 10)
    /\ \A n \in Nat : /\ n \div 10 \in Nat /\ n % 10 \in 0..9 /\ n = 10 * (n \div 10) + (n % 10)
                      /\ n >= 10 => n \div 10 > 0 /\ n \div 10 < n
<1>1. ASSUME NEW n \in Nat
      PROVE  /\ n \div 10 \in Nat /\ n % 10 \in 0..9 /\ n = 10 * (n \div 10) + (n % 10)
             /\ n >= 10 => n \div 10 > 0 /\ n \div 10 < n
  OBVIOUS
<1> QED
  BY <1>1 DEF Decreases, Shorter

LEMMA CountDigitsIs ==
    \A n \in Nat : /\ countDigits(n) \in Nat
                   /\ countDigits(n) = IF n < 10 THEN 1 ELSE 1 + countDigits(n \div 10)
<1> DEFINE Is(f) == f = [n \in Nat |-> IF n < 10 THEN 1 ELSE 1 + f[n \div 10]]
           count == CHOOSE f : Is(f)
           base == [n \in 0..9 |-> 1]
           h == [p \in Nat \X Nat |-> 1 + p[2]]
<1>1. base \in [0..(10 - 1) -> Nat] /\ h \in [Nat \X Nat -> Nat] /\ 10 \in Nat
  OBVIOUS
<1>2. PICK f \in [Nat -> Nat] : IsRecursion(f, 10, base, h, Shorter)
  <2> HIDE DEF base, h
  <2> QED
    BY <1>1, ShorterIs, RecursionExists
<1>3. Is(f)
  <2>1. ASSUME NEW n \in Nat
        PROVE  (IF n < 10 THEN base[n] ELSE h[<<n, f[Shorter[n]]>>])
               = IF n < 10 THEN 1 ELSE 1 + f[n \div 10]
    <3>1. n \div 10 \in Nat /\ Shorter[n] = n \div 10 /\ (n < 10 => n \in 0..9)
      <4>1. n \div 10 \in Nat
        BY ShorterIs
      <4>2. Shorter[n] = n \div 10
        BY DEF Shorter
      <4>3. n < 10 => n \in 0..9
        OBVIOUS
      <4> QED
        BY <4>1, <4>2, <4>3
    <3>2. f[Shorter[n]] \in Nat
      BY <1>2, <3>1
    <3> QED
      BY <3>1, <3>2
  <2> HIDE DEF base, h
  <2> QED
    BY <1>2, <2>1 DEF IsRecursion
<1>4. Is(count)
  BY <1>3
<1>5. \A n : countDigits(n) = count[n]
  BY DEF countDigits
<1> HIDE DEF count, base, h
<1>6. ASSUME NEW n \in Nat PROVE count[n] = IF n < 10 THEN 1 ELSE 1 + count[n \div 10]
  BY <1>4
<1> DEFINE Bad == {n \in Nat : count[n] \notin Nat}
<1>7. Bad = {}
  <2> SUFFICES ASSUME Bad # {} PROVE FALSE
    OBVIOUS
  <2>1. Bad \in SUBSET Nat
    OBVIOUS
  <2>2. PICK n \in Bad : \A k \in Bad : n <= k
    BY <2>1, LeastNatural
  <2>3. n \in Nat /\ count[n] \notin Nat
    OBVIOUS
  <2>4. n >= 10
    BY <1>6, <2>3
  <2>5. n \div 10 \in Nat /\ n \div 10 < n
    BY <2>3, <2>4, ShorterIs
  <2>6. count[n \div 10] \in Nat
    BY <2>2, <2>3, <2>5
  <2> QED
    BY <1>6, <2>3, <2>4, <2>6
<1> QED
  BY <1>5, <1>6, <1>7, ShorterIs

LEMMA DecimalIs ==
    \A n \in Nat :
        /\ Decimal(n) \in Seq(Bytes)
        /\ Decimal(n) = IF n < 10 THEN <<Digits[n + 1]>>
                        ELSE Append(Decimal(n \div 10), Digits[(n % 10) + 1])
<1> DEFINE Is(f) == f = [n \in Nat |-> IF n < 10 THEN <<Digits[n + 1]>>
                                       ELSE Append(f[n \div 10], Digits[(n % 10) + 1])]
           text == CHOOSE f : Is(f)
           base == [n \in 0..9 |-> <<Digits[n + 1]>>]
           h == [p \in Nat \X Seq(Bytes) |-> Append(p[2], Digits[(p[1] % 10) + 1])]
<1>0. \A n \in Nat : Digits[(n % 10) + 1] \in Bytes /\ (n < 10 => Digits[n + 1] \in Bytes)
  <2>1. ASSUME NEW n \in Nat
        PROVE  (n % 10) + 1 \in 1..10 /\ (n < 10 => n + 1 \in 1..10)
    BY ShorterIs
  <2> QED
    BY <2>1, DigitsAre
<1>1. base \in [0..(10 - 1) -> Seq(Bytes)] /\ h \in [Nat \X Seq(Bytes) -> Seq(Bytes)] /\ 10 \in Nat
  <2>1. ASSUME NEW n \in 0..9 PROVE <<Digits[n + 1]>> \in Seq(Bytes)
    <3>1. Digits[n + 1] \in Bytes
      BY <1>0
    <3> QED
      BY <3>1
  <2>2. ASSUME NEW n \in Nat, NEW x \in Seq(Bytes) PROVE Append(x, Digits[(n % 10) + 1]) \in Seq(Bytes)
    <3>1. Digits[(n % 10) + 1] \in Bytes
      BY <1>0
    <3> QED
      BY <3>1
  <2>3. 0..9 = 0..(10 - 1)
    OBVIOUS
  <2>4. base \in [0..9 -> Seq(Bytes)]
    BY <2>1
  <2>5. h \in [Nat \X Seq(Bytes) -> Seq(Bytes)]
    BY <2>2
  <2> HIDE DEF base, h
  <2> QED
    BY <2>3, <2>4, <2>5
<1>2. PICK f \in [Nat -> Seq(Bytes)] : IsRecursion(f, 10, base, h, Shorter)
  <2> HIDE DEF base, h
  <2> QED
    BY <1>1, ShorterIs, RecursionExists
<1>3. Is(f)
  <2>1. ASSUME NEW n \in Nat
        PROVE  (IF n < 10 THEN base[n] ELSE h[<<n, f[Shorter[n]]>>])
               = IF n < 10 THEN <<Digits[n + 1]>>
                 ELSE Append(f[n \div 10], Digits[(n % 10) + 1])
    <3>1. n \div 10 \in Nat /\ Shorter[n] = n \div 10 /\ (n < 10 => n \in 0..9)
      <4>1. n \div 10 \in Nat
        BY ShorterIs
      <4>2. Shorter[n] = n \div 10
        BY DEF Shorter
      <4>3. n < 10 => n \in 0..9
        OBVIOUS
      <4> QED
        BY <4>1, <4>2, <4>3
    <3>2. f[Shorter[n]] \in Seq(Bytes) /\ f[Shorter[n]] = f[n \div 10]
      BY <1>2, <3>1
    <3>3. \A x \in Seq(Bytes) : h[<<n, x>>] = Append(x, Digits[(n % 10) + 1])
      OBVIOUS
    <3>4. n < 10 => base[n] = <<Digits[n + 1]>>
      BY <3>1
    <3> HIDE DEF base, h
    <3> QED
      BY <3>2, <3>3, <3>4
  <2> HIDE DEF base, h
  <2> QED
    BY <1>2, <2>1 DEF IsRecursion
<1>4. Is(text)
  BY <1>3
<1>5. \A n : Decimal(n) = text[n]
  BY DEF Decimal
<1> HIDE DEF text, base, h
<1>6. ASSUME NEW n \in Nat
      PROVE  text[n] = IF n < 10 THEN <<Digits[n + 1]>>
                       ELSE Append(text[n \div 10], Digits[(n % 10) + 1])
  BY <1>4
<1> DEFINE Bad == {n \in Nat : text[n] \notin Seq(Bytes)}
<1>7. Bad = {}
  <2> SUFFICES ASSUME Bad # {} PROVE FALSE
    OBVIOUS
  <2>1. Bad \in SUBSET Nat
    OBVIOUS
  <2>2. PICK n \in Bad : \A k \in Bad : n <= k
    BY <2>1, LeastNatural
  <2>3. n \in Nat /\ text[n] \notin Seq(Bytes)
    OBVIOUS
  <2>4. n >= 10
    <3> SUFFICES ASSUME n < 10 PROVE FALSE
      BY <2>3
    <3>1. Digits[n + 1] \in Bytes
      BY <1>0, <2>3
    <3>2. text[n] = <<Digits[n + 1]>>
      BY <1>6, <2>3
    <3>3. <<Digits[n + 1]>> \in Seq(Bytes)
      BY <3>1
    <3> QED
      BY <2>3, <3>2, <3>3
  <2>5. n \div 10 \in Nat /\ n \div 10 < n
    <3> HIDE DEF Bad
    <3> QED
      BY <2>3, <2>4, ShorterIs
  <2>6. text[n \div 10] \in Seq(Bytes)
    <3> SUFFICES ASSUME text[n \div 10] \notin Seq(Bytes) PROVE FALSE
      OBVIOUS
    <3>1. n \div 10 \in Bad
      BY <2>5
    <3> HIDE DEF Bad
    <3>2. n <= n \div 10
      BY <2>2, <3>1
    <3> QED
      BY <2>3, <2>5, <3>2
  <2>7. ~(n < 10) /\ Digits[(n % 10) + 1] \in Bytes
    BY <1>0, <2>3, <2>4
  <2>8. text[n] = Append(text[n \div 10], Digits[(n % 10) + 1])
    BY <1>6, <2>3, <2>7
  <2>9. Append(text[n \div 10], Digits[(n % 10) + 1]) \in Seq(Bytes)
    BY <2>6, <2>7
  <2> QED
    BY <2>3, <2>8, <2>9
<1> QED
  BY <1>5, <1>6, <1>7, ShorterIs

\* What sprintf("%ld") writes: as many digits as countDigits counts, without
\* leading zeros, and atol finds the number in them again.
Written(n) ==
    /\ AllDigits(Decimal(n)) /\ Len(Decimal(n)) = countDigits(n) /\ Len(Decimal(n)) >= 1
    /\ Value(Decimal(n)) = n
    /\ n > 0 => Decimal(n)[1] # "0"

LEMMA DecimalWritten == \A n \in Nat : Written(n)
<1> DEFINE Bad == {n \in Nat : ~Written(n)}
<1> SUFFICES ASSUME Bad # {} PROVE FALSE
  OBVIOUS
<1>1. Bad \in SUBSET Nat
  OBVIOUS
<1>2. PICK n \in Bad : \A k \in Bad : n <= k
  BY <1>1, LeastNatural
<1>3. n \in Nat /\ ~Written(n)
  OBVIOUS
<1> HIDE DEF Bad
<1>4. CASE n < 10
  <2> DEFINE b == Digits[n + 1]
  <2>1. n \in 0..9 /\ n + 1 \in 1..10
    BY <1>3, <1>4
  <2>2. b \in Bytes /\ IsDigit(b) /\ StrChr(Digits, b) = n + 1 /\ (n > 0 => b # "0")
    <3>1. n > 0 => n \in 1..9
      BY <2>1
    <3> QED
      BY <2>1, <3>1, DigitsAre, DigitIs, DigitAt, ZeroDigit
  <2> HIDE DEF b
  <2>3. Decimal(n) = <<b>> /\ <<b>> = Append(<<>>, b) /\ <<>> \in Seq(Bytes)
    BY <1>3, <1>4, DecimalIs DEF b
  <2>4. Value(Decimal(n)) = 10 * 0 + StrChr(Digits, b) - 1
    BY <2>2, <2>3, ValueAppend, ValueEmpty
  <2>5. countDigits(n) = 1
    BY <1>3, <1>4, CountDigitsIs
  <2>6. AllDigits(Decimal(n)) /\ Len(Decimal(n)) = 1 /\ Decimal(n)[1] = b
    BY <2>2, <2>3 DEF AllDigits
  <2> QED
    BY <1>3, <2>2, <2>4, <2>5, <2>6 DEF Written
<1>5. CASE n >= 10
  <2> DEFINE m == n \div 10
             v == n % 10
             b == Digits[v + 1]
             s == Decimal(m)
  <2>1. m \in Nat /\ v \in 0..9 /\ n = 10 * m + v /\ m > 0 /\ m < n
    BY <1>3, <1>5, ShorterIs
  <2>2. Written(m)
    BY <1>2, <2>1 DEF Bad
  <2>3. s \in Seq(Bytes) /\ Decimal(n) = Append(s, b)
    <3>1. ~(n < 10)
      BY <1>3, <1>5
    <3>2. Decimal(n) = Append(Decimal(n \div 10), Digits[(n % 10) + 1])
      BY <1>3, <3>1, DecimalIs
    <3>3. Decimal(m) \in Seq(Bytes)
      <4> HIDE DEF m
      <4> QED
        BY <2>1, DecimalIs
    <3> QED
      BY <3>2, <3>3
  <2>4. countDigits(n) = 1 + countDigits(m) /\ countDigits(m) \in Nat
    BY <1>3, <1>5, <2>1, CountDigitsIs
  <2>5. b \in Bytes /\ IsDigit(b) /\ StrChr(Digits, b) = v + 1
    <3>1. v + 1 \in 1..10
      BY <2>1
    <3> HIDE DEF v
    <3> QED
      BY <2>1, <3>1, DigitsAre, DigitIs, DigitAt
  <2> HIDE DEF b, v, m
  <2>6. /\ AllDigits(s) /\ Len(s) = countDigits(m) /\ Len(s) >= 1 /\ Value(s) = m /\ s[1] # "0"
        /\ Len(s) \in Nat
    BY <2>1, <2>2, <2>3 DEF Written
  <2> HIDE DEF s
  <2>7. Value(Append(s, b)) = 10 * m + (v + 1) - 1
    BY <2>3, <2>5, <2>6, ValueAppend
  <2> DEFINE t == Append(s, b)
  <2>8. /\ Len(t) = Len(s) + 1 /\ t[Len(s) + 1] = b /\ \A i \in 1..Len(s) : t[i] = s[i]
    BY <2>3, <2>5
  <2> HIDE DEF t
  <2>9. AllDigits(t)
    BY <2>5, <2>6, <2>8 DEF AllDigits
  <2>10. t[1] = s[1]
    <3>1. 1 \in 1..Len(s)
      BY <2>6
    <3> QED
      BY <2>8, <3>1
  <2> QED
    <3>1. Decimal(n) = t
      BY <2>3 DEF t
    <3>2. Value(t) = n
      BY <2>1, <2>7 DEF t
    <3>3. Len(t) = countDigits(n) /\ Len(t) >= 1
      BY <2>4, <2>6, <2>8
    <3>4. Written(n)
      BY <2>6, <2>9, <2>10, <3>1, <3>2, <3>3 DEF Written
    <3> QED
      BY <1>3, <3>4
<1> QED
  BY <1>3, <1>4, <1>5

-----------------------------------------------------------------------------
(* Netstrings.                                                             *)

Frame(d, p) == d \o <<":">> \o p \o <<Comma>>

\* Place by place: n digits, ':', the payload, ','.
Form(b, n, p) ==
    /\ n \in Nat /\ Len(b) = n + Len(p) + 2
    /\ b[n + 1] = ":" /\ b[Len(b)] = Comma
    /\ \A i \in 1..Len(p) : b[n + 1 + i] = p[i]

LEMMA FrameForm ==
    ASSUME NEW d \in Seq(Bytes), NEW p \in Seq(Bytes)
    PROVE  /\ Frame(d, p) \in Seq(Bytes) /\ Form(Frame(d, p), Len(d), p)
           /\ \A i \in 1..Len(d) : Frame(d, p)[i] = d[i]
<1> DEFINE colon == <<":">>
           comma == <<Comma>>
           u == d \o colon
           v == u \o p
           b == v \o comma
<1>1. PICK n \in Nat : n = Len(d)
  OBVIOUS
<1>2. PICK l \in Nat : l = Len(p)
  OBVIOUS
<1>3. /\ colon \in Seq(Bytes) /\ Len(colon) = 1 /\ colon[1] = ":"
      /\ comma \in Seq(Bytes) /\ Len(comma) = 1 /\ comma[1] = Comma
  BY Marks, One
<1>4. Frame(d, p) = b
  BY DEF Frame
<1> HIDE DEF colon, comma
<1>5. u \in Seq(Bytes) /\ Len(u) = n + 1 /\ u[n + 1] = ":" /\ \A i \in 1..n : u[i] = d[i]
  <2>1. u \in Seq(Bytes) /\ Joins(u, d, colon)
    BY <1>3, ConcatIs
  <2> HIDE DEF u
  <2>2. 1 \in 1..Len(colon)
    BY <1>3
  <2> QED
    BY <1>1, <1>3, <2>1, <2>2 DEF Joins
<1> HIDE DEF u
<1>6. /\ v \in Seq(Bytes) /\ Len(v) = n + 1 + l
      /\ \A i \in 1..(n + 1) : v[i] = u[i]
      /\ \A i \in 1..l : v[n + 1 + i] = p[i]
  <2>1. v \in Seq(Bytes) /\ Joins(v, u, p)
    BY <1>5, ConcatIs
  <2> HIDE DEF v
  <2> QED
    BY <1>2, <1>5, <2>1 DEF Joins
<1> HIDE DEF v
<1>7. /\ b \in Seq(Bytes) /\ Len(b) = n + 1 + l + 1 /\ b[n + 1 + l + 1] = Comma
      /\ \A i \in 1..(n + 1 + l) : b[i] = v[i]
  <2>1. b \in Seq(Bytes) /\ Joins(b, v, comma)
    BY <1>3, <1>6, ConcatIs
  <2> HIDE DEF b
  <2>2. 1 \in 1..Len(comma)
    BY <1>3
  <2> QED
    BY <1>3, <1>6, <2>1, <2>2 DEF Joins
<1> HIDE DEF b
<1>8. ASSUME NEW i \in 1..n PROVE b[i] = d[i]
  <2>1. i \in 1..(n + 1 + l) /\ i \in 1..(n + 1) /\ i \in 1..n
    OBVIOUS
  <2> QED
    BY <1>5, <1>6, <1>7, <2>1
<1>9. b[n + 1] = ":"
  <2>1. n + 1 \in 1..(n + 1 + l) /\ n + 1 \in 1..(n + 1)
    OBVIOUS
  <2> QED
    BY <1>5, <1>6, <1>7, <2>1
<1>10. ASSUME NEW i \in 1..l PROVE b[n + 1 + i] = p[i]
  <2>1. n + 1 + i \in 1..(n + 1 + l)
    OBVIOUS
  <2> QED
    BY <1>6, <1>7, <2>1
<1>11. Len(b) = n + l + 2 /\ b[Len(b)] = Comma
  <2>1. n + 1 + l + 1 = n + l + 2
    OBVIOUS
  <2> QED
    BY <1>7, <2>1
<1>12. Form(b, n, p)
  BY <1>2, <1>9, <1>10, <1>11 DEF Form
<1> QED
  BY <1>1, <1>4, <1>7, <1>8, <1>12

\* What the netstring of p is: its digits give the length.
Spells(b, n, p) ==
    /\ Form(b, n, p) /\ n >= 1 /\ b[1] # "0"
    /\ \A i \in 1..n : IsDigit(b[i])
    /\ Value(SubSeq(b, 1, n)) = Len(p)

LEMMA LeadsForm ==
    ASSUME NEW b \in Seq(Bytes), NEW p \in Seq(Bytes), NEW n, Form(b, n, p),
           \A i \in 1..n : IsDigit(b[i])
    PROVE  Leads(b, n) /\ Atol(b) = Value(SubSeq(b, 1, n))
<1>1. n \in Nat /\ Len(p) \in Nat /\ Len(b) = n + Len(p) + 2 /\ b[n + 1] = ":"
  BY DEF Form
<1>2. n \in 0..Len(b)
  BY <1>1
<1>3. ~IsDigit(b[n + 1])
  BY <1>1, NoDigits
<1>4. Leads(b, n)
  BY <1>2, <1>3 DEF Leads
<1> QED
  BY <1>4, AtolIs

LEMMA NetstringSpells ==
    ASSUME NEW b \in Seq(Bytes), NEW p \in Seq(Bytes), Netstring(b, p)
    PROVE  \E n \in 1..Len(b) : Spells(b, n, p)
<1>1. PICK n \in 1..Len(b) :
        /\ b = SubSeq(b, 1, n) \o <<":">> \o p \o <<Comma>>
        /\ ToSet(SubSeq(b, 1, n)) \subseteq ToSet(Digits) /\ b[1] # "0"
        /\ Atol(b) = Len(p)
  BY DEF Netstring
<1> DEFINE d == SubSeq(b, 1, n)
<1>2. d \in Seq(Bytes) /\ Len(d) = n /\ n \in Nat /\ n >= 1 /\ \A i \in 1..n : d[i] = b[i]
  OBVIOUS
<1>3. b = Frame(d, p) /\ ToSet(d) \subseteq ToSet(Digits)
  BY <1>1 DEF Frame
<1> HIDE DEF d
<1>4. Form(b, n, p)
  BY <1>2, <1>3, FrameForm
<1>5. ASSUME NEW i \in 1..n PROVE IsDigit(b[i])
  <2>1. i \in DOMAIN d
    BY <1>2
  <2>2. d[i] \in ToSet(d)
    BY <2>1 DEF ToSet
  <2> QED
    BY <1>2, <1>3, <2>2 DEF IsDigit
<1>6. Value(d) = Len(p)
  BY <1>1, <1>4, <1>5, LeadsForm DEF d
<1>7. Spells(b, n, p)
  BY <1>1, <1>2, <1>4, <1>5, <1>6 DEF Spells, d
<1> QED
  BY <1>7

LEMMA SendMessageIs ==
    ASSUME NEW p \in Seq(Bytes), Len(Decimal(Len(p))) + Len(p) < BufSize
    PROVE  sendMessage(BufSize, p) = Frame(Decimal(Len(p)), p)
<1> DEFINE l == Len(p)
           d == Decimal(l)
           n == Len(d)
           b == Frame(d, p)
           net == writeNet(BufSize, p)
<1>1. l \in Nat /\ d \in Seq(Bytes) /\ n \in Nat /\ countDigits(l) = n /\ BufSize \in Nat
  <2>1. l \in Nat
    OBVIOUS
  <2>2. d \in Seq(Bytes) /\ countDigits(l) = n
    <3> HIDE DEF l
    <3> QED
      BY <2>1, DecimalIs, DecimalWritten DEF Written
  <2> QED
    BY <2>1, <2>2, BufSizeAssumption
<1>2. b \in Seq(Bytes) /\ Len(b) = n + l + 2
  BY <1>1, FrameForm DEF Form
<1>3. Accepted(BufSize, l)
  BY <1>1 DEF Accepted
<1>4. net.dest = b /\ net.result = l + n + 1
  BY <1>1, <1>3 DEF writeNet, Frame
<1>5. sendMessage(BufSize, p) = [k \in 1..(net.result + 1) |-> IF k <= Len(net.dest) THEN net.dest[k]
                                 ELSE IF k <= BufSize THEN Nul ELSE Unknown]
  BY DEF sendMessage
<1> HIDE DEF net, b
<1>6. net.result + 1 = Len(b)
  <2> HIDE DEF l, n
  <2> QED
    BY <1>1, <1>2, <1>4
<1>7. sendMessage(BufSize, p) = [k \in 1..Len(b) |-> b[k]]
  <2>1. \A k \in 1..Len(b) : k <= Len(b)
    BY <1>2
  <2> QED
    BY <1>4, <1>5, <1>6, <2>1
<1>8. b = [k \in 1..Len(b) |-> b[k]]
  BY <1>2
<1> QED
  BY <1>7, <1>8 DEF b

LEMMA MessageIsNetstring ==
    ASSUME NEW p \in Seq(Bytes) \ {<<>>}, Len(Decimal(Len(p))) + Len(p) < BufSize
    PROVE  Netstring(sendMessage(BufSize, p), p)
<1> DEFINE l == Len(p)
           d == Decimal(l)
           n == Len(d)
           b == Frame(d, p)
<1>1. l \in Nat /\ l > 0
  OBVIOUS
<1>2. /\ d \in Seq(Bytes) /\ n \in Nat /\ AllDigits(d) /\ n >= 1 /\ Value(d) = l /\ d[1] # "0"
  <2> HIDE DEF l
  <2>1. d \in Seq(Bytes)
    BY <1>1, DecimalIs
  <2>2. AllDigits(d) /\ n >= 1 /\ Value(d) = l /\ d[1] # "0"
    BY <1>1, DecimalWritten DEF Written
  <2> QED
    BY <2>1, <2>2
<1>3. b \in Seq(Bytes) /\ Form(b, n, p) /\ \A i \in 1..n : b[i] = d[i]
  BY <1>1, <1>2, FrameForm
<1>4. b = d \o <<":">> \o p \o <<Comma>>
  BY DEF Frame
<1>5. sendMessage(BufSize, p) = b
  BY SendMessageIs
<1> HIDE DEF d, b
<1>6. Len(b) \in Nat /\ n <= Len(b) /\ n \in 1..Len(b)
  <2>1. Len(b) = n + l + 2
    BY <1>3 DEF Form
  <2> HIDE DEF n, l
  <2> QED
    BY <1>1, <1>2, <2>1
<1>7. SubSeq(b, 1, n) = d
  <2> DEFINE e == SubSeq(b, 1, n)
  <2>1. e \in Seq(Bytes) /\ Len(e) = n /\ \A i \in 1..n : e[i] = b[i]
    BY <1>3, <1>6
  <2> HIDE DEF e
  <2>2. e = d
    BY <1>2, <1>3, <2>1, SameSeq
  <2> QED
    BY <2>2 DEF e
<1>8. \A i \in 1..n : IsDigit(b[i])
  BY <1>2, <1>3 DEF AllDigits
<1>9. Atol(b) = l
  <2>1. Atol(b) = Value(SubSeq(b, 1, n))
    <3> HIDE DEF n
    <3> QED
      BY <1>3, <1>8, LeadsForm
  <2> QED
    BY <1>2, <1>7, <2>1
<1>10. ToSet(d) \subseteq ToSet(Digits)
  BY <1>2 DEF AllDigits, IsDigit, ToSet
<1>11. b[1] = d[1]
  BY <1>2, <1>3
<1>12. Netstring(b, p)
  BY <1>2, <1>4, <1>6, <1>7, <1>9, <1>10, <1>11 DEF Netstring
<1> QED
  BY <1>5, <1>12

-----------------------------------------------------------------------------

LEMMA StreamKept == Spec => [](sent \in Streams)
<1>1. Init => sent \in Streams
  BY DEF Init
<1>2. sent \in Streams /\ [Next]_vars => (sent \in Streams)'
  BY DEF Next, Step, Stays, PeerCloses, vars, FirstRead, FirstReadFails, NextNetstring, FillEnds,
         FillRead, FillEof, FillTimeout, Refuse, Convert, CallAgain
<1> QED
  BY <1>1, <1>2, PTL DEF Spec

\* Every message that has room goes out as its netstring and nothing else,
\* whatever bytes it has and however long the buffers are (sendMessage).
THEOREM Sends == Spec => []SendsNetstrings
<1>1. sent \in Streams => SendsNetstrings
  <2> SUFFICES ASSUME sent \in Streams, NEW p \in ToSet(sent.payloads),
                      Len(Decimal(Len(p))) + Len(p) < BufSize
               PROVE  Netstring(sendMessage(BufSize, p), p)
    BY DEF SendsNetstrings
  <2>1. sent.payloads \in Seq(Seq(Bytes) \ {<<>>})
    BY StreamsAssumption
  <2>2. p \in Seq(Bytes) \ {<<>>}
    BY <2>1 DEF ToSet
  <2> QED
    BY <2>2, MessageIsNetstring
<1> QED
  BY <1>1, StreamKept, PTL

-----------------------------------------------------------------------------
(* message_length.                                                         *)

Strings == Seq(Bytes)

LengthStep(s) == [p \in (1..Len(s)) \X Nat |-> p[2] + Len(s[p[1]]) + 1]

LEMMA LengthSteps ==
    ASSUME NEW s \in Seq(Strings)
    PROVE  \E v : Steps(v, Len(s), Nat, 0, LengthStep(s)) /\ MessageLength(s) = v[Len(s)]
<1> DEFINE n == Len(s)
           D == 1..n
           h == LengthStep(s)
           zero == 0
           Is(f) == f = [T \in SUBSET D |->
                          IF T = {} THEN 0 ELSE f[T \ {Max(T)}] + Len(s[Max(T)]) + 1]
           iter == CHOOSE f : Is(f)
<1>1. n \in Nat /\ DOMAIN s = D
  OBVIOUS
<1>2. \A k \in D : Len(s[k]) \in Nat
  BY DEF Strings
<1>3. h \in [D \X Nat -> Nat] /\ zero \in Nat
  BY <1>2 DEF LengthStep
<1>4. \A k \in D, x \in Nat : h[<<k, x>>] = x + Len(s[k]) + 1
  BY DEF LengthStep
<1>5. PICK f \in [SUBSET D -> Nat] : IsLeftFold(f, n, zero, h)
  <2> HIDE DEF n, h, zero
  <2> QED
    BY <1>1, <1>3, LeftFoldExists
<1>6. \A T \in (SUBSET D) \ {{}} : Max(T) \in D
  BY <1>1, GreatestOfSome
<1> HIDE DEF h, D
<1>7. Is(f)
  <2>1. ASSUME NEW T \in SUBSET D, T # {}
        PROVE  h[<<Max(T), f[T \ {Max(T)}]>>] = f[T \ {Max(T)}] + Len(s[Max(T)]) + 1
    BY <1>4, <1>5, <1>6, <2>1
  <2> QED
    BY <1>5, <2>1 DEF IsLeftFold, D
<1>8. Is(iter)
  BY <1>7
<1>9. MessageLength(s) = iter[D]
  BY <1>1 DEF MessageLength, FoldLeft, MapThenFoldSet
<1> HIDE DEF iter
<1>10. FoldsLeft(iter, n, Nat, zero, h)
  <2>1. iter[{}] = 0
    BY <1>8
  <2>2. ASSUME NEW T \in (SUBSET D) \ {{}}, iter[T \ {Max(T)}] \in Nat
        PROVE  iter[T] = h[<<Max(T), iter[T \ {Max(T)}]>>]
    <3>1. iter[T] = iter[T \ {Max(T)}] + Len(s[Max(T)]) + 1
      BY <1>8
    <3> QED
      BY <1>4, <1>6, <2>2, <3>1
  <2> QED
    BY <2>1, <2>2 DEF FoldsLeft, D
<1> HIDE DEF zero, n
<1>11. Steps(PrefixFolds(iter, n), n, Nat, zero, h)
  BY <1>1, <1>3, <1>10, LeftFoldSteps DEF D
<1>12. PrefixFolds(iter, n)[n] = iter[D]
  BY <1>1 DEF D, PrefixFolds
<1> QED
  BY <1>9, <1>11, <1>12 DEF zero, n, h

LEMMA LengthEmpty == MessageLength(<<>>) = 0
<1>1. <<>> \in Seq(Strings) /\ Len(<<>>) = 0
  OBVIOUS
<1>2. PICK v : Steps(v, 0, Nat, 0, LengthStep(<<>>)) /\ MessageLength(<<>>) = v[0]
  BY <1>1, LengthSteps
<1> QED
  BY <1>2 DEF Steps

\* Each string adds its length and a 0 byte.
LEMMA LengthAppend ==
    ASSUME NEW s \in Seq(Strings), NEW b \in Strings
    PROVE  /\ MessageLength(s) \in Nat
           /\ MessageLength(Append(s, b)) = MessageLength(s) + Len(b) + 1
<1> DEFINE t == Append(s, b)
           n == Len(s)
           zero == 0
           hs == LengthStep(s)
           ht == LengthStep(t)
<1>1. /\ n \in Nat /\ t \in Seq(Strings) /\ Len(t) = n + 1 /\ t[n + 1] = b
      /\ \A i \in 1..n : t[i] = s[i]
  OBVIOUS
<1> HIDE DEF t
<1>2. PICK v : Steps(v, n, Nat, zero, hs) /\ MessageLength(s) = v[n]
  BY LengthSteps
<1>3. PICK w : Steps(w, n + 1, Nat, zero, ht) /\ MessageLength(t) = w[n + 1]
  BY <1>1, LengthSteps
<1>4. SameSteps(ht, hs, 1..n, Nat)
  <2>1. ASSUME NEW k \in 1..n, NEW x \in Nat PROVE ht[<<k, x>>] = hs[<<k, x>>]
    <3>1. k \in 1..Len(t) /\ t[k] = s[k]
      BY <1>1
    <3> QED
      BY <3>1 DEF LengthStep
  <2> QED
    BY <2>1 DEF SameSteps
<1>5. w[n] = v[n]
  <2> HIDE DEF zero, hs, ht, n
  <2>1. n + 1 \in Nat /\ n <= n + 1
    BY <1>1
  <2> QED
    BY <1>1, <1>2, <1>3, <1>4, <2>1, StepsAgree
<1>6. w[n + 1] = ht[<<n + 1, w[n]>>] /\ w[n] \in Nat
  <2>1. n + 1 \in 1..(n + 1) /\ (n + 1) - 1 = n /\ n \in 0..(n + 1)
    BY <1>1
  <2> QED
    BY <1>3, <2>1 DEF Steps
<1>7. ht[<<n + 1, w[n]>>] = w[n] + Len(t[n + 1]) + 1
  <2>1. n + 1 \in 1..Len(t)
    BY <1>1
  <2> QED
    BY <1>6, <2>1 DEF LengthStep
<1> QED
  BY <1>1, <1>2, <1>3, <1>5, <1>6, <1>7 DEF t

-----------------------------------------------------------------------------
(* The inductive invariant.                                                *)

\* A stream that begins with a netstring, or with something malformed that
\* readNet does not see at the first byte.  Only the others have 0 bytes.
Plain(s) == s.bytes[1] # "0"

\* The bytes from netstring d + 1 on, as far as the first r are there.
Rest(s, d, r) == SubSeq(s.bytes, s.ends[d] + 1, r)

\* What readNet knows of netstring d + 1 from its head: k bytes in front of the
\* first ':', which give the length l.
Reads(s, d, r, k, l) ==
    LET e == s.ends[d]
    IN /\ k \in Nat /\ l \in Nat /\ e + k + 1 <= r
       /\ s.bytes[e + 1] # "0" /\ s.bytes[e + k + 1] = ":"
       /\ \A i \in 1..k : s.bytes[e + i] # ":" /\ s.bytes[e + i] # Comma
       /\ l = Atol(SubSeq(s.bytes, e + 1, e + k))

\* The number of netstrings that are handed out or gathered.
Done == Len(got) + nets

\* incoming is the end of the stream.
InStream ==
    /\ incoming \in Seq(Bytes) /\ Len(incoming) <= Len(sent.bytes)
    /\ \A i \in 1..Len(incoming) : incoming[i] = sent.bytes[Received + i]
    /\ ~cut => Received \in Range(sent.ends)

\* The first payloads are handed out, the next ones gathered, the last of them
\* twice.
InOrder ==
    /\ nets \in Int /\ nets >= -1 /\ got \in Seq(Seq(Bytes)) /\ respDst \in Seq(Seq(Bytes))
    /\ nets >= 0 => Done <= Len(sent.payloads)
    /\ \A i \in 1..Len(got) : got[i] = sent.payloads[i]
    /\ nets <= 0 => respDst = <<>>
    /\ nets >= 1 =>
        /\ Len(respDst) = nets + 1 /\ respDst[nets + 1] = sent.payloads[Done]
        /\ \A i \in 1..nets : respDst[i] = sent.payloads[Len(got) + i]

\* What is read and not yet gathered is in buf, and between two calls there is
\* nothing of the kind.
AtPlace ==
    /\ pc \in {"read", "next", "fill", "convert", "returned", "exit", "crash"}
    /\ buf \in Seq(Bytes) /\ Len(buf) = BufSize
    /\ pc = "read" => nets = 0
    /\ pc # "returned" => nets >= 0
    /\ pc \in {"read", "returned"} /\ nets >= 0 => sent.ends[Done] = Received
    /\ pc \in {"next", "fill", "convert"} =>
        /\ sent.ends[Done] <= Received
        /\ Text(buf, 0, Rest(sent, Done, Received))
        /\ MessageLength(SubSeq(respDst, 1, nets)) <= sent.ends[Done]
    /\ pc \in {"fill", "convert"} => Reads(sent, Done, Received, digits, strLength)

\* There is room, and nothing is refused.
Safe == HasRoom => pc # "crash" /\ (~cut => pc # "exit")

Sync == InStream /\ InOrder /\ AtPlace /\ Safe

\* A stream that begins with 0 is refused at once.
Refused ==
    /\ pc \in {"read", "next", "returned", "exit", "crash"}
    /\ ~patched /\ nets \in {0, -1} /\ respDst = <<>> /\ got = <<>>
    /\ pc = "read" => incoming = sent.bytes /\ nets = 0
    /\ pc = "next" => src # <<>> /\ Head(src) = "0"
    /\ HasRoom => pc # "crash"

Inv ==
    /\ sent \in Streams /\ cut \in BOOLEAN /\ patched \in BOOLEAN
    /\ ~cut => ~patched
    /\ Plain(sent) => (InStep => Sync)
    /\ ~Plain(sent) => Refused

-----------------------------------------------------------------------------
(* Streams.                                                                *)

\* Where netstring d + 1 ends and what is in it, when it has k digits.
Part(s, d, k) ==
    LET e == s.ends[d]
        p == s.payloads[d + 1]
    IN /\ k \in Nat /\ k >= 1 /\ s.ends[d + 1] = e + k + Len(p) + 2
       /\ s.bytes[e + 1] # "0" /\ s.bytes[e + k + 1] = ":" /\ s.bytes[s.ends[d + 1]] = Comma
       /\ \A i \in 1..k : IsDigit(s.bytes[e + i])
       /\ \A i \in 1..Len(p) : s.bytes[e + k + 1 + i] = p[i]
       /\ Value(SubSeq(s.bytes, e + 1, e + k)) = Len(p)

Shape(s) ==
    /\ s.bytes \in Seq(Bytes) /\ s.bytes # <<>> /\ Len(s.bytes) \in Nat /\ Len(s.bytes) > 0
    /\ s.payloads \in Seq(Strings) /\ Len(s.payloads) \in Nat
    /\ \A i \in 1..Len(s.payloads) : s.payloads[i] \in Strings /\ Len(s.payloads[i]) \in Nat
    /\ \A i \in 0..Len(s.payloads) : s.ends[i] \in 0..Len(s.bytes) /\ s.ends[i] \in Nat
    /\ s.ends[0] = 0
    /\ DOMAIN s.ends = 0..Len(s.payloads)

LEMMA StreamShape == ASSUME NEW s \in Streams PROVE Shape(s)
<1>1. s.bytes \in Seq(Bytes) /\ s.bytes # <<>>
  BY StreamsAssumption
<1>2. Len(s.bytes) \in Nat /\ Len(s.bytes) > 0
  BY <1>1
<1>3. s.payloads \in Seq(Seq(Bytes) \ {<<>>})
  BY StreamsAssumption
<1>4. s.payloads \in Seq(Strings) /\ Len(s.payloads) \in Nat
  BY <1>3 DEF Strings
<1>5. \A i \in 1..Len(s.payloads) : s.payloads[i] \in Strings /\ Len(s.payloads[i]) \in Nat
  BY <1>3 DEF Strings
<1>6. s.ends \in [0..Len(s.payloads) -> 0..Len(s.bytes)] /\ s.ends[0] = 0
  BY StreamsAssumption
<1> QED
  BY <1>1, <1>2, <1>4, <1>5, <1>6 DEF Shape

LEMMA NextEnd ==
    ASSUME NEW s \in Streams, NEW d \in Nat, d < Len(s.payloads)
    PROVE  /\ s.ends[d] < s.ends[d + 1]
           /\ Netstring(SubSeq(s.bytes, s.ends[d] + 1, s.ends[d + 1]), s.payloads[d + 1])
<1>1. Shape(s)
  BY StreamShape
<1>2. d + 1 \in DOMAIN s.payloads /\ (d + 1) - 1 = d
  BY <1>1 DEF Shape
<1> QED
  BY <1>2, StreamsAssumption

LEMMA EndsGrow ==
    ASSUME NEW s \in Streams, NEW i \in 0..Len(s.payloads), NEW j \in 0..Len(s.payloads)
    PROVE  /\ i < j => s.ends[i] < s.ends[j]
           /\ s.ends[i] < s.ends[j] => i < j
<1> DEFINE n == Len(s.payloads)
           Good == {m \in Nat : \A k \in 0..n : k + m + 1 \in 0..n => s.ends[k] < s.ends[k + m + 1]}
<1>1. n \in Nat /\ \A k \in 0..n : s.ends[k] \in Nat
  BY StreamShape DEF Shape
<1> HIDE DEF n
<1>2. 0 \in Good
  <2> SUFFICES ASSUME NEW k \in 0..n, k + 0 + 1 \in 0..n PROVE s.ends[k] < s.ends[k + 0 + 1]
    OBVIOUS
  <2>1. k \in Nat /\ k < n /\ k + 0 + 1 = k + 1
    BY <1>1
  <2> QED
    BY <2>1, NextEnd DEF n
<1>3. ASSUME NEW m \in Good PROVE m + 1 \in Good
  <2> SUFFICES ASSUME NEW k \in 0..n, k + (m + 1) + 1 \in 0..n
               PROVE  s.ends[k] < s.ends[k + (m + 1) + 1]
    OBVIOUS
  <2>1. k + m + 1 \in 0..n /\ k + m + 1 \in Nat /\ k + m + 1 < n
        /\ (k + m + 1) + 1 = k + (m + 1) + 1
    BY <1>1
  <2>2. s.ends[k] < s.ends[k + m + 1]
    BY <2>1
  <2>3. s.ends[k + m + 1] < s.ends[(k + m + 1) + 1]
    BY <2>1, NextEnd DEF n
  <2>4. s.ends[k] \in Nat /\ s.ends[k + m + 1] \in Nat /\ s.ends[(k + m + 1) + 1] \in Nat
    BY <1>1, <2>1
  <2> QED
    BY <2>1, <2>2, <2>3, <2>4
<1>4. Good = Nat
  <2>1. Good \in SUBSET Nat
    OBVIOUS
  <2> HIDE DEF Good
  <2> QED
    BY <1>2, <1>3, <2>1, NumbersByInduction
<1>5. ASSUME NEW k \in 0..n, NEW l \in 0..n, k < l PROVE s.ends[k] < s.ends[l]
  <2>1. PICK m \in Nat : m = l - k - 1
    BY <1>1, <1>5
  <2>2. k + m + 1 = l
    BY <1>1, <2>1
  <2>3. m \in Good
    BY <1>4
  <2> QED
    BY <2>2, <2>3
<1>6. ASSUME s.ends[i] < s.ends[j] PROVE i < j
  <2> USE DEF n
  <2> SUFFICES ASSUME ~(i < j) PROVE FALSE
    OBVIOUS
  <2>1. j < i \/ j = i
    BY <1>1
  <2>2. j < i => s.ends[j] < s.ends[i]
    BY <1>5
  <2> QED
    BY <1>1, <1>6, <2>1, <2>2
<1> QED
  BY <1>5, <1>6 DEF n

LEMMA PartExists ==
    ASSUME NEW s \in Streams, NEW d \in Nat, d < Len(s.payloads)
    PROVE  \E k : Part(s, d, k)
<1> DEFINE e == s.ends[d]
           f == s.ends[d + 1]
           p == s.payloads[d + 1]
           b == SubSeq(s.bytes, e + 1, f)
<1>1. /\ e \in Nat /\ f \in Nat /\ f <= Len(s.bytes) /\ s.bytes \in Seq(Bytes)
      /\ p \in Seq(Bytes) /\ Len(p) \in Nat
  <2>1. Shape(s)
    BY StreamShape
  <2>2. d \in 0..Len(s.payloads) /\ d + 1 \in 0..Len(s.payloads) /\ d + 1 \in 1..Len(s.payloads)
    BY <2>1 DEF Shape
  <2> QED
    BY <2>1, <2>2 DEF Shape, Strings
<1>2. e < f /\ Netstring(b, p)
  BY NextEnd
<1> HIDE DEF e, f, p
<1>3. b \in Seq(Bytes) /\ Len(b) = f - e /\ \A i \in 1..(f - e) : b[i] = s.bytes[e + i]
  BY <1>1, <1>2, SubIs
<1>4. PICK k \in 1..Len(b) : Spells(b, k, p)
  BY <1>1, <1>2, <1>3, NetstringSpells
<1>5. /\ k \in Nat /\ k >= 1 /\ Len(b) = k + Len(p) + 2
      /\ b[1] # "0" /\ b[k + 1] = ":" /\ b[Len(b)] = Comma
      /\ \A i \in 1..k : IsDigit(b[i])
      /\ \A i \in 1..Len(p) : b[k + 1 + i] = p[i]
      /\ Value(SubSeq(b, 1, k)) = Len(p)
  BY <1>4 DEF Spells, Form
<1> HIDE DEF b
<1>6. SubSeq(b, 1, k) = SubSeq(s.bytes, e + 1, e + k)
  <2> DEFINE x == SubSeq(b, 1, k)
             y == SubSeq(s.bytes, e + 1, e + k)
  <2>1. k <= Len(b) /\ k <= f - e
    BY <1>1, <1>3, <1>5
  <2>2. x \in Seq(Bytes) /\ Len(x) = k /\ \A i \in 1..k : x[i] = b[i]
    BY <1>3, <1>5, <2>1
  <2>3. y \in Seq(Bytes) /\ Len(y) = k /\ \A i \in 1..k : y[i] = s.bytes[e + i]
    <3>1. PICK c \in Nat : c = e + k
      BY <1>1, <1>5
    <3>2. e <= c /\ c <= Len(s.bytes) /\ c - e = k
      BY <1>1, <1>2, <1>5, <2>1, <3>1
    <3> DEFINE z == SubSeq(s.bytes, e + 1, c)
    <3>3. z \in Seq(Bytes) /\ Len(z) = c - e /\ \A i \in 1..(c - e) : z[i] = s.bytes[e + i]
      BY <1>1, <3>2, SubIs
    <3> QED
      BY <3>1, <3>2, <3>3
  <2> HIDE DEF x, y
  <2>4. ASSUME NEW i \in 1..Len(x) PROVE x[i] = y[i]
    <3>1. i \in 1..k /\ i \in 1..(f - e)
      BY <1>1, <1>5, <2>1, <2>2
    <3> QED
      BY <1>3, <2>2, <2>3, <3>1
  <2>5. x = y
    BY <1>5, <2>2, <2>3, <2>4, SameSeq
  <2> QED
    BY <2>5 DEF x, y
<1>7. ASSUME NEW i \in 1..(k + Len(p) + 2) PROVE b[i] = s.bytes[e + i]
  BY <1>3, <1>5
<1>8. f = e + k + Len(p) + 2
  <2>1. Len(b) = f - e
    BY <1>3
  <2>2. Len(b) = k + Len(p) + 2 /\ k \in Int
    BY <1>5
  <2>3. e \in Int /\ f \in Int /\ Len(p) \in Int
    BY <1>1
  <2> QED
    BY <2>1, <2>2, <2>3
<1>9. s.bytes[e + 1] # "0"
  <2>1. 1 \in 1..(k + Len(p) + 2)
    BY <1>1, <1>5
  <2> QED
    BY <1>5, <1>7, <2>1
<1>10. s.bytes[e + k + 1] = ":"
  <2>1. k + 1 \in 1..(k + Len(p) + 2) /\ e + (k + 1) = e + k + 1
    BY <1>1, <1>5
  <2> QED
    BY <1>5, <1>7, <2>1
<1>11. s.bytes[f] = Comma
  <2>1. Len(b) \in 1..(k + Len(p) + 2) /\ e + Len(b) = f
    BY <1>1, <1>5, <1>8
  <2> QED
    BY <1>5, <1>7, <2>1
<1>12. ASSUME NEW i \in 1..k PROVE IsDigit(s.bytes[e + i])
  <2>1. i \in 1..(k + Len(p) + 2)
    BY <1>1, <1>5
  <2> QED
    BY <1>5, <1>7, <2>1
<1>13. ASSUME NEW i \in 1..Len(p) PROVE s.bytes[e + k + 1 + i] = p[i]
  <2>1. k + 1 + i \in 1..(k + Len(p) + 2) /\ e + (k + 1 + i) = e + k + 1 + i
    BY <1>1, <1>5
  <2> QED
    BY <1>5, <1>7, <2>1
<1>14. Value(SubSeq(s.bytes, e + 1, e + k)) = Len(p)
  BY <1>5, <1>6
<1>15. Part(s, d, k)
  BY <1>5, <1>8, <1>9, <1>10, <1>11, <1>12, <1>13, <1>14 DEF Part, e, f, p
<1> QED
  BY <1>15

\* A plain stream has no 0 byte.
LEMMA PlainIs == ASSUME NEW s \in Streams, Plain(s) PROVE HasNone(s.bytes, Nul)
<1>1. Nul \notin ToSet(s.bytes)
  BY StreamsAssumption DEF Plain
<1>2. s.bytes \in Seq(Bytes)
  BY StreamShape DEF Shape
<1>3. ASSUME NEW i \in 1..Len(s.bytes) PROVE s.bytes[i] # Nul
  <2>1. i \in DOMAIN s.bytes
    BY <1>2
  <2> QED
    BY <1>1, <2>1 DEF ToSet
<1> QED
  BY <1>3 DEF HasNone

\* The rest, place by place.
Shows(x, s, e, r) ==
    /\ x \in Seq(Bytes) /\ Len(x) = r - e
    /\ \A i \in 1..(r - e) : x[i] = s.bytes[e + i]

LEMMA RestIs ==
    ASSUME NEW s \in Streams, NEW d \in 0..Len(s.payloads), NEW r \in Nat,
           s.ends[d] <= r, r <= Len(s.bytes)
    PROVE  /\ Shows(Rest(s, d, r), s, s.ends[d], r)
           /\ Plain(s) => HasNone(Rest(s, d, r), Nul)
<1> DEFINE e == s.ends[d]
           x == SubSeq(s.bytes, e + 1, r)
<1>1. e \in Nat /\ s.bytes \in Seq(Bytes) /\ Len(s.bytes) \in Nat
  BY StreamShape DEF Shape
<1>2. Rest(s, d, r) = x
  BY DEF Rest
<1>3. e <= r
  OBVIOUS
<1> HIDE DEF e
<1>4. x \in Seq(Bytes) /\ Len(x) = r - e /\ \A i \in 1..(r - e) : x[i] = s.bytes[e + i]
  BY <1>1, <1>3, SubIs
<1> HIDE DEF x
<1>5. Shows(x, s, e, r)
  BY <1>4 DEF Shows
<1>6. ASSUME Plain(s), NEW i \in 1..Len(x) PROVE x[i] # Nul
  <2>1. i \in 1..(r - e) /\ e + i \in 1..Len(s.bytes)
    BY <1>1, <1>3, <1>4
  <2> QED
    BY <1>4, <1>6, <2>1, PlainIs DEF HasNone
<1> QED
  BY <1>2, <1>5, <1>6 DEF HasNone, e

-----------------------------------------------------------------------------
(* What readNet makes of the rest of a stream.                             *)

LEMMA MarksDiffer == ":" # Comma
BY DEF Comma

\* With the digits at hand, k and l are what the netstring says.
LEMMA ReadsPart ==
    ASSUME NEW s \in Streams, NEW d \in Nat, d < Len(s.payloads), NEW m, Part(s, d, m),
           NEW r \in Nat, r <= Len(s.bytes), NEW k, NEW l, Reads(s, d, r, k, l)
    PROVE  k = m /\ l = Len(s.payloads[d + 1])
<1> DEFINE e == s.ends[d]
<1>1. e \in Nat /\ s.bytes \in Seq(Bytes) /\ Len(s.bytes) \in Nat
  <2>1. Shape(s)
    BY StreamShape
  <2>2. d \in 0..Len(s.payloads)
    BY <2>1 DEF Shape
  <2> QED
    BY <2>1, <2>2 DEF Shape
<1>2. m \in Nat /\ s.bytes[e + m + 1] = ":" /\ (\A i \in 1..m : IsDigit(s.bytes[e + i]))
      /\ Value(SubSeq(s.bytes, e + 1, e + m)) = Len(s.payloads[d + 1]) /\ m >= 1
  BY DEF Part
<1>3. /\ k \in Nat /\ s.bytes[e + k + 1] = ":" /\ e + k + 1 <= r
      /\ (\A i \in 1..k : s.bytes[e + i] # ":") /\ l = Atol(SubSeq(s.bytes, e + 1, e + k))
  BY DEF Reads
<1> HIDE DEF e
<1>4. ~(k < m)
  <2> SUFFICES ASSUME k < m PROVE FALSE
    OBVIOUS
  <2>1. k + 1 \in 1..m /\ e + (k + 1) = e + k + 1
    BY <1>1, <1>2, <1>3
  <2>2. IsDigit(s.bytes[e + k + 1])
    BY <1>2, <2>1
  <2> QED
    BY <1>3, <2>2, NoDigits
<1>5. ~(m < k)
  <2> SUFFICES ASSUME m < k PROVE FALSE
    OBVIOUS
  <2>1. m + 1 \in 1..k /\ e + (m + 1) = e + m + 1
    BY <1>1, <1>2, <1>3
  <2> QED
    BY <1>2, <1>3, <2>1
<1>6. k = m
  BY <1>2, <1>3, <1>4, <1>5
<1> DEFINE x == SubSeq(s.bytes, e + 1, e + m)
<1>7. x \in Seq(Bytes) /\ Len(x) = m /\ \A i \in 1..m : x[i] = s.bytes[e + i]
  <2>1. PICK c \in Nat : c = e + m
    BY <1>1, <1>2
  <2>2. e <= c /\ c <= Len(s.bytes) /\ c - e = m
    BY <1>1, <1>2, <1>3, <1>6, <2>1
  <2> DEFINE z == SubSeq(s.bytes, e + 1, c)
  <2>3. z \in Seq(Bytes) /\ Len(z) = c - e /\ \A i \in 1..(c - e) : z[i] = s.bytes[e + i]
    BY <1>1, <2>2, SubIs
  <2> QED
    BY <2>1, <2>2, <2>3
<1>8. l = Atol(x) /\ Value(x) = Len(s.payloads[d + 1])
  BY <1>2, <1>3, <1>6
<1> HIDE DEF x
<1>9. Leads(x, Len(x))
  BY <1>2, <1>7 DEF Leads
<1>10. Atol(x) = Value(SubSeq(x, 1, Len(x)))
  BY <1>7, <1>9, AtolIs
<1>11. SubSeq(x, 1, Len(x)) = x
  BY <1>7
<1> QED
  BY <1>6, <1>8, <1>10, <1>11

\* Further bytes do not change what the head says.
LEMMA ReadsOn ==
    ASSUME NEW s \in Streams, NEW d \in 0..Len(s.payloads), NEW r \in Nat, NEW q \in Nat, r <= q,
           NEW k, NEW l, Reads(s, d, r, k, l)
    PROVE  Reads(s, d, q, k, l)
<1>1. s.ends[d] \in Nat
  BY StreamShape DEF Shape
<1> QED
  BY <1>1 DEF Reads

\* Behind the last netstring, a head that can be read has no comma behind it.
LEMMA NoCommaBehind ==
    ASSUME NEW s \in Streams, NEW r \in Nat, r <= Len(s.bytes), NEW k, NEW l,
           Reads(s, Len(s.payloads), r, k, l)
    PROVE  LET e == s.ends[Len(s.payloads)]
           IN \A i \in 1..(Len(s.bytes) - e) : s.bytes[e + i] # Comma
<1> DEFINE e == s.ends[Len(s.payloads)]
           n == Len(s.bytes)
           x == SubSeq(s.bytes, e + 1, n)
<1>1. e \in Nat /\ e <= n /\ s.bytes \in Seq(Bytes) /\ n \in Nat
  <2>1. Shape(s)
    BY StreamShape
  <2>2. Len(s.payloads) \in 0..Len(s.payloads)
    BY <2>1 DEF Shape
  <2> QED
    BY <2>1, <2>2 DEF Shape
<1>2. Malformed(x)
  BY StreamsAssumption
<1>3. /\ k \in Nat /\ s.bytes[e + k + 1] = ":" /\ e + k + 1 <= r /\ s.bytes[e + 1] # "0"
      /\ \A i \in 1..k : s.bytes[e + i] # ":" /\ s.bytes[e + i] # Comma
  BY DEF Reads
<1> HIDE DEF e, n
<1>4. x \in Seq(Bytes) /\ Len(x) = n - e /\ \A i \in 1..(n - e) : x[i] = s.bytes[e + i]
  BY <1>1, SubIs DEF n
<1> HIDE DEF x
<1>5. k + 1 \in 1..(n - e) /\ 1 \in 1..(n - e) /\ \A i \in 1..k : i \in 1..(n - e)
  BY <1>1, <1>3 DEF n
<1>6. FirstAt(x, ":", k + 1)
  <2>1. x[k + 1] = ":"
    <3>1. e + (k + 1) = e + k + 1
      BY <1>1, <1>3
    <3> QED
      BY <1>3, <1>4, <1>5, <3>1
  <2>2. ASSUME NEW i \in 1..((k + 1) - 1) PROVE x[i] # ":"
    <3>1. i \in 1..k
      BY <1>3
    <3> QED
      BY <1>3, <1>4, <1>5, <3>1
  <2> QED
    BY <1>4, <1>5, <2>1, <2>2 DEF FirstAt
<1>7. StrChr(x, ":") = k + 1 /\ k + 1 # 0 /\ x # <<>> /\ x[1] # "0"
  <2>1. StrChr(x, ":") = k + 1
    BY <1>4, <1>6, FirstAtIs
  <2>2. Len(x) # 0
    BY <1>1, <1>4, <1>5
  <2> QED
    BY <1>3, <1>4, <1>5, <2>1, <2>2
<1>8. StrChr(x, Comma) = 0 \/ StrChr(x, Comma) < k + 1
  BY <1>2, <1>7 DEF Malformed
<1>9. StrChr(x, Comma) = 0
  <2> SUFFICES ASSUME StrChr(x, Comma) # 0 PROVE FALSE
    OBVIOUS
  <2>1. FirstAt(x, Comma, StrChr(x, Comma))
    BY <1>4, StrChrIs
  <2>2. StrChr(x, Comma) \in 1..k /\ x[StrChr(x, Comma)] = Comma
    BY <1>3, <1>8, <2>1 DEF FirstAt
  <2> QED
    BY <1>3, <1>4, <1>5, <2>2
<1>10. HasNone(x, Comma)
  BY <1>4, <1>9, StrChrIs DEF FirstAt
<1>11. \A i \in 1..(n - e) : s.bytes[e + i] # Comma
  BY <1>4, <1>10 DEF HasNone
<1> QED
  BY <1>11 DEF e, n

\* A read that ended with a netstring has brought the next one as a whole.
LEMMA WholeNext ==
    ASSUME NEW s \in Streams, NEW d \in 0..Len(s.payloads), NEW r \in Range(s.ends), s.ends[d] < r
    PROVE  d < Len(s.payloads) /\ s.ends[d + 1] <= r
<1>1. PICK j \in 0..Len(s.payloads) : r = s.ends[j]
  BY StreamShape DEF Range, Shape
<1>2. d < j
  BY <1>1, EndsGrow
<1>3. Len(s.payloads) \in Nat /\ d + 1 \in 0..Len(s.payloads)
  BY <1>2, StreamShape DEF Shape
<1>4. d + 1 = j \/ d + 1 < j
  BY <1>2
<1>5. d + 1 < j => s.ends[d + 1] < s.ends[j]
  BY <1>3, EndsGrow
<1>6. s.ends[d + 1] \in Nat /\ s.ends[j] \in Nat
  BY <1>3, StreamShape DEF Shape
<1> QED
  BY <1>1, <1>2, <1>3, <1>4, <1>5, <1>6

\* The checks of the format, of a string.
Entry(x) == StrChr(x, ":") # 0 /\ (StrChr(x, Comma) # 0 => StrChr(x, ":") < StrChr(x, Comma))
Full(x) == StrChr(x, ":") # 0 /\ StrChr(x, Comma) # 0 /\ StrChr(x, ":") < StrChr(x, Comma)

LEMMA RestType ==
    ASSUME NEW s \in Streams, NEW d \in 0..Len(s.payloads)
    PROVE  s.ends[d] \in Nat /\ s.ends[d] <= Len(s.bytes) /\ s.bytes \in Seq(Bytes) /\ Len(s.bytes) \in Nat
BY StreamShape DEF Shape

\* What the first checks let through has a head.
LEMMA EntryReads ==
    ASSUME NEW s \in Streams, NEW d \in 0..Len(s.payloads), NEW r \in Nat,
           s.ends[d] <= r, r <= Len(s.bytes), NEW x, x = Rest(s, d, r),
           x # <<>>, x[1] # "0", Entry(x), NEW k, k = StrChr(x, ":") - 1
    PROVE  Reads(s, d, r, k, Atol(SubSeq(x, 1, k)))
<1> DEFINE e == s.ends[d]
<1>1. e \in Nat /\ s.bytes \in Seq(Bytes) /\ Len(s.bytes) \in Nat /\ e <= r
  BY RestType
<1>2. x \in Seq(Bytes) /\ Len(x) = r - e /\ \A i \in 1..(r - e) : x[i] = s.bytes[e + i]
  BY RestIs DEF Shows
<1> HIDE DEF e
<1>3. FirstAt(x, ":", StrChr(x, ":"))
  BY <1>2, StrChrIs DEF Entry
<1>4. k \in Nat /\ k + 1 \in 1..(r - e) /\ x[k + 1] = ":" /\ StrChr(x, ":") = k + 1
      /\ \A i \in 1..k : x[i] # ":"
  BY <1>1, <1>2, <1>3 DEF FirstAt
<1>5. ASSUME NEW i \in 1..k PROVE x[i] # Comma
  <2>1. CASE StrChr(x, Comma) = 0
    <3>1. HasNone(x, Comma)
      BY <1>2, <2>1, StrChrIs DEF FirstAt
    <3>2. i \in 1..Len(x)
      BY <1>1, <1>2, <1>4
    <3> QED
      BY <3>1, <3>2 DEF HasNone
  <2>2. CASE StrChr(x, Comma) # 0
    <3>1. FirstAt(x, Comma, StrChr(x, Comma)) /\ k + 1 < StrChr(x, Comma)
      BY <1>2, <1>4, <2>2, StrChrIs DEF Entry
    <3>2. i \in 1..(StrChr(x, Comma) - 1)
      BY <1>4, <3>1 DEF FirstAt
    <3> QED
      BY <3>1, <3>2 DEF FirstAt
  <2> QED
    BY <2>1, <2>2
<1>6. \A i \in 1..k : i \in 1..(r - e)
  BY <1>1, <1>4
<1> DEFINE y == SubSeq(x, 1, k)
           z == SubSeq(s.bytes, e + 1, e + k)
<1>7. y \in Seq(Bytes) /\ Len(y) = k /\ \A i \in 1..k : y[i] = x[i]
  <2>1. k <= Len(x)
    BY <1>1, <1>2, <1>4
  <2> QED
    BY <1>2, <1>4, <2>1
<1>8. z \in Seq(Bytes) /\ Len(z) = k /\ \A i \in 1..k : z[i] = s.bytes[e + i]
  <2>1. PICK c \in Nat : c = e + k
    BY <1>1, <1>4
  <2>2. e <= c /\ c <= Len(s.bytes) /\ c - e = k
    BY <1>1, <1>4, <2>1
  <2> DEFINE w == SubSeq(s.bytes, e + 1, c)
  <2>3. w \in Seq(Bytes) /\ Len(w) = c - e /\ \A i \in 1..(c - e) : w[i] = s.bytes[e + i]
    BY <1>1, <2>2, SubIs
  <2> QED
    BY <2>1, <2>2, <2>3
<1> HIDE DEF y, z
<1>9. y = z
  <2>1. \A i \in 1..Len(y) : y[i] = z[i]
    BY <1>2, <1>6, <1>7, <1>8
  <2> QED
    BY <1>7, <1>8, <2>1, SameSeq
<1>10. Atol(y) \in Nat /\ Atol(y) = Atol(z)
  BY <1>7, <1>9, AtolType
<1>11. s.bytes[e + 1] # "0" /\ s.bytes[e + k + 1] = ":" /\ e + k + 1 <= r
  <2>1. 1 \in 1..(r - e) /\ e + (k + 1) = e + k + 1
    BY <1>1, <1>4
  <2>2. x[1] = s.bytes[e + 1] /\ x[k + 1] = s.bytes[e + k + 1]
    BY <1>2, <1>4, <2>1
  <2>3. e + k + 1 <= r
    BY <1>1, <1>4
  <2> QED
    BY <1>4, <2>2, <2>3
<1>12. \A i \in 1..k : s.bytes[e + i] # ":" /\ s.bytes[e + i] # Comma
  BY <1>2, <1>4, <1>5, <1>6
<1>13. Reads(s, d, r, k, Atol(y))
  BY <1>4, <1>10, <1>11, <1>12 DEF Reads, e, z
<1> QED
  BY <1>13 DEF y

\* A netstring that has arrived as a whole passes all checks.
LEMMA WholeFormat ==
    ASSUME NEW s \in Streams, NEW d \in Nat, d < Len(s.payloads), NEW r \in Nat,
           s.ends[d + 1] <= r, r <= Len(s.bytes), NEW x, x = Rest(s, d, r)
    PROVE  x # <<>> /\ x[1] # "0" /\ Full(x) /\ Entry(x)
<1> DEFINE e == s.ends[d]
           f == s.ends[d + 1]
           q == Len(s.payloads[d + 1])
<1>0. Shape(s) /\ d \in 0..Len(s.payloads) /\ d + 1 \in 0..Len(s.payloads) /\ d + 1 \in 1..Len(s.payloads)
  BY StreamShape DEF Shape
<1>1. e \in Nat /\ f \in Nat /\ e < f /\ e <= r /\ f <= r /\ q \in Nat
  BY <1>0, NextEnd DEF Shape
<1>2. PICK k : Part(s, d, k)
  BY PartExists
<1>3. x \in Seq(Bytes) /\ Len(x) = r - e /\ \A i \in 1..(r - e) : x[i] = s.bytes[e + i]
  BY <1>0, <1>1, RestIs DEF Shows
<1>4. /\ k \in Nat /\ k >= 1 /\ f = e + k + q + 2 /\ s.bytes[e + 1] # "0"
      /\ s.bytes[e + k + 1] = ":" /\ s.bytes[f] = Comma
      /\ \A i \in 1..k : IsDigit(s.bytes[e + i])
  BY <1>2 DEF Part
<1> HIDE DEF e, f, q
<1>5. x # <<>> /\ x[1] # "0"
  <2>1. 1 \in 1..(r - e) /\ Len(x) # 0
    BY <1>1, <1>3, <1>4
  <2> QED
    BY <1>3, <1>4, <2>1
<1>6. ASSUME NEW i \in 1..k PROVE i \in 1..(r - e) /\ x[i] # ":" /\ x[i] # Comma
  <2>1. i \in 1..(r - e)
    BY <1>1, <1>4
  <2> QED
    BY <1>3, <1>4, <2>1, NoDigits
<1>7. k + 1 \in 1..Len(x) /\ x[k + 1] = ":"
  <2>1. k + 1 \in 1..(r - e) /\ e + (k + 1) = e + k + 1
    BY <1>1, <1>4
  <2> QED
    BY <1>3, <1>4, <2>1
<1>8. FirstAt(x, ":", k + 1)
  <2>1. (k + 1) - 1 = k
    BY <1>4
  <2> QED
    BY <1>6, <1>7, <2>1 DEF FirstAt
<1>9. StrChr(x, ":") = k + 1 /\ k + 1 # 0
  BY <1>3, <1>4, <1>8, FirstAtIs
<1>10. ~HasNone(x, Comma)
  <2>1. f - e \in 1..(r - e) /\ e + (f - e) = f
    BY <1>1
  <2>2. x[f - e] = Comma
    BY <1>3, <1>4, <2>1
  <2> QED
    BY <1>3, <2>1, <2>2 DEF HasNone
<1>11. FirstAt(x, Comma, StrChr(x, Comma)) /\ StrChr(x, Comma) # 0
  BY <1>3, <1>10, StrChrIs
<1>12. PICK c : c = StrChr(x, Comma)
  OBVIOUS
<1>13. c \in 1..Len(x) /\ x[c] = Comma /\ c # 0
  BY <1>11, <1>12 DEF FirstAt
<1>14. c > k + 1
  <2>1. c \notin 1..k
    BY <1>6, <1>13
  <2>2. c # k + 1
    BY <1>7, <1>13, MarksDiffer
  <2> QED
    BY <1>3, <1>4, <1>13, <2>1, <2>2
<1>15. k + 1 < c
  BY <1>4, <1>13, <1>14
<1> QED
  BY <1>5, <1>9, <1>12, <1>13, <1>15 DEF Full, Entry

\* A comma that is not the payload's tells that the netstring is complete.
LEMMA CommaCompletes ==
    ASSUME NEW s \in Streams, NEW d \in 0..Len(s.payloads), NEW r \in Nat,
           s.ends[d] <= r, r <= Len(s.bytes), NEW x, x = Rest(s, d, r), Full(x),
           NEW k, NEW l, Reads(s, d, r, k, l),
           d < Len(s.payloads) => HasNone(s.payloads[d + 1], Comma)
    PROVE  d < Len(s.payloads) /\ s.ends[d + 1] <= r
<1> DEFINE e == s.ends[d]
           f == s.ends[d + 1]
           p == s.payloads[d + 1]
<1>1. e \in Nat /\ s.bytes \in Seq(Bytes) /\ Len(s.bytes) \in Nat /\ e <= r /\ Len(s.payloads) \in Nat
  BY RestType, StreamShape DEF Shape
<1>2. x \in Seq(Bytes) /\ Len(x) = r - e /\ \A i \in 1..(r - e) : x[i] = s.bytes[e + i]
  BY RestIs DEF Shows
<1>3. FirstAt(x, Comma, StrChr(x, Comma))
  BY <1>2, StrChrIs DEF Full
<1>4. PICK c : c = StrChr(x, Comma)
  OBVIOUS
<1>5. c \in 1..(r - e) /\ s.bytes[e + c] = Comma
  BY <1>2, <1>3, <1>4 DEF FirstAt
<1>6. d < Len(s.payloads)
  <2> SUFFICES ASSUME d = Len(s.payloads) PROVE FALSE
    BY <1>1
  <2>1. \A i \in 1..(Len(s.bytes) - e) : s.bytes[e + i] # Comma
    BY NoCommaBehind
  <2>2. c \in 1..(Len(s.bytes) - e)
    BY <1>1, <1>5
  <2> QED
    BY <1>5, <2>1, <2>2
<1>7. d \in Nat /\ d + 1 \in 0..Len(s.payloads) /\ d + 1 \in 1..Len(s.payloads)
  BY <1>1, <1>6
<1>8. f \in Nat /\ p \in Seq(Bytes) /\ Len(p) \in Nat
  BY <1>7, StreamShape DEF Shape, Strings
<1>9. PICK m : Part(s, d, m)
  BY <1>6, <1>7, PartExists
<1>10. k = m
  BY <1>6, <1>7, <1>9, ReadsPart
<1>11. /\ m \in Nat /\ m >= 1 /\ f = e + m + Len(p) + 2 /\ s.bytes[e + m + 1] = ":"
       /\ \A i \in 1..Len(p) : s.bytes[e + m + 1 + i] = p[i]
  BY <1>9 DEF Part
<1>12. \A i \in 1..k : s.bytes[e + i] # Comma
  BY DEF Reads
<1>13. HasNone(p, Comma)
  BY <1>6
<1> HIDE DEF e, f, p
<1>14. f <= r
  <2> SUFFICES ASSUME r < f PROVE FALSE
    BY <1>8
  <2>1. c \notin 1..k
    BY <1>5, <1>12
  <2>2. c # m + 1
    <3>1. e + (m + 1) = e + m + 1
      BY <1>1, <1>11
    <3> QED
      BY <1>5, <1>11, <3>1, MarksDiffer
  <2>3. PICK i \in Int : i = c - (m + 1)
    BY <1>5, <1>11
  <2>4. i \in 1..Len(p) /\ e + m + 1 + i = e + c
    BY <1>1, <1>5, <1>8, <1>10, <1>11, <2>1, <2>2, <2>3
  <2> QED
    BY <1>5, <1>11, <1>13, <2>4 DEF HasNone
<1> QED
  BY <1>6, <1>14 DEF f

\* Behind a netstring the next one starts, and in front of that is the payload.
Takes(s, d, r, k, l, x) ==
    /\ k \in Nat /\ l \in Nat /\ l = Len(s.payloads[d + 1])
    /\ k + l + 2 <= Len(x) /\ s.ends[d] + (k + l + 2) = s.ends[d + 1]
    /\ First(SubSeq(x, (k + 1) + 1, Len(x)), l) = s.payloads[d + 1]
    /\ SubSeq(x, (k + l + 2) + 1, Len(x)) = Rest(s, d + 1, r)

LEMMA WholeTaken ==
    ASSUME NEW s \in Streams, NEW d \in Nat, d < Len(s.payloads), NEW r \in Nat,
           s.ends[d + 1] <= r, r <= Len(s.bytes), NEW x, x = Rest(s, d, r),
           NEW k, NEW l, Reads(s, d, r, k, l)
    PROVE  Takes(s, d, r, k, l, x)
<1> DEFINE e == s.ends[d]
           f == s.ends[d + 1]
           p == s.payloads[d + 1]
<1>0. Shape(s) /\ d \in 0..Len(s.payloads) /\ d + 1 \in 0..Len(s.payloads) /\ d + 1 \in 1..Len(s.payloads)
  BY StreamShape DEF Shape
<1>1. e \in Nat /\ f \in Nat /\ f <= r /\ p \in Seq(Bytes) /\ Len(p) \in Nat
  BY <1>0 DEF Shape, Strings
<1>2. PICK m : Part(s, d, m)
  BY PartExists
<1>3. k = m /\ l = Len(p)
  BY <1>2, ReadsPart
<1>4. /\ k \in Nat /\ f = e + k + l + 2
      /\ \A i \in 1..l : s.bytes[e + k + 1 + i] = p[i]
  BY <1>2, <1>3 DEF Part
<1>5. e <= r
  <2>1. l \in Nat /\ k \in Nat /\ f = e + k + l + 2
    BY <1>1, <1>3, <1>4
  <2> HIDE DEF e, f
  <2> QED
    BY <1>1, <2>1
<1>6. x \in Seq(Bytes) /\ Len(x) = r - e /\ \A i \in 1..(r - e) : x[i] = s.bytes[e + i]
  BY <1>0, <1>5, RestIs DEF Shows
<1>7. /\ Rest(s, d + 1, r) \in Seq(Bytes) /\ Len(Rest(s, d + 1, r)) = r - f
      /\ \A i \in 1..(r - f) : Rest(s, d + 1, r)[i] = s.bytes[f + i]
  BY <1>0, <1>1, RestIs DEF Shows
<1> HIDE DEF e, f, p
<1>8. k + l + 2 <= Len(x) /\ e + (k + l + 2) = f /\ l \in Nat
  BY <1>1, <1>3, <1>4, <1>6
<1>9. First(SubSeq(x, (k + 1) + 1, Len(x)), l) = p
  <2> DEFINE y == SubSeq(x, (k + 1) + 1, Len(x))
             z == SubSeq(y, 1, l)
  <2>1. PICK a \in Nat : a = k + 1
    BY <1>4
  <2>2. PICK n \in Nat : n = Len(x)
    BY <1>6
  <2>3. a <= n /\ n - a >= l + 1
    BY <1>4, <1>8, <2>1, <2>2
  <2>4. SubSeq(x, a + 1, n) \in Seq(Bytes) /\ Len(SubSeq(x, a + 1, n)) = n - a
        /\ \A i \in 1..(n - a) : SubSeq(x, a + 1, n)[i] = x[a + i]
    BY <1>6, <2>2, <2>3, SubIs
  <2>5. y \in Seq(Bytes) /\ Len(y) = n - a /\ \A i \in 1..(n - a) : y[i] = x[a + i]
    BY <2>1, <2>2, <2>4
  <2> HIDE DEF y
  <2>6. z \in Seq(Bytes) /\ Len(z) = l /\ \A i \in 1..l : z[i] = y[i]
    BY <1>8, <2>3, <2>5
  <2> HIDE DEF z
  <2>7. ASSUME NEW i \in 1..Len(z) PROVE z[i] = p[i]
    <3>1. i \in 1..l /\ i \in 1..(n - a) /\ a + i \in 1..(r - e)
      BY <1>4, <1>6, <1>8, <2>1, <2>2, <2>3, <2>6
    <3>2. z[i] = x[a + i]
      BY <2>5, <2>6, <3>1
    <3>3. x[a + i] = s.bytes[e + (a + i)]
      BY <1>6, <3>1
    <3>4. e + (a + i) = e + k + 1 + i
      BY <1>1, <1>4, <2>1, <3>1
    <3> QED
      BY <1>4, <3>1, <3>2, <3>3, <3>4
  <2>8. z = p
    BY <1>1, <1>3, <2>6, <2>7, SameSeq
  <2>9. First(y, l) = z
    <3>1. l < Len(y)
      BY <1>8, <2>3, <2>5
    <3> QED
      BY <3>1 DEF First, z
  <2> QED
    BY <2>8, <2>9 DEF y
<1>10. SubSeq(x, (k + l + 2) + 1, Len(x)) = Rest(s, d + 1, r)
  <2> DEFINE y == SubSeq(x, (k + l + 2) + 1, Len(x))
             z == Rest(s, d + 1, r)
  <2>1. PICK a \in Nat : a = k + l + 2
    BY <1>4, <1>8
  <2>2. PICK n \in Nat : n = Len(x)
    BY <1>6
  <2>3. a <= n /\ n - a = r - f /\ e + a = f
    <3>1. n = r - e
      BY <1>6, <2>2
    <3>2. e + a = f /\ e \in Int /\ f \in Int /\ f <= r
      BY <1>1, <1>8, <2>1
    <3> QED
      BY <3>1, <3>2
  <2>4. SubSeq(x, a + 1, n) \in Seq(Bytes) /\ Len(SubSeq(x, a + 1, n)) = n - a
        /\ \A i \in 1..(n - a) : SubSeq(x, a + 1, n)[i] = x[a + i]
    BY <1>6, <2>2, <2>3, SubIs
  <2>5. y \in Seq(Bytes) /\ Len(y) = r - f /\ \A i \in 1..(r - f) : y[i] = x[a + i]
    BY <2>1, <2>2, <2>3, <2>4
  <2> HIDE DEF y, z
  <2>6. ASSUME NEW i \in 1..Len(y) PROVE y[i] = z[i]
    <3>1. i \in 1..(r - f) /\ a + i \in 1..(r - e) /\ e + (a + i) = f + i
      BY <1>1, <1>6, <2>2, <2>3, <2>5
    <3>2. y[i] = s.bytes[f + i]
      BY <1>6, <2>5, <3>1
    <3> QED
      BY <1>7, <3>1, <3>2 DEF z
  <2>7. y = z
    <3>1. z \in Seq(Bytes) /\ Len(z) = Len(y)
      BY <1>7, <2>5 DEF z
    <3> QED
      BY <2>5, <2>6, <3>1, SameSeq
  <2> QED
    BY <2>7 DEF y, z
<1> QED
  BY <1>3, <1>4, <1>8, <1>9, <1>10 DEF e, f, p, Takes

\* More of the stream makes the rest longer.
LEMMA RestGrows ==
    ASSUME NEW s \in Streams, NEW d \in 0..Len(s.payloads), NEW r \in Nat, NEW q \in Nat,
           s.ends[d] <= r, r <= q, q <= Len(s.bytes), NEW y, Shows(y, s, r, q)
    PROVE  Rest(s, d, r) \o y = Rest(s, d, q)
<1> DEFINE e == s.ends[d]
           x == Rest(s, d, r)
           z == Rest(s, d, q)
           u == x \o y
<1>1. e \in Nat /\ e <= r /\ e <= q
  BY RestType
<1>2. x \in Seq(Bytes) /\ Len(x) = r - e /\ \A i \in 1..(r - e) : x[i] = s.bytes[e + i]
  BY RestIs DEF Shows
<1>3. z \in Seq(Bytes) /\ Len(z) = q - e /\ \A i \in 1..(q - e) : z[i] = s.bytes[e + i]
  BY <1>1, RestIs DEF Shows
<1>4. y \in Seq(Bytes) /\ Len(y) = q - r /\ \A i \in 1..(q - r) : y[i] = s.bytes[r + i]
  BY DEF Shows
<1> HIDE DEF e, x, z
<1>5. u \in Seq(Bytes) /\ Joins(u, x, y)
  BY <1>2, <1>4, ConcatIs
<1> HIDE DEF u
<1>6. Len(u) = q - e
  BY <1>1, <1>2, <1>4, <1>5 DEF Joins
<1>7. ASSUME NEW i \in 1..Len(u) PROVE u[i] = z[i]
  <2>1. i \in 1..(q - e)
    BY <1>6
  <2>2. CASE i <= r - e
    <3>1. i \in 1..(r - e) /\ i \in 1..Len(x)
      BY <1>1, <1>2, <2>1, <2>2
    <3> QED
      BY <1>2, <1>3, <1>5, <2>1, <3>1 DEF Joins
  <2>3. CASE i > r - e
    <3>1. PICK j \in Nat : j = i - (r - e)
      BY <1>1, <2>1, <2>3
    <3>2. j \in 1..(q - r) /\ j \in 1..Len(y) /\ Len(x) + j = i /\ r + j = e + i
      BY <1>1, <1>2, <1>4, <2>1, <2>3, <3>1
    <3>3. u[Len(x) + j] = y[j] /\ y[j] = s.bytes[r + j] /\ z[i] = s.bytes[e + i]
      BY <1>3, <1>4, <1>5, <2>1, <3>2 DEF Joins
    <3> QED
      BY <3>2, <3>3
  <2> QED
    BY <1>1, <2>1, <2>2, <2>3
<1>8. u = z
  BY <1>3, <1>5, <1>6, <1>7, SameSeq
<1> QED
  BY <1>8 DEF u, x, z

\* A string that is read into an empty buf.
LEMMA PutZeros ==
    ASSUME NEW s \in Seq(Bytes), HasNone(s, Nul), Len(s) <= BufSize
    PROVE  /\ Zeros \in Seq(Bytes) /\ Len(Zeros) = BufSize
           /\ Put(Zeros, 0, s) \in Seq(Bytes) /\ Len(Put(Zeros, 0, s)) = BufSize
           /\ Text(Put(Zeros, 0, s), 0, s)
<1> DEFINE p == Put(Zeros, 0, s)
<1>1. BufSize \in Nat /\ Len(s) \in Nat
  BY BufSizeAssumption
<1>2. Zeros \in Seq(Bytes) /\ Len(Zeros) = BufSize /\ \A i \in 1..BufSize : Zeros[i] = Nul
  BY <1>1, NulIs DEF Zeros
<1>3. /\ p \in Seq(Bytes) /\ Len(p) = BufSize
      /\ \A i \in 1..BufSize : p[i] = IF 0 < i /\ i <= 0 + Len(s) THEN s[i - 0] ELSE Zeros[i]
  <2>1. PICK z \in Nat : z = 0
    OBVIOUS
  <2>2. z + Len(s) <= Len(Zeros)
    BY <1>1, <1>2, <2>1
  <2>3. /\ Put(Zeros, z, s) \in Seq(Bytes) /\ Len(Put(Zeros, z, s)) = Len(Zeros)
        /\ \A i \in 1..Len(Zeros) :
             Put(Zeros, z, s)[i] = IF z < i /\ i <= z + Len(s) THEN s[i - z] ELSE Zeros[i]
    BY <1>2, <2>2, PutIs
  <2> QED
    BY <1>2, <2>1, <2>3
<1> HIDE DEF p
<1>4. ASSUME NEW k \in 1..Len(s) PROVE p[0 + k] = s[k]
  BY <1>1, <1>3
<1>5. 0 + Len(s) < Len(p) => p[0 + Len(s) + 1] = Nul
  BY <1>1, <1>2, <1>3
<1>6. 0 \in 0..Len(p) /\ 0 + Len(s) <= Len(p)
  BY <1>1, <1>3
<1>7. Text(p, 0, s)
  BY <1>4, <1>5, <1>6 DEF Text
<1> QED
  BY <1>2, <1>3, <1>7 DEF p

-----------------------------------------------------------------------------
(* The steps, for a plain stream that is in step.                          *)

Now ==
    /\ sent \in Streams /\ cut \in BOOLEAN /\ patched \in BOOLEAN
    /\ ~cut => ~patched
    /\ Plain(sent) /\ InStep /\ Sync

LEMMA PlaceIs ==
    ASSUME Now
    PROVE  /\ Received \in Nat /\ Received <= Len(sent.bytes) /\ Len(sent.bytes) \in Nat
           /\ Len(incoming) = Len(sent.bytes) - Received
           /\ nets >= 0 => /\ Done \in Nat /\ Done \in 0..Len(sent.payloads)
                           /\ sent.ends[Done] \in Nat
<1>1. Len(sent.bytes) \in Nat /\ Len(sent.payloads) \in Nat
  BY StreamShape DEF Now, Shape
<1>2. Len(incoming) \in Nat /\ Len(incoming) <= Len(sent.bytes)
  BY DEF Now, Sync, InStream
<1>3. Received = Len(sent.bytes) - Len(incoming)
  BY DEF Received
<1>4. ASSUME nets >= 0
      PROVE  Done \in Nat /\ Done \in 0..Len(sent.payloads) /\ sent.ends[Done] \in Nat
  <2>1. Len(got) \in Nat /\ nets \in Nat /\ Done <= Len(sent.payloads)
    BY <1>4 DEF Now, Sync, InOrder
  <2>2. Done \in Nat /\ Done \in 0..Len(sent.payloads)
    BY <1>1, <2>1 DEF Done
  <2> QED
    BY <2>2, StreamShape DEF Now, Shape
<1> QED
  BY <1>1, <1>2, <1>3, <1>4

LEMMA SrcIs ==
    ASSUME Now, pc \in {"next", "fill", "convert"}
    PROVE  /\ nets >= 0 /\ sent.ends[Done] <= Received
           /\ src = Rest(sent, Done, Received) /\ Shows(src, sent, sent.ends[Done], Received)
           /\ Text(buf, 0, src) /\ Len(src) \in Nat /\ Len(src) = Received - sent.ends[Done]
<1>1. /\ nets >= 0 /\ sent.ends[Done] <= Received /\ buf \in Seq(Bytes)
      /\ Text(buf, 0, Rest(sent, Done, Received))
  BY DEF Now, Sync, AtPlace
<1>2. src = Rest(sent, Done, Received)
  <2> DEFINE x == Rest(sent, Done, Received)
  <2>1. Text(buf, 0, x)
    BY <1>1
  <2> HIDE DEF x
  <2>2. StringAt(buf, 0) = x
    BY <1>1, <2>1, TextIs
  <2> QED
    BY <2>2 DEF src, x
<1>3. Shows(Rest(sent, Done, Received), sent, sent.ends[Done], Received)
  BY <1>1, PlaceIs, RestIs DEF Now
<1>4. Shows(src, sent, sent.ends[Done], Received)
  BY <1>2, <1>3
<1>5. src \in Seq(Bytes) /\ Len(src) = Received - sent.ends[Done]
  BY <1>4 DEF Shows
<1> QED
  BY <1>1, <1>2, <1>4, <1>5

\* When all reads so far ended with a netstring, what is in buf begins with a
\* whole one.
LEMMA WholeSrc ==
    ASSUME Now, pc \in {"next", "fill", "convert"}, ~cut, src # <<>>
    PROVE  /\ Done < Len(sent.payloads) /\ sent.ends[Done + 1] <= Received
           /\ src[1] # "0" /\ Entry(src) /\ Full(src)
<1>1. sent \in Streams /\ Received \in Range(sent.ends)
  BY DEF Now, Sync, InStream
<1>2. /\ src \in Seq(Bytes) /\ Len(src) = Received - sent.ends[Done]
      /\ src = Rest(sent, Done, Received) /\ nets >= 0
  BY SrcIs DEF Shows
<1>3. Done \in 0..Len(sent.payloads) /\ Done \in Nat /\ sent.ends[Done] \in Nat /\ Received \in Nat
      /\ Received <= Len(sent.bytes)
  BY <1>2, PlaceIs
<1>4. Len(src) # 0 /\ Len(src) \in Nat
  BY <1>2
<1>5. sent.ends[Done] < Received
  BY <1>2, <1>3, <1>4
<1>6. Done < Len(sent.payloads) /\ sent.ends[Done + 1] <= Received
  BY <1>1, <1>3, <1>5, WholeNext
<1> QED
  BY <1>1, <1>2, <1>3, <1>6, WholeFormat

\* readNet reads on only for a netstring of which a part is missing.
LEMMA CutWhenPartial ==
    ASSUME Now, pc \in {"fill", "convert"}, ~cut
    PROVE  Full(src) /\ strLength <= Len(src) /\ src # <<>>
<1>1. /\ Reads(sent, Done, Received, digits, strLength) /\ sent \in Streams
  BY DEF Now, Sync, AtPlace
<1>2. nets >= 0 /\ src = Rest(sent, Done, Received) /\ Len(src) = Received - sent.ends[Done]
      /\ src \in Seq(Bytes)
  BY SrcIs DEF Shows
<1>3. Done \in Nat /\ sent.ends[Done] \in Nat /\ Received \in Nat /\ Received <= Len(sent.bytes)
  BY <1>2, PlaceIs
<1>4. src # <<>>
  <2>1. digits \in Nat /\ sent.ends[Done] + digits + 1 <= Received
    BY <1>1 DEF Reads
  <2>2. Len(src) > 0
    BY <1>2, <1>3, <2>1
  <2> QED
    BY <2>2
<1>5. Done < Len(sent.payloads) /\ sent.ends[Done + 1] <= Received /\ Full(src)
  BY <1>4, WholeSrc
<1>6. digits \in Nat /\ strLength \in Nat /\ digits + strLength + 2 <= Len(src)
  BY <1>1, <1>2, <1>3, <1>5, WholeTaken DEF Takes
<1>7. Len(src) \in Nat
  BY <1>2
<1> QED
  BY <1>4, <1>5, <1>6, <1>7

LEMMA InStreamKept ==
    ASSUME Now, UNCHANGED <<sent, incoming, cut>>
    PROVE  InStream' /\ Received' = Received
BY DEF Now, Sync, InStream, Received

LEMMA InOrderKept ==
    ASSUME Now, UNCHANGED <<sent, nets, respDst, got>>
    PROVE  InOrder' /\ Done' = Done /\ (HasRoom' <=> HasRoom)
BY DEF Now, Sync, InOrder, Done, HasRoom

\* Room for the bytes, and for a second copy of each payload.
LEMMA RoomIs ==
    ASSUME HasRoom, sent \in Streams
    PROVE  /\ Len(sent.bytes) < BufSize
           /\ \A i \in 1..Len(sent.payloads) :
                Len(sent.bytes) + Len(sent.payloads[i]) < BufSize
<1>1. Len(sent.bytes) \in Nat /\ DOMAIN sent.payloads = 1..Len(sent.payloads)
  BY StreamShape DEF Shape
<1>2. Len(<<>>) = 0 /\ <<>> \in ToSet(sent.payloads) \cup {<<>>}
  OBVIOUS
<1>3. Len(sent.bytes) < BufSize
  BY <1>1, <1>2, BufSizeAssumption DEF HasRoom
<1>4. \A i \in 1..Len(sent.payloads) : sent.payloads[i] \in ToSet(sent.payloads)
  BY <1>1 DEF ToSet
<1> QED
  BY <1>3, <1>4 DEF HasRoom

\* What a read takes is the next part of the stream.
LEMMA Taken ==
    ASSUME Now, sent' = sent, NEW n \in 1..Len(incoming), Take(n), NEW y, y = SubSeq(incoming, 1, n)
    PROVE  /\ InStream' /\ Received' = Received + n /\ Received + n <= Len(sent.bytes)
           /\ Shows(y, sent, Received, Received + n) /\ HasNone(y, Nul) /\ Len(y) = n
<1> DEFINE b == sent.bytes
           R == Received
           t == SubSeq(incoming, n + 1, Len(incoming))
<1>1. /\ incoming \in Seq(Bytes) /\ Len(incoming) \in Nat /\ Len(incoming) = Len(b) - R
      /\ R \in Nat /\ Len(b) \in Nat /\ n \in Nat
      /\ \A i \in 1..Len(incoming) : incoming[i] = b[R + i]
  BY PlaceIs DEF Now, Sync, InStream
<1>2. incoming' = t /\ cut' = (cut \/ R + n \notin Range(sent.ends))
  BY DEF Take
<1>3. HasNone(b, Nul)
  BY PlainIs DEF Now
<1> HIDE DEF b, R
<1>4. n <= Len(incoming)
  BY <1>1
<1>5. t \in Seq(Bytes) /\ Len(t) = Len(incoming) - n /\ \A i \in 1..(Len(incoming) - n) : t[i] = incoming[n + i]
  <2>1. PICK m \in Nat : m = Len(incoming)
    BY <1>1
  <2>2. n <= m /\ m <= Len(incoming) /\ t = SubSeq(incoming, n + 1, m)
    BY <1>4, <2>1
  <2>3. /\ SubSeq(incoming, n + 1, m) \in Seq(Bytes) /\ Len(SubSeq(incoming, n + 1, m)) = m - n
        /\ \A i \in 1..(m - n) : SubSeq(incoming, n + 1, m)[i] = incoming[n + i]
    <3> HIDE DEF t
    <3>1. n \in Nat /\ n <= m /\ m <= Len(incoming) /\ incoming \in Seq(Bytes)
      BY <1>1, <2>2
    <3> QED
      BY <3>1, SubIs
  <2> QED
    BY <2>1, <2>2, <2>3
<1> HIDE DEF t
<1>6. Len(b) - Len(t) = R + n /\ R + n <= Len(b)
  BY <1>1, <1>4, <1>5
<1>7. Received' = R + n
  BY <1>2, <1>6 DEF Received, b
<1>8. \A i \in 1..Len(t) : t[i] = b[R + n + i]
  <2>1. ASSUME NEW i \in 1..Len(t) PROVE t[i] = b[R + n + i]
    <3>1. i \in 1..(Len(incoming) - n) /\ n + i \in 1..Len(incoming) /\ R + (n + i) = R + n + i
      BY <1>1, <1>4, <1>5
    <3> QED
      BY <1>1, <1>5, <3>1
  <2> QED
    BY <2>1
<1>9. InStream'
  <2>1. incoming' \in Seq(Bytes) /\ Len(incoming') <= Len(sent'.bytes)
    <3>1. Len(t) <= Len(b)
      BY <1>1, <1>4, <1>5
    <3> QED
      BY <1>2, <1>5, <3>1 DEF b
  <2>2. \A i \in 1..Len(incoming') : incoming'[i] = sent'.bytes[Received' + i]
    BY <1>2, <1>7, <1>8 DEF b
  <2>3. ~cut' => Received' \in Range(sent'.ends)
    BY <1>2, <1>7
  <2> QED
    BY <2>1, <2>2, <2>3 DEF InStream
<1>10. y \in Seq(Bytes) /\ Len(y) = n /\ \A i \in 1..n : y[i] = incoming[i]
  BY <1>1, <1>4
<1>11. ASSUME NEW i \in 1..n PROVE y[i] = b[R + i] /\ R + i \in 1..Len(b)
  <2>1. i \in 1..Len(incoming) /\ R + i \in 1..Len(b)
    BY <1>1, <1>4
  <2> QED
    BY <1>1, <1>10, <2>1
<1>12. Shows(y, sent, R, R + n)
  <2>1. PICK q : q = R + n
    OBVIOUS
  <2>2. q - R = n
    BY <1>1, <2>1
  <2>3. Len(y) = q - R /\ \A i \in 1..(q - R) : y[i] = b[R + i]
    BY <1>10, <1>11, <2>2
  <2>4. Shows(y, sent, R, q)
    BY <1>10, <2>3 DEF Shows, b
  <2> QED
    BY <2>1, <2>4
<1>13. HasNone(y, Nul)
  BY <1>3, <1>10, <1>11 DEF HasNone
<1> QED
  BY <1>6, <1>7, <1>9, <1>10, <1>12, <1>13 DEF b, R

LEMMA FirstReadFailsKeeps == ASSUME Now, FirstReadFails PROVE Sync'
<1>1. pc = "read" /\ pc' = "returned" /\ nets' \in {0, -1} /\ nets = 0 /\ respDst = <<>>
      /\ UNCHANGED <<sent, incoming, buf, respDst, got, cut>>
  BY DEF FirstReadFails, Now, Sync, AtPlace, InOrder
<1>2. InStream' /\ Received' = Received
  BY <1>1, InStreamKept
<1>3. Len(got) \in Nat /\ got \in Seq(Seq(Bytes)) /\ respDst \in Seq(Seq(Bytes)) /\ Done = Len(got) + 0
      /\ (\A i \in 1..Len(got) : got[i] = sent.payloads[i]) /\ Done <= Len(sent.payloads)
  BY <1>1 DEF Now, Sync, InOrder, Done
<1>4. InOrder' /\ (nets' >= 0 => Done' = Done)
  <2>1. nets' >= 0 => Done' = Done
    BY <1>1, <1>3 DEF Done
  <2>2. nets' \in Int /\ nets' >= -1 /\ nets' <= 0
    BY <1>1
  <2>3. nets' >= 0 => Done' <= Len(sent'.payloads)
    BY <1>1, <1>3, <2>1
  <2>4. /\ got' \in Seq(Seq(Bytes)) /\ respDst' \in Seq(Seq(Bytes)) /\ respDst' = <<>>
        /\ \A i \in 1..Len(got') : got'[i] = sent'.payloads[i]
    BY <1>1, <1>3
  <2>5. ~(nets' >= 1)
    BY <1>1
  <2>6. InOrder'
    BY <2>2, <2>3, <2>4, <2>5 DEF InOrder
  <2> QED
    BY <2>1, <2>6
<1>5. AtPlace'
  BY <1>1, <1>2, <1>4 DEF AtPlace, Now, Sync
<1>6. Safe'
  BY <1>1 DEF Safe
<1> QED
  BY <1>2, <1>4, <1>5, <1>6 DEF Sync

LEMMA FirstReadKeeps == ASSUME Now, FirstRead PROVE Sync'
<1>1. PICK n \in AtMost(BufSize) :
        /\ Take(n)
        /\ buf' = Put(Zeros, 0, SubSeq(incoming, 1, n))
        /\ pc' \in {"next"} \cup (IF n = BufSize THEN {"crash"} ELSE {})
  BY DEF FirstRead
<1>2. pc = "read" /\ UNCHANGED <<sent, respDst, nets, got>>
  BY DEF FirstRead
<1>3. nets = 0 /\ respDst = <<>> /\ sent.ends[Done] = Received /\ sent \in Streams
  BY <1>2 DEF Now, Sync, AtPlace, InOrder
<1> DEFINE y == SubSeq(incoming, 1, n)
<1>4. n \in 1..Len(incoming) /\ n <= BufSize /\ n \in Nat
  <2>1. Len(incoming) \in Nat /\ BufSize \in Nat
    BY BufSizeAssumption DEF Now, Sync, InStream
  <2> QED
    BY <2>1 DEF AtMost
<1>5. /\ InStream' /\ Received' = Received + n /\ Received + n <= Len(sent.bytes)
      /\ Shows(y, sent, Received, Received + n) /\ HasNone(y, Nul) /\ Len(y) = n
  BY <1>1, <1>2, <1>4, Taken
<1>6. y \in Seq(Bytes)
  BY <1>5 DEF Shows
<1>7. buf' = Put(Zeros, 0, y)
  BY <1>1
<1> HIDE DEF y
<1>8. buf' \in Seq(Bytes) /\ Len(buf') = BufSize /\ Text(buf', 0, y)
  BY <1>4, <1>5, <1>6, <1>7, PutZeros
<1>9. InOrder' /\ Done' = Done /\ (HasRoom' <=> HasRoom)
  BY <1>2, InOrderKept
<1>10. Done \in 0..Len(sent.payloads) /\ Done \in Nat /\ Received \in Nat
  BY <1>3, PlaceIs
<1>11. y = Rest(sent, Done, Received + n)
  <2>1. Received + n \in Nat /\ sent.ends[Done] <= Received + n
    BY <1>3, <1>4, <1>10
  <2>2. Shows(Rest(sent, Done, Received + n), sent, Received, Received + n)
    BY <1>3, <1>5, <1>10, <2>1, RestIs
  <2>3. PICK z : z = Rest(sent, Done, Received + n)
    OBVIOUS
  <2>4. y = z
    BY <1>5, <2>2, <2>3, SameSeq DEF Shows
  <2> QED
    BY <2>3, <2>4
<1>12. AtPlace'
  <2>1. pc' \in {"next", "crash"}
    BY <1>1
  <2>2. sent'.ends[Done'] <= Received'
    BY <1>2, <1>3, <1>4, <1>5, <1>9, <1>10
  <2>3. Text(buf', 0, Rest(sent', Done', Received'))
    BY <1>2, <1>5, <1>8, <1>9, <1>11
  <2>4. MessageLength(SubSeq(respDst', 1, nets')) <= sent'.ends[Done']
    <3>1. SubSeq(respDst', 1, nets') = <<>>
      BY <1>2, <1>3
    <3> QED
      <4>1. sent'.ends[Done'] = Received /\ Received >= 0
        BY <1>2, <1>3, <1>9, <1>10
      <4>2. MessageLength(SubSeq(respDst', 1, nets')) = 0
        BY <3>1, LengthEmpty
      <4> QED
        BY <4>1, <4>2
  <2>5. nets' = 0 /\ nets' >= 0
    BY <1>2, <1>3
  <2> QED
    BY <1>8, <2>1, <2>2, <2>3, <2>4, <2>5 DEF AtPlace
<1>13. Safe'
  <2> SUFFICES ASSUME HasRoom' PROVE pc' = "next"
    BY DEF Safe
  <2>1. Len(sent.bytes) < BufSize /\ Len(sent.bytes) \in Nat /\ BufSize \in Nat
    BY <1>9, PlaceIs, RoomIs, BufSizeAssumption DEF Now
  <2>2. n # BufSize
    BY <1>4, <1>5, <1>10, <2>1
  <2> QED
    BY <1>1, <2>2
<1> QED
  BY <1>5, <1>9, <1>12, <1>13 DEF Sync

LEMMA NextNetstringKeeps == ASSUME Now, NextNetstring PROVE Sync'
<1>1. /\ pc = "next" /\ UNCHANGED <<sent, incoming, buf, respDst, nets, got, cut>>
      /\ pc' = IF src = <<>> THEN "returned"
               ELSE IF ~FormatOnEntry \/ Head(src) = "0" THEN "exit" ELSE "fill"
      /\ digits' = IF pc' = "fill" THEN StrChr(src, ":") - 1 ELSE 0
      /\ strLength' = Atol(SubSeq(src, 1, digits'))
  BY DEF NextNetstring
<1>2. InStream' /\ Received' = Received /\ InOrder' /\ Done' = Done
  BY <1>1, InStreamKept, InOrderKept
<1>3. /\ nets >= 0 /\ sent.ends[Done] <= Received /\ src = Rest(sent, Done, Received)
      /\ Shows(src, sent, sent.ends[Done], Received) /\ src \in Seq(Bytes)
      /\ Len(src) = Received - sent.ends[Done] /\ sent \in Streams
  BY <1>1, SrcIs DEF Shows, Now
<1>4. /\ Received \in Nat /\ Received <= Len(sent.bytes) /\ Done \in 0..Len(sent.payloads)
      /\ sent.ends[Done] \in Nat
  BY <1>3, PlaceIs
<1>5. FormatOnEntry <=> Entry(src)
  BY DEF FormatOnEntry, Entry
<1>6. src # <<>> => Head(src) = src[1]
  BY <1>3
<1>7. buf \in Seq(Bytes) /\ Len(buf) = BufSize /\ Text(buf, 0, Rest(sent, Done, Received))
      /\ MessageLength(SubSeq(respDst, 1, nets)) <= sent.ends[Done]
  BY <1>1 DEF Now, Sync, AtPlace
<1>8. CASE pc' = "returned"
  <2>1. src = <<>>
    BY <1>1, <1>8
  <2>2. sent.ends[Done] = Received
    <3>1. Len(src) = 0
      BY <2>1
    <3> QED
      BY <1>3, <1>4, <3>1
  <2>3. AtPlace'
    BY <1>1, <1>2, <1>3, <1>7, <1>8, <2>2 DEF AtPlace
  <2>4. Safe'
    BY <1>8 DEF Safe
  <2> QED
    BY <1>2, <2>3, <2>4 DEF Sync
<1>9. CASE pc' = "exit"
  <2>1. src # <<>> /\ (~Entry(src) \/ src[1] = "0")
    BY <1>1, <1>5, <1>6, <1>9
  <2>2. cut
    BY <1>1, <2>1, WholeSrc
  <2>3. AtPlace'
    BY <1>1, <1>2, <1>3, <1>7, <1>9 DEF AtPlace
  <2>4. Safe'
    BY <1>1, <1>9, <2>2 DEF Safe
  <2> QED
    BY <1>2, <2>3, <2>4 DEF Sync
<1>10. CASE pc' = "fill"
  <2>1. src # <<>> /\ Entry(src) /\ src[1] # "0" /\ digits' = StrChr(src, ":") - 1
    BY <1>1, <1>5, <1>6, <1>10
  <2>2. Reads(sent, Done, Received, digits', strLength')
    <3>1. PICK k : k = digits'
      OBVIOUS
    <3>2. PICK x : x = src
      OBVIOUS
    <3>3. Reads(sent, Done, Received, k, Atol(SubSeq(x, 1, k)))
      BY <1>3, <1>4, <2>1, <3>1, <3>2, EntryReads
    <3> QED
      BY <1>1, <3>1, <3>2, <3>3
  <2>3. Reads(sent, Done, Received, digits, strLength)'
    BY <1>1, <1>2, <2>2
  <2>4. AtPlace'
    BY <1>1, <1>2, <1>3, <1>7, <1>10, <2>3 DEF AtPlace
  <2>5. Safe'
    BY <1>10 DEF Safe
  <2> QED
    BY <1>2, <2>4, <2>5 DEF Sync
<1> QED
  BY <1>1, <1>8, <1>9, <1>10

\* The steps that leave the strings alone.
LEMMA FillEndsKeeps == ASSUME Now, FillEnds \/ FillTimeout PROVE Sync'
<1>1. /\ pc = "fill" /\ pc' = "convert"
      /\ UNCHANGED <<sent, incoming, buf, respDst, nets, got, cut, digits, strLength>>
  BY DEF FillEnds, FillTimeout
<1>2. InStream' /\ Received' = Received /\ InOrder' /\ Done' = Done
  BY <1>1, InStreamKept, InOrderKept
<1>3. AtPlace'
  BY <1>1, <1>2 DEF AtPlace, Now, Sync
<1>4. Safe'
  BY <1>1 DEF Safe
<1> QED
  BY <1>2, <1>3, <1>4 DEF Sync

LEMMA RefuseKeeps == ASSUME Now, Refuse PROVE Sync'
<1>1. /\ pc = "convert" /\ pc' = "exit" /\ ~FormatOnFull
      /\ UNCHANGED <<sent, incoming, buf, respDst, nets, got, cut, digits, strLength>>
  BY DEF Refuse
<1>2. InStream' /\ Received' = Received /\ InOrder' /\ Done' = Done
  BY <1>1, InStreamKept, InOrderKept
<1>3. cut
  <2>1. ~Full(src)
    BY <1>1 DEF FormatOnFull, Full
  <2> QED
    BY <1>1, <2>1, CutWhenPartial
<1>4. AtPlace'
  BY <1>1, <1>2 DEF AtPlace, Now, Sync
<1>5. Safe'
  BY <1>1, <1>3 DEF Safe
<1> QED
  BY <1>2, <1>4, <1>5 DEF Sync

\* The peer's steps and those that change nothing.
LEMMA RestKeeps == ASSUME Now, PeerCloses \/ Stays \/ UNCHANGED vars PROVE Sync'
<1>1. UNCHANGED <<sent, incoming, pc, buf, respDst, nets, got, cut, digits, strLength>>
  BY DEF PeerCloses, Stays, vars
<1>2. InStream' /\ Received' = Received /\ InOrder' /\ Done' = Done /\ (HasRoom' <=> HasRoom)
  BY <1>1, InStreamKept, InOrderKept
<1>3. AtPlace'
  BY <1>1, <1>2 DEF AtPlace, Now, Sync
<1>4. Safe'
  BY <1>1, <1>2 DEF Safe, Now, Sync
<1> QED
  BY <1>2, <1>3, <1>4 DEF Sync

\* What is appended to src, or does not fit.
LEMMA Appends ==
    ASSUME Now, pc = "fill", NEW y \in Seq(Bytes), HasNone(y, Nul), Append2Src(y),
           NEW q \in Nat, Received <= q, q <= Len(sent.bytes), src \o y = Rest(sent, Done, q),
           q = Received + Len(y),
           UNCHANGED <<sent, respDst, nets, got, digits, strLength>>, InStream', Received' = q
    PROVE  Sync'
<1>1. InOrder' /\ Done' = Done /\ (HasRoom' <=> HasRoom)
  BY InOrderKept
<1>2. /\ nets >= 0 /\ sent.ends[Done] <= Received /\ Text(buf, 0, src)
      /\ Len(src) = Received - sent.ends[Done] /\ sent \in Streams
  BY SrcIs DEF Now
<1>3. /\ Received \in Nat /\ Done \in 0..Len(sent.payloads) /\ sent.ends[Done] \in Nat
      /\ Len(sent.bytes) \in Nat
  BY <1>2, PlaceIs
<1>4. /\ buf \in Seq(Bytes) /\ Len(buf) = BufSize
      /\ MessageLength(SubSeq(respDst, 1, nets)) <= sent.ends[Done]
      /\ Reads(sent, Done, Received, digits, strLength)
  BY DEF Now, Sync, AtPlace
<1>5. CASE Len(src) + Len(y) < BufSize
  <2>1. buf' = Put(buf, Len(src), Append(y, Nul)) /\ pc' = "fill"
    BY <1>5 DEF Append2Src
  <2>2. buf' \in Seq(Bytes) /\ Len(buf') = BufSize /\ Text(buf', 0, src \o y)
    <3>1. PICK t : t = src
      OBVIOUS
    <3>2. /\ Put(buf, Len(t), Append(y, Nul)) \in Seq(Bytes)
          /\ Len(Put(buf, Len(t), Append(y, Nul))) = Len(buf)
          /\ Text(Put(buf, Len(t), Append(y, Nul)), 0, t \o y)
      BY <1>2, <1>4, <1>5, <3>1, AppendText
    <3> QED
      BY <1>4, <2>1, <3>1, <3>2
  <2>3. Reads(sent, Done, q, digits, strLength)
    BY <1>2, <1>3, <1>4, ReadsOn
  <2>4. sent.ends[Done] <= q
    BY <1>2, <1>3
  <2>5. AtPlace'
    <3>1. Text(buf', 0, Rest(sent', Done', Received'))
      BY <1>1, <2>2
    <3>2. Reads(sent', Done', Received', digits', strLength')
      BY <1>1, <2>3
    <3>3. sent'.ends[Done'] <= Received' /\ nets' >= 0
          /\ MessageLength(SubSeq(respDst', 1, nets')) <= sent'.ends[Done']
      BY <1>1, <1>2, <1>4, <2>4
    <3> QED
      BY <2>1, <2>2, <3>1, <3>2, <3>3 DEF AtPlace
  <2>6. Safe'
    BY <2>1 DEF Safe
  <2> QED
    BY <1>1, <2>5, <2>6 DEF Sync
<1>6. CASE ~(Len(src) + Len(y) < BufSize)
  <2>1. pc' = "crash" /\ buf' = buf
    BY <1>6 DEF Append2Src
  <2>2. AtPlace'
    BY <1>2, <1>4, <2>1 DEF AtPlace
  <2>3. ~HasRoom
    <3>1. Len(src) + Len(y) <= Len(sent.bytes) /\ Len(src) + Len(y) \in Nat
      <4>1. Len(y) \in Nat
        OBVIOUS
      <4>2. PICK m \in Nat : m = Len(y)
        BY <4>1
      <4>3. PICK e \in Nat : e = sent.ends[Done]
        BY <1>3
      <4>4. Len(src) = Received - e /\ q = Received + m /\ e <= Received
        BY <1>2, <4>2, <4>3
      <4>5. Len(src) + m <= Len(sent.bytes) /\ Len(src) + m \in Nat
        BY <1>3, <4>4
      <4> QED
        BY <4>2, <4>5
    <3>2. BufSize \in Nat
      BY BufSizeAssumption
    <3>3. HasRoom => Len(sent.bytes) < BufSize
      BY RoomIs DEF Now
    <3> QED
      BY <1>3, <1>6, <3>1, <3>2, <3>3
  <2>4. Safe'
    BY <1>1, <2>3 DEF Safe
  <2> QED
    BY <1>1, <2>2, <2>4 DEF Sync
<1> QED
  BY <1>5, <1>6

\* In step, only the first fragment of a netstring is appended.
LEMMA FillReadKeeps == ASSUME Now, FillRead, ~patched' PROVE Sync'
<1>1. PICK n \in AtMost(strLength - Len(frag)) :
        Take(n) /\ frag' = SubSeq(incoming, 1, n) \o SubSeq(frag, n + 1, Len(frag))
  BY DEF FillRead
<1>2. /\ pc = "fill" /\ Append2Src(frag') /\ patched' = (patched \/ frag # <<>>)
      /\ UNCHANGED <<sent, respDst, nets, got, digits, strLength>>
  BY DEF FillRead
<1>3. frag = <<>>
  BY <1>2 DEF Now
<1>4. /\ strLength \in Nat /\ Len(incoming) \in Nat /\ incoming \in Seq(Bytes) /\ sent \in Streams
  BY <1>2 DEF Now, Sync, InStream, AtPlace, Reads
<1>5. n \in 1..Len(incoming) /\ n \in Nat
  <2>1. Len(frag) = 0
    BY <1>3
  <2> QED
    BY <1>4, <2>1 DEF AtMost
<1> DEFINE y == SubSeq(incoming, 1, n)
<1>6. /\ InStream' /\ Received' = Received + n /\ Received + n <= Len(sent.bytes)
      /\ Shows(y, sent, Received, Received + n) /\ HasNone(y, Nul) /\ Len(y) = n
  BY <1>1, <1>2, <1>5, Taken
<1>7. y \in Seq(Bytes)
  BY <1>6 DEF Shows
<1>8. frag' = y
  <2>1. SubSeq(frag, n + 1, Len(frag)) = <<>>
    BY <1>3, <1>5
  <2>2. frag' = y \o <<>>
    BY <1>1, <2>1
  <2> HIDE DEF y
  <2>3. y \o <<>> = y
    BY <1>7
  <2> QED
    BY <2>2, <2>3
<1> HIDE DEF y
<1>9. /\ src = Rest(sent, Done, Received) /\ sent.ends[Done] <= Received /\ nets >= 0
  BY <1>2, SrcIs
<1>10. Received \in Nat /\ Done \in 0..Len(sent.payloads)
  BY <1>9, PlaceIs
<1>11. PICK q \in Nat : q = Received + n
  BY <1>5, <1>10
<1>12. Received <= q /\ q <= Len(sent.bytes) /\ Shows(y, sent, Received, q) /\ q = Received + Len(y)
  BY <1>5, <1>6, <1>10, <1>11
<1>13. src \o y = Rest(sent, Done, q)
  <2>1. PICK s \in Streams : s = sent
    BY <1>4
  <2>2. PICK d \in 0..Len(s.payloads) : d = Done
    BY <1>10, <2>1
  <2>3. PICK r \in Nat : r = Received
    BY <1>10
  <2>4. s.ends[d] <= r /\ r <= q /\ q <= Len(s.bytes) /\ Shows(y, s, r, q)
    BY <1>9, <1>12, <2>1, <2>2, <2>3
  <2>5. Rest(s, d, r) \o y = Rest(s, d, q)
    BY <2>4, RestGrows
  <2> QED
    BY <1>9, <2>1, <2>2, <2>3, <2>5
<1>14. Append2Src(y)
  BY <1>2, <1>8
<1> QED
  BY <1>2, <1>6, <1>7, <1>11, <1>12, <1>13, <1>14, Appends

LEMMA FillEofKeeps == ASSUME Now, FillEof, ~patched' PROVE Sync'
<1>1. /\ pc = "fill" /\ Append2Src(frag) /\ patched' = (patched \/ frag # <<>>)
      /\ UNCHANGED <<sent, incoming, respDst, nets, got, cut, digits, strLength>>
  BY DEF FillEof
<1>2. frag = <<>>
  BY <1>1 DEF Now
<1> DEFINE y == <<>>
<1>3. y \in Seq(Bytes) /\ HasNone(y, Nul) /\ Len(y) = 0 /\ Append2Src(y)
  BY <1>1, <1>2 DEF HasNone
<1>4. InStream' /\ Received' = Received
  BY <1>1, InStreamKept
<1>5. src = Rest(sent, Done, Received) /\ src \in Seq(Bytes)
  BY <1>1, SrcIs DEF Shows
<1>6. Received \in Nat /\ Received <= Len(sent.bytes)
  BY PlaceIs
<1>7. src \o y = src
  BY <1>5
<1> HIDE DEF y
<1>8. Received = Received + Len(y) /\ Received <= Received /\ src \o y = Rest(sent, Done, Received)
  BY <1>3, <1>5, <1>6, <1>7
<1> QED
  BY <1>1, <1>3, <1>4, <1>6, <1>8, Appends

\* In step, a format that seems complete is complete.
LEMMA ConvertWhole ==
    ASSUME Now, pc = "convert", FormatOnFull
    PROVE  /\ Done \in Nat /\ Done < Len(sent.payloads) /\ sent.ends[Done + 1] <= Received
           /\ digits \in Nat /\ strLength \in Nat /\ strLength = Len(sent.payloads[Done + 1])
           /\ next <= Len(src) /\ sent.ends[Done] + next = sent.ends[Done + 1]
           /\ First(StringAt(buf, digits + 1), strLength) = sent.payloads[Done + 1]
           /\ StringAt(buf, next) = Rest(sent, Done + 1, Received)
<1>1. /\ nets >= 0 /\ sent.ends[Done] <= Received /\ src = Rest(sent, Done, Received)
      /\ Text(buf, 0, src) /\ src \in Seq(Bytes) /\ Len(src) \in Nat /\ sent \in Streams
  BY SrcIs DEF Shows, Now
<1>2. /\ Received \in Nat /\ Received <= Len(sent.bytes) /\ Done \in 0..Len(sent.payloads)
      /\ Done \in Nat
  BY <1>1, PlaceIs
<1>3. Full(src) /\ Reads(sent, Done, Received, digits, strLength) /\ buf \in Seq(Bytes)
  BY DEF FormatOnFull, Full, Now, Sync, AtPlace
<1>4. Done < Len(sent.payloads) /\ sent.ends[Done + 1] <= Received
  <2>1. CASE ~cut
    BY <2>1, WholeSrc, CutWhenPartial
  <2>2. CASE cut
    <3>1. ~HasComma
      BY <2>2 DEF Now, InStep
    <3>2. ASSUME Done < Len(sent.payloads) PROVE HasNone(sent.payloads[Done + 1], Comma)
      <4>1. Shape(sent) /\ Done + 1 \in 1..Len(sent.payloads)
        BY <1>1, <1>2, <3>2, StreamShape DEF Shape
      <4>2. DOMAIN sent.payloads = 1..Len(sent.payloads) /\ sent.payloads[Done + 1] \in Seq(Bytes)
        BY <4>1 DEF Shape, Strings
      <4>3. sent.payloads[Done + 1] \in ToSet(sent.payloads)
        BY <4>1, <4>2 DEF ToSet
      <4>4. Comma \notin ToSet(sent.payloads[Done + 1])
        BY <3>1, <4>3 DEF HasComma
      <4> QED
        BY <4>2, <4>4 DEF HasNone, ToSet
    <3> QED
      BY <1>1, <1>2, <1>3, <3>2, CommaCompletes
  <2> QED
    BY <2>1, <2>2 DEF Now
<1>5. PICK x : x = src
  OBVIOUS
<1>6. /\ digits \in Nat /\ strLength \in Nat /\ strLength = Len(sent.payloads[Done + 1])
      /\ digits + strLength + 2 <= Len(x)
      /\ sent.ends[Done] + (digits + strLength + 2) = sent.ends[Done + 1]
      /\ First(SubSeq(x, (digits + 1) + 1, Len(x)), strLength) = sent.payloads[Done + 1]
      /\ SubSeq(x, (digits + strLength + 2) + 1, Len(x)) = Rest(sent, Done + 1, Received)
  <2>1. PICK d \in Nat : d = Done
    BY <1>2
  <2>2. PICK k : k = digits
    OBVIOUS
  <2>3. PICK l : l = strLength
    OBVIOUS
  <2>4. PICK s \in Streams : s = sent
    BY <1>1
  <2>5. PICK r \in Nat : r = Received
    BY <1>2
  <2>6. /\ x = Rest(s, d, r) /\ Reads(s, d, r, k, l) /\ d < Len(s.payloads) /\ s.ends[d + 1] <= r
        /\ r <= Len(s.bytes)
    BY <1>1, <1>2, <1>3, <1>4, <1>5, <2>1, <2>2, <2>3, <2>4, <2>5
  <2>7. Takes(s, d, r, k, l, x)
    BY <2>6, WholeTaken
  <2>8. /\ k \in Nat /\ l \in Nat /\ l = Len(s.payloads[d + 1])
        /\ k + l + 2 <= Len(x) /\ s.ends[d] + (k + l + 2) = s.ends[d + 1]
        /\ First(SubSeq(x, (k + 1) + 1, Len(x)), l) = s.payloads[d + 1]
        /\ SubSeq(x, (k + l + 2) + 1, Len(x)) = Rest(s, d + 1, r)
    BY <2>7 DEF Takes
  <2> QED
    BY <2>1, <2>2, <2>3, <2>4, <2>5, <2>8
<1>7. next = digits + strLength + 2
  BY DEF next
<1>8. StringAt(buf, next) = SubSeq(x, next + 1, Len(x))
  <2>1. PICK k \in Nat : k = next
    <3>1. digits \in Nat /\ strLength \in Nat
      BY <1>6
    <3> QED
      BY <1>7, <3>1
  <2>2. k \in 0..Len(x)
    BY <1>1, <1>5, <1>6, <1>7, <2>1
  <2> DEFINE z == SubSeq(x, k + 1, Len(x))
  <2>3. Text(buf, k, z)
    BY <1>1, <1>3, <1>5, <2>2, TextEnd
  <2> HIDE DEF z
  <2>4. StringAt(buf, k) = z
    BY <1>3, <2>3, TextIs
  <2> QED
    BY <2>1, <2>4 DEF z
<1>9. StringAt(buf, digits + 1) = SubSeq(x, (digits + 1) + 1, Len(x))
  <2>1. PICK k \in Nat : k = digits + 1
    BY <1>6
  <2>2. k \in 0..Len(x)
    BY <1>1, <1>5, <1>6, <2>1
  <2> DEFINE z == SubSeq(x, k + 1, Len(x))
  <2>3. Text(buf, k, z)
    BY <1>1, <1>3, <1>5, <2>2, TextEnd
  <2> HIDE DEF z
  <2>4. StringAt(buf, k) = z
    BY <1>3, <2>3, TextIs
  <2> QED
    BY <2>1, <2>4 DEF z
<1> QED
  BY <1>2, <1>4, <1>5, <1>6, <1>7, <1>8, <1>9

\* readNet writes the payload and its padding over the beginning of buf, and
\* then recvMessage the rest over that.
LEMMA Rewritten ==
    ASSUME NEW mem \in Seq(Bytes), NEW p \in Seq(Bytes), NEW l, l = Len(p), l + 1 <= Len(mem),
           NEW q, q = [i \in 1..(l + 1 - Len(p)) |-> Nul],
           NEW z \in Seq(Bytes), HasNone(z, Nul), Len(z) < Len(mem),
           NEW r, r = Put(Put(mem, 0, p \o q), 0, Append(z, Nul))
    PROVE  r \in Seq(Bytes) /\ Len(r) = Len(mem) /\ Text(r, 0, z)
<1>1. l \in Nat /\ Len(mem) \in Nat /\ Nul \in Bytes
  BY NulIs
<1>2. q \in Seq(Bytes) /\ Len(q) = 1
  <2>1. l + 1 - Len(p) = 1
    BY <1>1
  <2> QED
    BY <1>1, <2>1
<1>3. PICK w : w = p \o q
  OBVIOUS
<1>4. w \in Seq(Bytes) /\ Len(w) = l + 1
  BY <1>1, <1>2, <1>3
<1>5. PICK m : m = Put(mem, 0, w)
  OBVIOUS
<1>6. m \in Seq(Bytes) /\ Len(m) = Len(mem)
  <2>1. PICK a \in Nat : a = 0
    OBVIOUS
  <2>2. a + Len(w) <= Len(mem)
    BY <1>1, <1>4, <2>1
  <2>3. Put(mem, a, w) \in Seq(Bytes) /\ Len(Put(mem, a, w)) = Len(mem)
    BY <1>4, <2>2, PutIs
  <2> QED
    BY <1>5, <2>1, <2>3
<1>7. r = Put(m, 0, Append(z, Nul))
  BY <1>3, <1>5
<1>8. Len(z) < Len(m)
  BY <1>6
<1> QED
  BY <1>6, <1>7, <1>8, PutText

\* The strings gathered are some of the payloads.
LEMMA GatheredIs ==
    ASSUME Now, nets >= 0
    PROVE  /\ nets \in Nat /\ SubSeq(respDst, 1, nets) \in Seq(Strings)
           /\ Len(SubSeq(respDst, 1, nets)) = nets
           /\ \A i \in 1..nets : SubSeq(respDst, 1, nets)[i] = sent.payloads[Len(got) + i]
<1>1. /\ nets \in Nat /\ respDst \in Seq(Strings) /\ Len(respDst) \in Nat
      /\ nets <= 0 => respDst = <<>>
      /\ nets >= 1 => Len(respDst) = nets + 1 /\ \A i \in 1..nets : respDst[i] = sent.payloads[Len(got) + i]
  BY DEF Now, Sync, InOrder, Strings
<1>2. nets <= Len(respDst)
  <2>1. CASE nets = 0
    BY <1>1, <2>1
  <2>2. CASE nets >= 1
    BY <1>1, <2>2
  <2> QED
    BY <1>1, <2>1, <2>2
<1> DEFINE g == SubSeq(respDst, 1, nets)
<1>3. g \in Seq(Strings) /\ Len(g) = nets /\ \A i \in 1..nets : g[i] = respDst[i]
  BY <1>1, <1>2
<1> HIDE DEF g
<1>4. \A i \in 1..nets : g[i] = sent.payloads[Len(got) + i]
  BY <1>1, <1>3
<1> QED
  BY <1>1, <1>3, <1>4 DEF g

LEMMA StoredIs ==
    ASSUME Now, nets >= 0, Done < Len(sent.payloads), NEW p, p = sent.payloads[Done + 1],
           respDst' = Stored(p), nets' = nets + 1, UNCHANGED <<sent, got>>
    PROVE  /\ InOrder' /\ Done' = Done + 1
           /\ SubSeq(respDst', 1, nets') = Append(SubSeq(respDst, 1, nets), p)
<1>1. PICK g : g = SubSeq(respDst, 1, nets)
  OBVIOUS
<1>2. /\ nets \in Nat /\ g \in Seq(Strings) /\ Len(g) = nets
      /\ \A i \in 1..nets : g[i] = sent.payloads[Len(got) + i]
  BY <1>1, GatheredIs
<1>3. /\ sent \in Streams /\ got \in Seq(Strings) /\ Len(got) \in Nat
      /\ \A i \in 1..Len(got) : got[i] = sent.payloads[i]
  BY DEF Now, Sync, InOrder, Strings
<1>4. Done \in Nat /\ Done + 1 \in 1..Len(sent.payloads) /\ Done = Len(got) + nets
  BY <1>2, <1>3, StreamShape DEF Shape, Done
<1>5. p \in Strings
  BY <1>3, <1>4, StreamShape DEF Shape
<1>6. respDst' = g \o <<p, p>>
  BY <1>1 DEF Stored
<1>7. /\ respDst' \in Seq(Strings) /\ Len(respDst') = nets + 2
      /\ \A i \in 1..nets : respDst'[i] = g[i]
      /\ respDst'[nets + 1] = p /\ respDst'[nets + 2] = p
  BY <1>2, <1>5, <1>6
<1>8. Done' = Done + 1
  BY <1>2, <1>3 DEF Done
<1>9. ASSUME NEW i \in 1..nets' PROVE respDst'[i] = sent.payloads[Len(got) + i]
  <2>1. CASE i = nets + 1
    BY <1>4, <1>7, <1>2, <1>3, <2>1
  <2>2. CASE i \in 1..nets
    BY <1>2, <1>7, <2>2
  <2> QED
    BY <1>2, <2>1, <2>2
<1>10. InOrder'
  <2>1. nets' \in Int /\ nets' >= 1 /\ got' \in Seq(Seq(Bytes)) /\ respDst' \in Seq(Seq(Bytes))
    BY <1>2, <1>3, <1>7 DEF Strings
  <2>2. Done' <= Len(sent'.payloads)
    BY <1>4, <1>8
  <2>3. Len(respDst') = nets' + 1 /\ respDst'[nets' + 1] = sent'.payloads[Done']
    BY <1>2, <1>7, <1>8
  <2>4. \A i \in 1..nets' : respDst'[i] = sent'.payloads[Len(got') + i]
    BY <1>9
  <2>5. \A i \in 1..Len(got') : got'[i] = sent'.payloads[i]
    BY <1>3
  <2> QED
    BY <2>1, <2>2, <2>3, <2>4, <2>5 DEF InOrder
<1>11. SubSeq(respDst', 1, nets') = Append(g, p)
  <2> DEFINE a == SubSeq(respDst', 1, nets + 1)
             b == Append(g, p)
  <2>1. a \in Seq(Strings) /\ Len(a) = nets + 1 /\ \A i \in 1..(nets + 1) : a[i] = respDst'[i]
    BY <1>2, <1>7
  <2>2. b \in Seq(Strings) /\ Len(b) = nets + 1 /\ b[nets + 1] = p /\ \A i \in 1..nets : b[i] = g[i]
    BY <1>2, <1>5
  <2> HIDE DEF a, b
  <2>3. ASSUME NEW i \in 1..Len(a) PROVE a[i] = b[i]
    <3>1. CASE i = nets + 1
      BY <1>2, <1>7, <2>1, <2>2, <3>1
    <3>2. CASE i \in 1..nets
      BY <1>2, <1>7, <2>1, <2>2, <3>2
    <3> QED
      BY <1>2, <2>1, <3>1, <3>2
  <2>4. a = b
    BY <2>1, <2>2, <2>3, SameSeq
  <2> QED
    BY <2>4 DEF a, b
<1> QED
  BY <1>1, <1>8, <1>10, <1>11

LEMMA ConvertKeeps == ASSUME Now, Convert PROVE Sync'
<1>1. /\ pc = "convert" /\ FormatOnFull
      /\ UNCHANGED <<sent, incoming, got, cut>>
  BY DEF Convert
<1>2. PICK p : p = First(StringAt(buf, digits + 1), strLength)
  OBVIOUS
<1>3. PICK q : q = [i \in 1..(strLength + 1 - Len(p)) |-> Nul]
  OBVIOUS
<1>4. IF \/ strLength + MessageLength(SubSeq(respDst, 1, nets)) > BufSize
         \/ next >= BufSize
         \/ Fills(p) > BufSize
      THEN pc' = "crash" /\ UNCHANGED <<buf, respDst, nets>>
      ELSE /\ respDst' = Stored(p) /\ nets' = nets + 1 /\ pc' = "next"
           /\ buf' = Put(Put(buf, 0, p \o q), 0, Append(StringAt(buf, next), Nul))
  BY <1>2, <1>3 DEF Convert
<1>5. /\ Done \in Nat /\ Done < Len(sent.payloads) /\ sent.ends[Done + 1] <= Received
      /\ digits \in Nat /\ strLength \in Nat /\ strLength = Len(sent.payloads[Done + 1])
      /\ next <= Len(src) /\ sent.ends[Done] + next = sent.ends[Done + 1]
      /\ p = sent.payloads[Done + 1] /\ StringAt(buf, next) = Rest(sent, Done + 1, Received)
  BY <1>1, <1>2, ConvertWhole
<1>6. next \in Nat /\ strLength + 2 <= next
  BY <1>5 DEF next
<1>7. /\ nets >= 0 /\ sent.ends[Done] <= Received /\ Text(buf, 0, src) /\ src \in Seq(Bytes)
      /\ Len(src) \in Nat /\ Len(src) = Received - sent.ends[Done]
  BY <1>1, SrcIs DEF Shows
<1>8. /\ Received \in Nat /\ Received <= Len(sent.bytes) /\ Len(sent.bytes) \in Nat
      /\ sent.ends[Done] \in Nat /\ sent \in Streams /\ Plain(sent)
  BY <1>7, PlaceIs DEF Now
<1>9. /\ buf \in Seq(Bytes) /\ Len(buf) = BufSize /\ BufSize \in Nat
      /\ MessageLength(SubSeq(respDst, 1, nets)) <= sent.ends[Done]
  BY <1>1, BufSizeAssumption DEF Now, Sync, AtPlace
<1>10. Len(src) <= BufSize
  <2>1. 0 + Len(src) <= Len(buf)
    BY <1>7 DEF Text
  <2> QED
    BY <1>7, <1>9, <2>1
<1>11. InStream' /\ Received' = Received
  BY <1>1, InStreamKept
<1>12. Shape(sent) /\ Done + 1 \in 1..Len(sent.payloads) /\ Done + 1 \in 0..Len(sent.payloads)
  <2>1. Shape(sent)
    BY <1>8, StreamShape
  <2>2. Len(sent.payloads) \in Nat /\ Done \in Nat /\ Done < Len(sent.payloads)
    BY <1>5, <2>1 DEF Shape
  <2> QED
    BY <2>1, <2>2
<1>13. p \in Strings /\ p \in Seq(Bytes) /\ Len(p) = strLength /\ sent.ends[Done + 1] \in Nat
  BY <1>5, <1>12 DEF Shape, Strings
<1>14. PICK g : g = SubSeq(respDst, 1, nets)
  OBVIOUS
<1>15. g \in Seq(Strings)
  BY <1>7, <1>14, GatheredIs
<1>16. /\ MessageLength(g) \in Nat /\ MessageLength(Append(g, p)) = MessageLength(g) + Len(p) + 1
  BY <1>13, <1>15, LengthAppend
<1>17. PICK e \in Nat : e = sent.ends[Done]
  BY <1>8
<1>18. PICK f \in Nat : f = sent.ends[Done + 1]
  BY <1>13
<1>19. PICK n \in Nat : n = next
  BY <1>6
<1>20. PICK t \in Nat : t = strLength
  BY <1>5
<1>21. PICK b \in Nat : b = Len(sent.bytes)
  BY <1>8
<1>22. PICK u \in Nat : u = Len(src)
  BY <1>7
<1>23. PICK a \in Nat : a = Received
  BY <1>8
<1>24. /\ f <= a /\ n <= u /\ e + n = f /\ t + 2 <= n /\ e <= a /\ u = a - e /\ a <= b
       /\ u <= BufSize
  BY <1>5, <1>6, <1>7, <1>8, <1>10, <1>17, <1>18, <1>19, <1>20, <1>21, <1>22, <1>23
<1>27. PICK fills \in BOOLEAN : fills <=> Fills(p) > BufSize
  OBVIOUS
<1>25. CASE strLength + MessageLength(g) > BufSize \/ next >= BufSize \/ fills
  <2>1. pc' = "crash" /\ UNCHANGED <<buf, respDst, nets>>
    BY <1>4, <1>14, <1>25, <1>27
  <2>2. InOrder' /\ Done' = Done /\ (HasRoom' <=> HasRoom)
    BY <1>1, <2>1, InOrderKept
  <2>3. AtPlace'
    BY <1>7, <1>9, <2>1 DEF AtPlace
  <2>4. ~HasRoom
    <3>1. PICK m \in Nat : m = MessageLength(g)
      BY <1>16
    <3>2. m <= e
      BY <1>9, <1>14, <1>17, <3>1
    <3>3. t + m <= b /\ n <= b /\ m + 2 * (t + 1) <= b + t
      BY <1>24, <3>2
    <3>4. fills <=> m + 2 * (t + 1) > BufSize
      BY <1>13, <1>14, <1>20, <1>27, <3>1 DEF Fills
    <3>5. SUFFICES ASSUME HasRoom PROVE FALSE
      OBVIOUS
    <3>6. b < BufSize /\ b + t < BufSize
      BY <1>5, <1>8, <1>12, <1>20, <1>21, <3>5, RoomIs
    <3> QED
      BY <1>9, <1>25, <1>19, <1>20, <3>1, <3>3, <3>4, <3>6
  <2>5. Safe'
    BY <2>2, <2>4 DEF Safe
  <2> QED
    BY <1>11, <2>2, <2>3, <2>5 DEF Sync
<1>26. CASE ~(strLength + MessageLength(g) > BufSize \/ next >= BufSize \/ fills)
  <2>1. /\ respDst' = Stored(p) /\ nets' = nets + 1 /\ pc' = "next"
        /\ buf' = Put(Put(buf, 0, p \o q), 0, Append(StringAt(buf, next), Nul))
    BY <1>4, <1>14, <1>26, <1>27
  <2>2. /\ InOrder' /\ Done' = Done + 1 /\ SubSeq(respDst', 1, nets') = Append(g, p)
    BY <1>1, <1>5, <1>7, <1>14, <2>1, StoredIs
  <2>3. PICK z : z = Rest(sent, Done + 1, Received)
    OBVIOUS
  <2>4. z \in Seq(Bytes) /\ HasNone(z, Nul) /\ Len(z) < Len(buf)
    <3>1. PICK d \in 0..Len(sent.payloads) : d = Done + 1
      BY <1>12
    <3>2. PICK r \in Nat : r = Received
      BY <1>8
    <3>3. sent.ends[d] <= r /\ r <= Len(sent.bytes)
      BY <1>5, <1>8, <3>1, <3>2
    <3>4. Shows(Rest(sent, d, r), sent, sent.ends[d], r) /\ HasNone(Rest(sent, d, r), Nul)
      BY <1>8, <3>3, RestIs
    <3>5. z \in Seq(Bytes) /\ HasNone(z, Nul) /\ Len(z) = r - sent.ends[d]
      BY <2>3, <3>1, <3>2, <3>4 DEF Shows
    <3>6. r - sent.ends[d] < BufSize
      <4>1. a - f < BufSize
        BY <1>9, <1>24
      <4> QED
        BY <1>18, <1>23, <3>1, <3>2, <4>1
    <3> QED
      BY <1>9, <3>5, <3>6
  <2>5. buf' \in Seq(Bytes) /\ Len(buf') = BufSize /\ Text(buf', 0, z)
    <3>1. PICK r : r = buf'
      OBVIOUS
    <3>2. PICK l : l = strLength
      OBVIOUS
    <3>3. l = Len(p) /\ l + 1 <= Len(buf) /\ q = [i \in 1..(l + 1 - Len(p)) |-> Nul]
      <4>1. l = Len(p)
        BY <1>13, <3>2
      <4>2. next <= Len(src) /\ Len(src) <= Len(buf) /\ Len(src) \in Nat /\ Len(buf) \in Nat
            /\ l \in Nat /\ next \in Nat /\ l + 2 <= next
        BY <1>5, <1>6, <1>7, <1>9, <1>10, <3>2
      <4>3. l + 1 <= Len(buf)
        BY <4>2
      <4> QED
        BY <1>3, <3>2, <4>1, <4>3
    <3>4. r = Put(Put(buf, 0, p \o q), 0, Append(z, Nul))
      BY <1>5, <2>1, <2>3, <3>1
    <3>5. r \in Seq(Bytes) /\ Len(r) = Len(buf) /\ Text(r, 0, z)
      BY <1>9, <1>13, <2>4, <3>3, <3>4, Rewritten
    <3> QED
      BY <1>9, <3>1, <3>5
  <2>6. AtPlace'
    <3>1. sent'.ends[Done'] <= Received' /\ Text(buf', 0, Rest(sent', Done', Received'))
      BY <1>1, <1>5, <1>11, <2>2, <2>3, <2>5
    <3>2. MessageLength(SubSeq(respDst', 1, nets')) <= sent'.ends[Done']
      <4>1. PICK m \in Nat : m = MessageLength(g)
        BY <1>16
      <4>2. MessageLength(Append(g, p)) = m + strLength + 1
        BY <1>13, <1>16, <4>1
      <4>3. m <= e
        BY <1>9, <1>14, <1>17, <4>1
      <4>4. m + t + 1 <= f
        BY <1>24, <4>3
      <4> QED
        BY <1>1, <1>18, <1>20, <2>2, <4>2, <4>4
    <3>3. nets' >= 0
      <4>1. nets \in Nat
        BY <1>7, GatheredIs
      <4> QED
        BY <2>1, <4>1
    <3> QED
      BY <2>1, <2>5, <3>1, <3>2, <3>3 DEF AtPlace
  <2>7. Safe'
    BY <2>1 DEF Safe
  <2> QED
    BY <1>11, <2>2, <2>6, <2>7 DEF Sync
<1> QED
  BY <1>25, <1>26

LEMMA CallAgainKeeps == ASSUME Now, CallAgain PROVE Sync'
<1>1. /\ pc = "returned" /\ nets > 0 /\ got' = got \o SubSeq(respDst, 1, nets)
      /\ respDst' = <<>> /\ nets' = 0 /\ buf' = Zeros /\ pc' = "read"
      /\ UNCHANGED <<sent, incoming, cut>>
  BY DEF CallAgain
<1>2. InStream' /\ Received' = Received
  BY <1>1, InStreamKept
<1>3. nets >= 0 /\ nets \in Nat
  <2>1. nets \in Int
    BY DEF Now, Sync, InOrder
  <2> QED
    BY <1>1, <2>1
<1>4. PICK g : g = SubSeq(respDst, 1, nets)
  OBVIOUS
<1>5. /\ g \in Seq(Strings) /\ Len(g) = nets
      /\ \A i \in 1..nets : g[i] = sent.payloads[Len(got) + i]
  BY <1>3, <1>4, GatheredIs
<1>6. /\ got \in Seq(Strings) /\ Len(got) \in Nat
      /\ \A i \in 1..Len(got) : got[i] = sent.payloads[i]
  BY DEF Now, Sync, InOrder, Strings
<1>7. /\ got' \in Seq(Strings) /\ Len(got') = Len(got) + nets
      /\ \A i \in 1..Len(got) : got'[i] = got[i]
      /\ \A i \in 1..nets : got'[Len(got) + i] = g[i]
  <2>1. got' \in Seq(Strings) /\ Joins(got', got, g)
    BY <1>1, <1>4, <1>5, <1>6, ConcatIs
  <2> QED
    BY <1>5, <2>1 DEF Joins
<1>8. Done' = Done
  <2>1. Len(got') + nets' = Len(got) + nets
    BY <1>1, <1>3, <1>6, <1>7
  <2> QED
    BY <2>1 DEF Done
<1>9. ASSUME NEW i \in 1..Len(got') PROVE got'[i] = sent.payloads[i]
  <2>1. CASE i \in 1..Len(got)
    BY <1>6, <1>7, <2>1
  <2>2. CASE i \notin 1..Len(got)
    <3>1. PICK j \in Int : j = i - Len(got)
      BY <1>6
    <3>2. j \in 1..nets /\ i = Len(got) + j
      BY <1>3, <1>6, <1>7, <2>2, <3>1
    <3> QED
      BY <1>5, <1>7, <3>2
  <2> QED
    BY <2>1, <2>2
<1>10. InOrder'
  <2>1. Done <= Len(sent.payloads)
    BY <1>3 DEF Now, Sync, InOrder
  <2>2. nets' \in Int /\ nets' >= -1 /\ ~(nets' >= 1)
    BY <1>1
  <2>3. got' \in Seq(Seq(Bytes)) /\ respDst' \in Seq(Seq(Bytes))
    BY <1>1, <1>7 DEF Strings
  <2>4. Done' <= Len(sent'.payloads)
    BY <1>1, <1>8, <2>1
  <2>5. \A i \in 1..Len(got') : got'[i] = sent'.payloads[i]
    BY <1>1, <1>9
  <2> QED
    BY <1>1, <2>2, <2>3, <2>4, <2>5 DEF InOrder
<1>11. AtPlace'
  <2>1. sent'.ends[Done'] = Received'
    BY <1>1, <1>2, <1>3, <1>8 DEF Now, Sync, AtPlace
  <2>2. buf' \in Seq(Bytes) /\ Len(buf') = BufSize
    <3>1. BufSize \in Nat
      BY BufSizeAssumption
    <3> QED
      BY <1>1, <3>1, NulIs DEF Zeros
  <2> QED
    BY <1>1, <2>1, <2>2 DEF AtPlace
<1>12. Safe'
  BY <1>1 DEF Safe
<1> QED
  BY <1>2, <1>10, <1>11, <1>12 DEF Sync

-----------------------------------------------------------------------------
(* The invariant holds.                                                    *)

\* Nothing of what happened is forgotten.
LEMMA Onward ==
    ASSUME cut \in BOOLEAN, patched \in BOOLEAN, [Next]_vars
    PROVE  /\ sent' = sent /\ cut' \in BOOLEAN /\ patched' \in BOOLEAN
           /\ (cut => cut') /\ (patched => patched')
           /\ FillRead \/ FillEof \/ patched' = patched
<1>1. CASE FirstRead
  <2>1. PICK n \in AtMost(BufSize) : cut' = (cut \/ Received + n \notin Range(sent.ends))
    BY <1>1 DEF FirstRead, Take
  <2> DEFINE b == Received + n \notin Range(sent.ends)
  <2>2. cut' = (cut \/ b)
    BY <2>1
  <2> HIDE DEF b
  <2>3. cut' \in BOOLEAN /\ (cut => cut')
    BY <2>2, Zenon
  <2> QED
    BY <1>1, <2>3 DEF FirstRead
<1>2. CASE FillRead
  <2>1. PICK n \in AtMost(strLength - Len(frag)) :
          cut' = (cut \/ Received + n \notin Range(sent.ends))
    BY <1>2 DEF FillRead, Take
  <2> DEFINE b == Received + n \notin Range(sent.ends)
             c == frag # <<>>
  <2>2. cut' = (cut \/ b) /\ patched' = (patched \/ c)
    BY <1>2, <2>1 DEF FillRead
  <2> HIDE DEF b, c
  <2>3. cut' \in BOOLEAN /\ (cut => cut') /\ patched' \in BOOLEAN /\ (patched => patched')
    BY <2>2, Zenon
  <2> QED
    BY <1>2, <2>3 DEF FillRead
<1>3. CASE FillEof
  <2> DEFINE c == frag # <<>>
  <2>1. patched' = (patched \/ c)
    BY <1>3 DEF FillEof
  <2> HIDE DEF c
  <2>2. patched' \in BOOLEAN /\ (patched => patched')
    BY <2>1, Zenon
  <2> QED
    BY <1>3, <2>2 DEF FillEof
<1>4. CASE UNCHANGED <<sent, cut, patched>>
  BY <1>4
<1>5. CASE UNCHANGED vars
  BY <1>4, <1>5 DEF vars
<1>6. CASE Next
  <2>1. CASE FirstReadFails
    BY <1>4, <2>1 DEF FirstReadFails
  <2>2. CASE NextNetstring
    BY <1>4, <2>2 DEF NextNetstring
  <2>3. CASE FillEnds
    BY <1>4, <2>3 DEF FillEnds
  <2>4. CASE FillTimeout
    BY <1>4, <2>4 DEF FillTimeout
  <2>5. CASE Refuse
    BY <1>4, <2>5 DEF Refuse
  <2>6. CASE Convert
    BY <1>4, <2>6 DEF Convert
  <2>7. CASE CallAgain
    BY <1>4, <2>7 DEF CallAgain
  <2>8. CASE PeerCloses
    BY <1>4, <2>8 DEF PeerCloses
  <2>9. CASE Stays
    BY <1>5, <2>9 DEF Stays
  <2> QED
    BY <1>1, <1>2, <1>3, <1>6, <2>1, <2>2, <2>3, <2>4, <2>5, <2>6, <2>7, <2>8, <2>9 DEF Next, Step
<1> QED
  BY <1>5, <1>6

\* A stream that begins with 0 stays at the first check of the first netstring.
LEMMA RefusedKept ==
    ASSUME sent \in Streams, ~Plain(sent), Refused, [Next]_vars, sent' = sent
    PROVE  Refused'
<1>1. CASE FirstRead
  <2>1. pc = "read" /\ incoming = sent.bytes /\ UNCHANGED <<patched, nets, respDst, got>>
    BY <1>1 DEF FirstRead, Refused
  <2>2. PICK n \in AtMost(BufSize) : /\ buf' = Put(Zeros, 0, SubSeq(incoming, 1, n))
                                     /\ pc' \in {"next"} \cup (IF n = BufSize THEN {"crash"} ELSE {})
    BY <1>1 DEF FirstRead
  <2>3. /\ incoming \in Seq(Bytes) /\ Len(incoming) \in Nat /\ Len(incoming) > 0
        /\ incoming[1] = "0" /\ BufSize \in Nat
    BY <2>1, StreamShape, BufSizeAssumption DEF Plain, Shape
  <2>4. n \in 1..Len(incoming) /\ n \in 1..BufSize /\ n \in Nat
    BY <2>2, <2>3 DEF AtMost
  <2> DEFINE y == SubSeq(incoming, 1, n)
  <2>5. y \in Seq(Bytes) /\ Len(y) = n /\ y[1] = "0"
    BY <2>3, <2>4
  <2> HIDE DEF y
  <2>6. buf' = Put(Zeros, 0, y)
    BY <2>2 DEF y
  <2>7. /\ Zeros \in Seq(Bytes) /\ Len(Zeros) = BufSize
    BY <2>3, NulIs DEF Zeros
  <2>8. buf' \in Seq(Bytes) /\ Len(buf') = BufSize /\ buf'[1] = "0"
    <3>1. PICK z \in Nat : z = 0
      OBVIOUS
    <3>2. z + Len(y) <= Len(Zeros)
      BY <2>3, <2>4, <2>5, <2>7, <3>1
    <3>3. PICK m : m = Put(Zeros, z, y)
      OBVIOUS
    <3>4. /\ m \in Seq(Bytes) /\ Len(m) = BufSize
          /\ \A i \in 1..BufSize : m[i] = IF z < i /\ i <= z + Len(y) THEN y[i - z] ELSE Zeros[i]
      BY <2>5, <2>7, <3>2, <3>3, PutIs
    <3>5. 1 \in 1..BufSize /\ z < 1 /\ 1 <= z + Len(y) /\ 1 - z = 1
      BY <2>3, <2>4, <2>5, <3>1
    <3>6. m[1] = "0"
      BY <2>5, <3>4, <3>5
    <3> QED
      BY <2>6, <3>1, <3>3, <3>4, <3>6
  <2>9. src' # <<>> /\ Head(src') = "0"
    <3>1. PICK b \in Seq(Bytes) : b = buf'
      BY <2>8
    <3>2. Len(b) \in Nat /\ Len(b) >= 1 /\ b[1] = "0"
      BY <2>3, <2>4, <2>8, <3>1
    <3> DEFINE ends == {i \in 0..(Len(b) - 1) : b[i + 1] = Nul}
               e == IF ends = {} THEN Len(b) ELSE Min(ends)
    <3>3. "0" # Nul
      BY DEF Nul
    <3>4. 0 \notin ends
      <4>1. 0 + 1 = 1
        OBVIOUS
      <4> QED
        BY <3>2, <3>3, <4>1
    <3>5. e \in Nat /\ e >= 1 /\ e <= Len(b)
      <4>1. CASE ends = {}
        BY <3>2, <4>1
      <4>2. CASE ends # {}
        <5>1. ends \in SUBSET Nat
          BY <3>2
        <5>2. \E u \in ends : \A v \in ends : u <= v
          BY <4>2, <5>1, LeastNatural
        <5>3. Min(ends) \in ends
          BY <5>2 DEF Min
        <5> QED
          BY <3>2, <3>4, <4>2, <5>3
      <4> QED
        BY <4>1, <4>2
    <3>6. StringAt(b, 0) = SubSeq(b, 1, e)
      <4>1. StringAt(b, 0) = SubSeq(b, 0 + 1, e)
        BY DEF StringAt
      <4> HIDE DEF e
      <4> QED
        BY <4>1
    <3> HIDE DEF e
    <3>7. SubSeq(b, 1, e) # <<>> /\ Head(SubSeq(b, 1, e)) = "0"
      BY <3>2, <3>5
    <3> QED
      BY <3>1, <3>6, <3>7 DEF src
  <2>10. HasRoom' => pc' # "crash"
    <3>1. ASSUME Len(sent.bytes) < BufSize PROVE n # BufSize
      BY <2>1, <2>3, <2>4, <3>1
    <3> QED
      BY <2>2, <3>1 DEF HasRoom
  <2> QED
    BY <2>1, <2>2, <2>9, <2>10 DEF Refused
<1>2. CASE FirstReadFails
  BY <1>2 DEF FirstReadFails, Refused
<1>3. CASE NextNetstring
  <2>1. pc' = "exit"
    BY <1>3 DEF NextNetstring, Refused
  <2> QED
    BY <1>3, <2>1 DEF NextNetstring, Refused
<1>4. CASE PeerCloses
  <2>1. src' = src
    BY <1>4 DEF PeerCloses, src
  <2> QED
    BY <1>4, <2>1 DEF PeerCloses, Refused, HasRoom
<1>5. CASE UNCHANGED vars
  <2>1. src' = src
    BY <1>5 DEF vars, src
  <2> QED
    BY <1>5, <2>1 DEF vars, Refused, HasRoom
<1>6. CASE FillEnds \/ FillRead \/ FillEof \/ FillTimeout \/ Refuse \/ Convert \/ CallAgain
  BY <1>6 DEF FillEnds, FillRead, FillEof, FillTimeout, Refuse, Convert, CallAgain, Refused
<1> QED
  BY <1>1, <1>2, <1>3, <1>4, <1>5, <1>6 DEF Next, Step, Stays

LEMMA InvInit == Init => Inv
<1> SUFFICES ASSUME Init PROVE Inv
  OBVIOUS
<1>1. /\ sent \in Streams /\ closed = FALSE /\ incoming = sent.bytes /\ pc = "read"
      /\ buf = Zeros /\ respDst = <<>> /\ nets = 0 /\ got = <<>> /\ cut = FALSE /\ patched = FALSE
  BY DEF Init
<1>2. Shape(sent)
  BY <1>1, StreamShape
<1>3. /\ incoming \in Seq(Bytes) /\ Len(incoming) = Len(sent.bytes) /\ Len(sent.bytes) \in Nat
      /\ Received = 0
  BY <1>1, <1>2 DEF Shape, Received
<1>4. BufSize \in Nat
  BY BufSizeAssumption
<1>5. buf \in Seq(Bytes) /\ Len(buf) = BufSize
  BY <1>1, <1>4, NulIs DEF Zeros
<1>6. Done = 0
  BY <1>1 DEF Done
<1>7. Received \in Range(sent.ends)
  <2>1. 0 \in DOMAIN sent.ends /\ sent.ends[0] = 0
    BY <1>2 DEF Shape
  <2> QED
    BY <1>3, <2>1 DEF Range
<1>8. InStream
  <2>1. ASSUME NEW i \in 1..Len(incoming) PROVE incoming[i] = sent.bytes[Received + i]
    <3>1. Received + i = i
      BY <1>3
    <3> QED
      BY <1>1, <3>1
  <2> QED
    BY <1>3, <1>7, <2>1 DEF InStream
<1>9. InOrder
  <2>1. Done <= Len(sent.payloads)
    BY <1>2, <1>6 DEF Shape
  <2>2. /\ nets \in Int /\ nets >= -1 /\ ~(nets >= 1) /\ got \in Seq(Seq(Bytes))
        /\ respDst \in Seq(Seq(Bytes)) /\ Len(got) = 0
    BY <1>1
  <2> QED
    BY <1>1, <2>1, <2>2 DEF InOrder
<1>10. AtPlace
  <2>1. sent.ends[Done] = Received
    BY <1>2, <1>3, <1>6 DEF Shape
  <2> QED
    BY <1>1, <1>5, <2>1 DEF AtPlace
<1>11. Safe
  BY <1>1 DEF Safe
<1>12. Sync
  BY <1>8, <1>9, <1>10, <1>11 DEF Sync
<1>13. Refused
  BY <1>1 DEF Refused
<1> QED
  BY <1>1, <1>12, <1>13 DEF Inv

LEMMA InvNext == Inv /\ [Next]_vars => Inv'
<1> SUFFICES ASSUME Inv, [Next]_vars PROVE Inv'
  OBVIOUS
<1>1. sent \in Streams /\ cut \in BOOLEAN /\ patched \in BOOLEAN /\ (~cut => ~patched)
  BY DEF Inv
<1>2. /\ sent' = sent /\ cut' \in BOOLEAN /\ patched' \in BOOLEAN
      /\ (cut => cut') /\ (patched => patched') /\ (FillRead \/ FillEof \/ patched' = patched)
  BY <1>1, Onward
<1>3. Plain(sent') <=> Plain(sent)
  BY <1>2
<1>4. InStep' => InStep
  <2>1. HasComma' <=> HasComma
    BY <1>2 DEF HasComma
  <2> QED
    BY <1>1, <1>2, <2>1 DEF InStep
<1>5. Plain(sent) /\ InStep => Now
  BY <1>1 DEF Inv, Now
<1>6. ~Plain(sent) => Refused'
  BY <1>1, <1>2, RefusedKept DEF Inv
<1>7. ~cut' => ~patched'
  <2> SUFFICES ASSUME ~cut', patched' PROVE FALSE
    OBVIOUS
  <2>1. ~cut /\ ~patched /\ InStep
    BY <1>1, <1>2 DEF InStep
  <2>2. FillRead \/ FillEof
    BY <1>1, <1>2, <2>1
  <2>3. pc = "fill" /\ strLength > Len(src)
    BY <2>2 DEF FillRead, FillEof
  <2>4. Plain(sent)
    BY <2>3 DEF Inv, Refused
  <2>5. Now
    BY <1>5, <2>1, <2>4
  <2>6. strLength <= Len(src) /\ strLength \in Nat
    BY <2>1, <2>3, <2>5, CutWhenPartial DEF Now, Sync, AtPlace, Reads
  <2>7. Len(src) \in Nat
    BY <2>3, <2>5, SrcIs
  <2> QED
    BY <2>3, <2>6, <2>7
<1>8. ASSUME Plain(sent), InStep' PROVE Sync'
  <2>1. Now /\ ~patched'
    BY <1>4, <1>5, <1>8 DEF InStep
  <2>2. CASE FirstRead
    BY <2>1, <2>2, FirstReadKeeps
  <2>3. CASE FirstReadFails
    BY <2>1, <2>3, FirstReadFailsKeeps
  <2>4. CASE NextNetstring
    BY <2>1, <2>4, NextNetstringKeeps
  <2>5. CASE FillEnds \/ FillTimeout
    BY <2>1, <2>5, FillEndsKeeps
  <2>6. CASE FillRead
    BY <2>1, <2>6, FillReadKeeps
  <2>7. CASE FillEof
    BY <2>1, <2>7, FillEofKeeps
  <2>8. CASE Refuse
    BY <2>1, <2>8, RefuseKeeps
  <2>9. CASE Convert
    BY <2>1, <2>9, ConvertKeeps
  <2>10. CASE CallAgain
    BY <2>1, <2>10, CallAgainKeeps
  <2>11. CASE PeerCloses \/ Stays \/ UNCHANGED vars
    BY <2>1, <2>11, RestKeeps
  <2> QED
    BY <2>2, <2>3, <2>4, <2>5, <2>6, <2>7, <2>8, <2>9, <2>10, <2>11 DEF Next, Step
<1> QED
  BY <1>1, <1>2, <1>3, <1>6, <1>7, <1>8 DEF Inv

LEMMA InvAlways == Spec => []Inv
BY InvInit, InvNext, PTL DEF Spec

-----------------------------------------------------------------------------
(* What readNet and recvMessage promise.                                   *)

LEMMA InvDelivers == Inv => DeliversUnlessPatched
<1> SUFFICES ASSUME Inv, InStep, nets >= 0
             PROVE  IsPrefix(got \o SubSeq(respDst, 1, nets), sent.payloads)
  BY DEF DeliversUnlessPatched, DeliversPayloads
<1>1. sent \in Streams /\ Shape(sent)
  BY StreamShape DEF Inv
<1>2. sent.payloads \in Seq(Strings) /\ Len(sent.payloads) \in Nat
  BY <1>1 DEF Shape
<1>3. CASE Plain(sent)
  <2>1. Now
    BY <1>3 DEF Inv, Now
  <2>2. PICK g : g = SubSeq(respDst, 1, nets)
    OBVIOUS
  <2>3. /\ nets \in Nat /\ g \in Seq(Strings) /\ Len(g) = nets
        /\ \A i \in 1..nets : g[i] = sent.payloads[Len(got) + i]
    BY <2>1, <2>2, GatheredIs
  <2>4. /\ got \in Seq(Strings) /\ Len(got) \in Nat /\ Len(got) + nets <= Len(sent.payloads)
        /\ \A i \in 1..Len(got) : got[i] = sent.payloads[i]
    BY <2>1 DEF Now, Sync, InOrder, Strings, Done
  <2>5. PICK all : all = got \o g
    OBVIOUS
  <2>6. /\ all \in Seq(Strings) /\ Len(all) = Len(got) + nets
        /\ \A i \in 1..Len(got) : all[i] = got[i]
        /\ \A i \in 1..nets : all[Len(got) + i] = g[i]
    <3>1. all \in Seq(Strings) /\ Joins(all, got, g)
      BY <2>3, <2>4, <2>5, ConcatIs
    <3> QED
      BY <2>3, <3>1 DEF Joins
  <2>7. ASSUME NEW i \in 1..Len(all) PROVE all[i] = sent.payloads[i]
    <3>1. CASE i \in 1..Len(got)
      BY <2>4, <2>6, <3>1
    <3>2. CASE i \notin 1..Len(got)
      <4>1. PICK j \in Int : j = i - Len(got)
        BY <2>4
      <4>2. j \in 1..nets /\ i = Len(got) + j
        BY <2>3, <2>4, <2>6, <3>2, <4>1
      <4> QED
        BY <2>3, <2>6, <4>2
    <3> QED
      BY <3>1, <3>2
  <2>8. PICK n \in Nat : n = Len(all)
    BY <2>6
  <2>9. PICK t \in Seq(Strings) : t = sent.payloads
    BY <1>2
  <2>10. n <= Len(t) /\ \A i \in 1..n : all[i] = t[i]
    BY <2>4, <2>6, <2>7, <2>8, <2>9
  <2>11. SubSeq(all, 1, n) = SubSeq(t, 1, n)
    <3> DEFINE a == SubSeq(all, 1, n)
               b == SubSeq(t, 1, n)
    <3>1. /\ a \in Seq(Strings) /\ b \in Seq(Strings) /\ Len(a) = n /\ Len(b) = n
          /\ \A i \in 1..n : a[i] = all[i] /\ b[i] = t[i]
      BY <2>6, <2>8, <2>10
    <3> HIDE DEF a, b
    <3>2. \A i \in 1..Len(a) : a[i] = b[i]
      BY <2>10, <3>1
    <3>3. a = b
      BY <3>1, <3>2, SameSeq
    <3> QED
      BY <3>3 DEF a, b
  <2>12. IsPrefix(all, t)
    BY <2>8, <2>10, <2>11 DEF IsPrefix
  <2> QED
    BY <2>2, <2>5, <2>9, <2>12
<1>4. CASE ~Plain(sent)
  <2>1. nets = 0 /\ got = <<>> /\ respDst = <<>>
    BY <1>4 DEF Inv, Refused
  <2>2. got \o SubSeq(respDst, 1, nets) = <<>>
    BY <2>1
  <2>3. PICK t \in Seq(Strings) : t = sent.payloads
    BY <1>2
  <2>4. Len(<<>>) <= Len(t) /\ SubSeq(<<>>, 1, Len(<<>>)) = SubSeq(t, 1, Len(<<>>))
    <3>1. SubSeq(t, 1, 0) = <<>> /\ SubSeq(<<>>, 1, 0) = <<>> /\ Len(<<>>) = 0
      OBVIOUS
    <3> QED
      BY <3>1
  <2>5. IsPrefix(<<>>, t)
    BY <2>4 DEF IsPrefix
  <2> QED
    BY <2>2, <2>3, <2>5
<1> QED
  BY <1>3, <1>4

\* However the peer's bytes are cut into reads, and whatever they are, the
\* strings handed to the caller are the payloads that were sent, in order, and
\* nothing behind the first malformed netstring, as long as the client is in
\* step with the stream: no netstring took more than one further read
\* (assignment4.c:140-149), and if some payload has a comma, none was cut
\* (line 152).
THEOREM Delivers == Spec => []DeliversUnlessPatched
BY InvAlways, InvDelivers, PTL

LEMMA InvLast == Inv => LastIsTwice
<1> SUFFICES ASSUME Inv, pc = "returned", nets >= 1, InStep
             PROVE  LET batch == SubSeq(sent.payloads, Len(got) + 1, Len(got) + nets)
                    IN respDst = Append(batch, batch[nets])
  BY DEF LastIsTwice
<1>1. Plain(sent) /\ sent \in Streams
  BY DEF Inv, Refused
<1>2. Now
  BY <1>1 DEF Inv, Now
<1>3. /\ nets \in Nat /\ respDst \in Seq(Strings) /\ got \in Seq(Strings) /\ Len(got) \in Nat
      /\ Len(respDst) = nets + 1 /\ respDst[nets + 1] = sent.payloads[Done]
      /\ Done = Len(got) + nets /\ Done <= Len(sent.payloads)
      /\ \A i \in 1..nets : respDst[i] = sent.payloads[Len(got) + i]
  BY <1>2 DEF Now, Sync, InOrder, Strings, Done
<1>4. sent.payloads \in Seq(Strings)
  BY <1>1, StreamShape DEF Shape
<1>5. PICK a \in Nat : a = Len(got)
  BY <1>3
<1>6. PICK c : c = a + nets
  OBVIOUS
<1>7. c \in Nat /\ a <= c /\ c <= Len(sent.payloads) /\ c - a = nets
  BY <1>3, <1>5, <1>6
<1>8. PICK b : b = SubSeq(sent.payloads, a + 1, c)
  OBVIOUS
<1>9. b \in Seq(Strings) /\ Len(b) = nets /\ \A i \in 1..nets : b[i] = sent.payloads[a + i]
  BY <1>4, <1>7, <1>8, SubIs
<1>10. PICK d : d = Append(b, b[nets])
  OBVIOUS
<1>11. nets \in 1..nets /\ b[nets] = sent.payloads[Done] /\ b[nets] \in Strings
  BY <1>3, <1>5, <1>9
<1>12. /\ d \in Seq(Strings) /\ Len(d) = nets + 1 /\ d[nets + 1] = b[nets]
       /\ \A i \in 1..nets : d[i] = b[i]
  BY <1>9, <1>10, <1>11
<1>13. ASSUME NEW i \in 1..Len(respDst) PROVE respDst[i] = d[i]
  <2>1. CASE i = nets + 1
    BY <1>3, <1>11, <1>12, <2>1
  <2>2. CASE i \in 1..nets
    BY <1>3, <1>5, <1>9, <1>12, <2>2
  <2> QED
    BY <1>3, <2>1, <2>2
<1>14. respDst = d
  BY <1>3, <1>12, <1>13, SameSeq
<1> QED
  BY <1>5, <1>6, <1>8, <1>10, <1>14

\* AsciiClient relies on the last string being there twice: recvMessage stores
\* each string also behind itself, where the next one is to go
\* (assignment4.c:196-203).
THEOREM LastTwice == Spec => []LastIsTwice
BY InvAlways, InvLast, PTL

\* While every read ends with a netstring and buf has room, no netstring is
\* refused or lost, whatever bytes its payload has, also commas and colons:
\* the length decides, not the marks (readNet, assignment4.c:119-168).
THEOREM WholeReads == Spec => []WholeReadsSucceed
<1>1. Inv => WholeReadsSucceed
  <2> SUFFICES ASSUME Inv, Complete, ~cut, HasRoom
               PROVE  /\ pc \notin {"exit", "crash"}
                      /\ pc = "returned" /\ nets >= 1 => sent.ends[Len(got) + nets] = Received
    BY DEF WholeReadsSucceed
  <2>1. sent \in Streams /\ Shape(sent) /\ InStep
    BY StreamShape DEF Inv, InStep
  <2>2. Plain(sent)
    <3>1. Len(sent.payloads) # 0
      BY <2>1 DEF Shape, Complete
    <3>2. Len(sent.payloads) \in Nat /\ 0 < Len(sent.payloads)
      BY <2>1, <3>1 DEF Shape
    <3>3. PICK d \in Nat : d = 0
      OBVIOUS
    <3>4. PICK k : Part(sent, d, k)
      BY <2>1, <3>2, <3>3, PartExists
    <3>5. sent.bytes[sent.ends[d] + 1] # "0"
      BY <3>4 DEF Part
    <3>6. sent.ends[d] + 1 = 1
      BY <2>1, <3>3 DEF Shape
    <3> QED
      BY <3>5, <3>6 DEF Plain
  <2>3. Sync
    BY <2>1, <2>2 DEF Inv
  <2>4. pc \notin {"exit", "crash"}
    BY <2>3 DEF Sync, Safe
  <2>5. ASSUME pc = "returned", nets >= 1 PROVE sent.ends[Len(got) + nets] = Received
    <3>1. nets \in Int /\ nets >= 0
      BY <2>3, <2>5 DEF Sync, InOrder
    <3>2. sent.ends[Done] = Received
      BY <2>3, <2>5, <3>1 DEF Sync, AtPlace
    <3> QED
      BY <3>2 DEF Done
  <2> QED
    BY <2>4, <2>5
<1> QED
  BY <1>1, InvAlways, PTL

\* While the client is in step, netstrings that fit into buf all together never
\* overrun a buffer: neither the fragments strcat appends to buf nor the
\* payloads that gather in respDst (assignment4.c:144-165, 196-203).
THEOREM NeverOverruns == Spec => []NoOverrun
<1>1. Inv => NoOverrun
  BY DEF Inv, NoOverrun, Sync, Safe, Refused
<1> QED
  BY <1>1, InvAlways, PTL

\* The first read puts something into buf, so that a call that runs through all
\* of it has a string to hand out.
Started == pc = "next" /\ nets = 0 /\ InStep => src # <<>>

\* Which steps begin and end a call, and that nobody is in step again.
LEMMA Moves ==
    ASSUME Inv, [Next]_vars
    PROVE  /\ sent' = sent /\ (InStep' => InStep)
           /\ pc \in {"exit", "crash"} => pc' = pc
           /\ pc = "returned" =>
                CallAgain \/ UNCHANGED <<pc, respDst, nets, got, cut, patched>>
           /\ pc # "returned" => got' = got
           /\ pc # "returned" /\ pc' = "returned" => FirstReadFails \/ NextNetstring
           /\ pc' = "next" => FirstRead \/ Convert \/ UNCHANGED <<pc, nets, buf>>
<1>1. sent' = sent /\ (cut => cut') /\ (patched => patched')
  BY Onward DEF Inv
<1>2. InStep' => InStep
  <2>1. HasComma' <=> HasComma
    BY <1>1 DEF HasComma
  <2> QED
    BY <1>1, <2>1 DEF InStep
<1> DEFINE Moved ==
      /\ pc \in {"exit", "crash"} => pc' = pc
      /\ pc = "returned" => CallAgain \/ UNCHANGED <<pc, respDst, nets, got, cut, patched>>
      /\ pc # "returned" => got' = got
      /\ pc # "returned" /\ pc' = "returned" => FirstReadFails \/ NextNetstring
      /\ pc' = "next" => FirstRead \/ Convert \/ UNCHANGED <<pc, nets, buf>>
<1> SUFFICES Moved
  BY <1>1, <1>2
<1>3. CASE FirstRead
  <2>1. pc = "read" /\ pc' \in {"next", "crash"} /\ got' = got
    BY <1>3 DEF FirstRead
  <2> QED
    BY <1>3, <2>1
<1>4. CASE FirstReadFails
  <2>1. pc = "read" /\ pc' = "returned" /\ got' = got
    BY <1>4 DEF FirstReadFails
  <2> QED
    BY <1>4, <2>1
<1>5. CASE NextNetstring
  <2>1. pc = "next" /\ pc' \in {"returned", "exit", "fill"} /\ got' = got
    BY <1>5 DEF NextNetstring
  <2> QED
    BY <1>5, <2>1
<1>6. CASE FillEnds \/ FillTimeout \/ FillRead \/ FillEof
  <2>1. pc = "fill" /\ pc' \in {"fill", "convert", "crash"} /\ got' = got
    BY <1>6 DEF FillEnds, FillTimeout, FillRead, FillEof, Append2Src
  <2> QED
    BY <2>1
<1>7. CASE Refuse
  <2>1. pc = "convert" /\ pc' = "exit" /\ got' = got
    BY <1>7 DEF Refuse
  <2> QED
    BY <2>1
<1>8. CASE Convert
  <2>1. pc = "convert" /\ pc' \in {"crash", "next"} /\ got' = got
    BY <1>8 DEF Convert
  <2> QED
    BY <1>8, <2>1
<1>9. CASE CallAgain
  <2>1. pc = "returned" /\ pc' = "read"
    BY <1>9 DEF CallAgain
  <2> QED
    BY <1>9, <2>1
<1>10. CASE PeerCloses \/ Stays \/ UNCHANGED vars
  <2>1. UNCHANGED <<pc, respDst, nets, got, cut, patched, buf>>
    BY <1>10 DEF PeerCloses, Stays, vars
  <2> QED
    BY <2>1
<1> QED
  BY <1>3, <1>4, <1>5, <1>6, <1>7, <1>8, <1>9, <1>10 DEF Next, Step

LEMMA StartedNext == ASSUME Inv, Inv', Started, [Next]_vars PROVE Started'
<1> SUFFICES ASSUME pc' = "next", nets' = 0, InStep' PROVE src' # <<>>
  BY DEF Started
<1>1. sent' = sent /\ InStep /\ sent \in Streams
  BY Moves DEF Inv
<1>2. CASE ~Plain(sent)
  BY <1>1, <1>2 DEF Inv, Refused
<1>3. CASE Plain(sent)
  <2>1. Now /\ Sync'
    BY <1>1, <1>3 DEF Inv, Now
  <2>2. CASE UNCHANGED <<pc, nets, buf>>
    BY <1>1, <2>2 DEF Started, src
  <2>3. CASE Convert
    <3>1. pc = "convert" /\ nets' = nets + 1
      BY <2>3 DEF Convert
    <3>2. nets \in Int /\ nets >= 0
      BY <2>1, <3>1 DEF Now, Sync, InOrder, AtPlace
    <3> QED
      BY <3>1, <3>2
  <2>4. CASE FirstRead
    <3>1. PICK n \in AtMost(BufSize) : Take(n)
      BY <2>4 DEF FirstRead
    <3>2. pc = "read" /\ UNCHANGED <<got, nets>>
      BY <2>4 DEF FirstRead
    <3>3. /\ Received \in Nat /\ Len(incoming) \in Nat
          /\ sent.ends[Done] = Received /\ Done \in 0..Len(sent.payloads)
      BY <2>1, <3>2, PlaceIs DEF Now, Sync, AtPlace, InStream
    <3>4. n \in 1..Len(incoming)
      BY <3>1, <3>3, BufSizeAssumption DEF AtMost
    <3>5. PICK r : r = Received + n
      OBVIOUS
    <3>6. Received' = r /\ r <= Len(sent.bytes) /\ r \in Nat /\ r > Received
      <4>1. PICK y : y = SubSeq(incoming, 1, n)
        OBVIOUS
      <4>2. Received' = Received + n /\ Received + n <= Len(sent.bytes)
        BY <1>1, <2>1, <3>1, <3>4, <4>1, Taken
      <4> QED
        BY <3>3, <3>4, <3>5, <4>2
    <3>7. PICK d \in 0..Len(sent.payloads) : d = Done /\ Done' = d
      BY <3>2, <3>3 DEF Done
    <3>8. PICK m : m = buf'
      OBVIOUS
    <3>9. m \in Seq(Bytes) /\ Text(m, 0, Rest(sent, d, r))
      BY <1>1, <2>1, <3>6, <3>7, <3>8 DEF Sync, AtPlace
    <3>10. src' = Rest(sent, d, r)
      <4> DEFINE x == Rest(sent, d, r)
      <4>1. Text(m, 0, x)
        BY <3>9
      <4> HIDE DEF x
      <4>2. StringAt(m, 0) = x
        BY <3>9, <4>1, TextIs
      <4> QED
        BY <3>8, <4>2 DEF src, x
    <3>11. Shows(Rest(sent, d, r), sent, sent.ends[d], r)
      BY <1>1, <1>3, <3>3, <3>6, <3>7, RestIs
    <3>12. Len(Rest(sent, d, r)) = r - Received
      BY <3>3, <3>7, <3>11 DEF Shows
    <3>13. Len(Rest(sent, d, r)) # 0
      BY <3>3, <3>6, <3>12
    <3> QED
      BY <3>10, <3>13
  <2> QED
    BY <2>2, <2>3, <2>4, Moves
<1> QED
  BY <1>2, <1>3

\* The part of a sequence behind a, cut again behind k.
LEMMA CutTwice ==
    ASSUME NEW B, NEW s \in Seq(B), NEW a \in Nat, NEW k \in Nat, k >= 1, a + k <= Len(s),
           NEW t, t = SubSeq(s, a + 1, Len(s)), NEW x, x = SubSeq(s, a + 1, a + k)
    PROVE  /\ Len(t) = Len(s) - a
           /\ SubSeq(t, 1, k) = x
           /\ t[k] = x[k]
           /\ SubSeq(t, k + 1, Len(t)) = SubSeq(s, (a + k) + 1, Len(s))
<1> DEFINE n == Len(s)
<1>1. n \in Nat /\ a <= n /\ a <= a + k /\ a + k \in Nat /\ (a + k) - a = k
  OBVIOUS
<1>2. t = SubSeq(s, a + 1, n)
  OBVIOUS
<1> HIDE DEF n
<1>3. t \in Seq(B) /\ Len(t) = n - a /\ \A i \in 1..(n - a) : t[i] = s[a + i]
  BY <1>1, <1>2, SubIs DEF n
<1>5. x \in Seq(B) /\ Len(x) = k /\ \A i \in 1..k : x[i] = s[a + i]
  BY <1>1, SubIs
<1>6. PICK l : l = Len(t)
  OBVIOUS
<1>7. l \in Nat /\ l = n - a /\ k <= l /\ l - k = n - (a + k) /\ 0 + k = k
  BY <1>1, <1>3, <1>6 DEF n
<1>8. SubSeq(t, 1, k) = x
  <2>1. PICK y : y = SubSeq(t, 0 + 1, k)
    OBVIOUS
  <2>2. y \in Seq(B) /\ Len(y) = k - 0 /\ \A i \in 1..(k - 0) : y[i] = t[0 + i]
    BY <1>3, <1>6, <1>7, <2>1, SubIs
  <2>3. ASSUME NEW i \in 1..k PROVE y[i] = x[i]
    <3>1. i \in 1..(n - a) /\ i \in 1..(k - 0) /\ 0 + i = i
      BY <1>7
    <3> QED
      BY <1>3, <1>5, <2>2, <3>1
  <2>4. Len(y) = k
    BY <2>2
  <2>5. y = x
    BY <1>5, <2>2, <2>3, <2>4, SameSeq
  <2> QED
    BY <2>1, <2>5
<1>9. t[k] = x[k]
  <2>1. k \in 1..k /\ k \in 1..(n - a)
    BY <1>7
  <2> QED
    BY <1>3, <1>5, <2>1
<1>10. SubSeq(t, k + 1, l) = SubSeq(s, (a + k) + 1, n)
  <2>1. PICK y : y = SubSeq(t, k + 1, l)
    OBVIOUS
  <2>2. y \in Seq(B) /\ Len(y) = l - k /\ \A i \in 1..(l - k) : y[i] = t[k + i]
    <3>1. t \in Seq(B) /\ k \in Nat /\ l \in Nat /\ k <= l /\ l <= Len(t)
      BY <1>3, <1>6, <1>7
    <3> QED
      BY <2>1, <3>1, SubIs
  <2>3. PICK z : z = SubSeq(s, (a + k) + 1, n)
    OBVIOUS
  <2>4. /\ z \in Seq(B) /\ Len(z) = n - (a + k)
        /\ \A i \in 1..(n - (a + k)) : z[i] = s[(a + k) + i]
    <3>1. a + k \in Nat /\ a + k <= n /\ n <= Len(s)
      BY <1>1 DEF n
    <3> QED
      BY <1>1, <2>3, <3>1, SubIs
  <2>5. ASSUME NEW i \in 1..Len(y) PROVE y[i] = z[i]
    <3>1. i \in 1..(l - k) /\ k + i \in 1..(n - a) /\ (a + k) + i = a + (k + i)
          /\ i \in 1..(n - (a + k))
      BY <1>1, <1>7, <2>2
    <3> QED
      BY <1>3, <2>2, <2>4, <3>1
  <2>6. Len(y) = Len(z)
    BY <1>7, <2>2, <2>4
  <2>7. y = z
    BY <2>2, <2>4, <2>5, <2>6, SameSeq
  <2> QED
    BY <2>1, <2>3, <2>7
<1> QED
  BY <1>2, <1>3, <1>6, <1>8, <1>9, <1>10 DEF n

\* What the caller's view is made of, as long as the client is in step.
LEMMA View ==
    ASSUME Inv, InStep
    PROVE  /\ sent \in Streams /\ Len(got) \in Nat /\ nets \in Int
           /\ Plain(sent) => Now
           /\ nets <= 0 => respDst = <<>>
           /\ pc = "read" => respDst = <<>>
<1>1. sent \in Streams
  BY DEF Inv
<1>2. CASE Plain(sent)
  <2>1. Now
    BY <1>2 DEF Inv, Now
  <2> QED
    BY <1>1, <2>1 DEF Now, Sync, InOrder, AtPlace
<1>3. CASE ~Plain(sent)
  <2>1. nets \in {0, -1} /\ respDst = <<>> /\ got = <<>>
    BY <1>3 DEF Inv, Refused
  <2> QED
    BY <1>1, <1>3, <2>1
<1> QED
  BY <1>2, <1>3

\* The end of the stream is not reported before the last string is handed out.
LEMMA EndIsLast ==
    ASSUME Inv, InStep, pc = "read", AtEof
    PROVE  SubSeq(sent.payloads, Len(got) + 1, Len(sent.payloads)) = <<>>
<1>1. Plain(sent) /\ sent \in Streams /\ incoming = <<>>
  <2>1. ~Plain(sent) => incoming = sent.bytes
    BY DEF Inv, Refused
  <2> QED
    BY <2>1, View, StreamShape DEF AtEof, Shape
<1>2. Now
  BY <1>1, View
<1>3. Done = Len(got) /\ Len(got) \in Nat /\ Done \in 0..Len(sent.payloads)
      /\ sent.ends[Done] = Received
  <2>1. nets = 0 /\ sent.ends[Done] = Received
    BY <1>2 DEF Now, Sync, AtPlace
  <2>2. Len(got) \in Nat /\ Done = Len(got) + nets
    BY View DEF Done
  <2> QED
    BY <1>2, <2>1, <2>2, PlaceIs
<1>4. Received = Len(sent.bytes) /\ Len(sent.bytes) \in Nat
  <2>1. Len(incoming) = 0 /\ Len(sent.bytes) \in Nat
    BY <1>1, StreamShape DEF Shape
  <2> QED
    BY <2>1 DEF Received
<1>5. PICK l \in Nat : l = Len(sent.payloads)
  BY <1>1, StreamShape DEF Shape
<1>6. ~(Done < l)
  <2> SUFFICES ASSUME Done < l PROVE FALSE
    OBVIOUS
  <2>1. sent.ends[Done] < sent.ends[l]
    BY <1>1, <1>3, <1>5, EndsGrow
  <2>2. sent.ends[l] \in 0..Len(sent.bytes)
    BY <1>1, <1>5, StreamShape DEF Shape
  <2> QED
    BY <1>3, <1>4, <2>1, <2>2
<1>7. Len(got) = l
  BY <1>3, <1>5, <1>6
<1>8. SubSeq(sent.payloads, l + 1, l) = <<>>
  <2>1. PICK y : y = SubSeq(sent.payloads, l + 1, l)
    OBVIOUS
  <2>2. y \in Seq(Strings) /\ Len(y) = l - l
    BY <1>1, <1>5, <2>1, StreamShape, SubIs DEF Shape
  <2>3. y = <<>>
    BY <1>5, <2>2
  <2> QED
    BY <2>1, <2>3
<1> QED
  BY <1>5, <1>7, <1>8

\* A step that ends what is promised does so in a call.
LEMMA LeavesInCall ==
    ASSUME Inv, [Next]_vars, abstractState' = "gone"
    PROVE  Rec!Leave \/ UNCHANGED Rec!vars
<1>1. abstractQueue' = <<>> /\ abstractStrings' = <<>> /\ abstractNets' = 0
  BY DEF abstractQueue, abstractStrings, abstractNets
<1>2. CASE abstractState = "gone"
  BY <1>1, <1>2 DEF abstractQueue, abstractStrings, abstractNets, Rec!vars
<1>3. CASE abstractState # "gone"
  <2>1. InStep /\ pc \notin {"exit", "crash"}
    BY <1>3 DEF abstractState
  <2>2. pc # "returned"
    <3> SUFFICES ASSUME pc = "returned" PROVE FALSE
      OBVIOUS
    <3>1. pc' \in {"read", "returned"} /\ UNCHANGED <<sent, cut, patched>>
      BY Moves DEF CallAgain
    <3>2. InStep'
      BY <2>1, <3>1 DEF InStep, HasComma
    <3> QED
      BY <3>1, <3>2 DEF abstractState
  <2>3. abstractState = "reading" /\ abstractStrings = <<>> /\ abstractNets = 0
    BY <2>1, <2>2 DEF abstractState, abstractStrings, abstractNets
  <2> QED
    BY <1>1, <2>3 DEF Rec!Leave
<1> QED
  BY <1>2, <1>3

\* A call that is over hands out the next strings, or tells why there are none.
LEMMA CallReturns ==
    ASSUME Inv, Inv', Started, LastIsTwice', InStep, InStep', sent' = sent, got' = got,
           pc \notin {"exit", "crash", "returned"}, pc' = "returned",
           FirstReadFails \/ NextNetstring
    PROVE  Rec!Receive \/ Rec!ReceiveNothing
<1>1. PICK a \in Nat : a = Len(got)
  BY View
<1>2. PICK s : s = sent.payloads
  OBVIOUS
<1>3. s \in Seq(Strings) /\ Len(s) \in Nat
  BY <1>2, View, StreamShape DEF Shape
<1>4. /\ abstractState = "reading" /\ abstractState' = "returned"
      /\ abstractStrings' = respDst' /\ abstractNets' = nets'
  BY DEF abstractState, abstractStrings, abstractNets
<1>5. abstractQueue = SubSeq(s, a + 1, Len(s))
  <2>1. handedOut = a
    BY <1>1, <1>4 DEF handedOut, abstractNets
  <2> QED
    BY <1>2, <1>4, <2>1 DEF abstractQueue
<1>6. abstractQueue' = SubSeq(s, (a + (IF nets' > 0 THEN nets' ELSE 0)) + 1, Len(s))
  <2>1. handedOut' = a + (IF nets' > 0 THEN nets' ELSE 0)
    BY <1>1, <1>4 DEF handedOut
  <2> QED
    BY <1>2, <1>4, <2>1 DEF abstractQueue
<1>7. CASE FirstReadFails
  <2>1. /\ pc = "read" /\ respDst' = respDst
        /\ (AtEof /\ nets' = 0) \/ nets' = -1
    BY <1>7 DEF FirstReadFails
  <2>2. respDst = <<>>
    BY <2>1, View
  <2>3. abstractQueue' = abstractQueue
    BY <1>5, <1>6, <2>1
  <2>4. AtEof => abstractQueue = <<>>
    BY <1>1, <1>2, <1>5, <2>1, EndIsLast
  <2> QED
    BY <1>4, <2>1, <2>2, <2>3, <2>4 DEF Rec!ReceiveNothing
<1>8. CASE NextNetstring
  <2>1. pc = "next" /\ src = <<>> /\ UNCHANGED <<respDst, nets>>
    BY <1>8 DEF NextNetstring
  <2>2. Now /\ nets # 0
    <3>1. Plain(sent)
      BY <2>1 DEF Inv, Refused
    <3> QED
      BY <2>1, <3>1, View DEF Started
  <2>3. PICK k \in Nat : k = nets /\ k >= 1 /\ a + k <= Len(s)
    <3>1. nets \in Int /\ nets >= 0 /\ Done <= Len(sent.payloads) /\ Done = Len(got) + nets
      BY <2>1, <2>2 DEF Now, Sync, AtPlace, InOrder, Done
    <3> QED
      BY <1>1, <1>2, <2>2, <3>1
  <2>4. PICK x : x = SubSeq(s, a + 1, a + k)
    OBVIOUS
  <2>5. respDst' = Append(x, x[k])
    BY <1>1, <1>2, <2>1, <2>3, <2>4 DEF LastIsTwice
  <2>6. PICK t : t = SubSeq(s, a + 1, Len(s))
    OBVIOUS
  <2>7. /\ Len(t) = Len(s) - a /\ SubSeq(t, 1, k) = x /\ t[k] = x[k]
        /\ SubSeq(t, k + 1, Len(t)) = SubSeq(s, (a + k) + 1, Len(s))
    BY <1>3, <2>3, <2>4, <2>6, CutTwice
  <2>8. k \in 1..Len(t)
    BY <1>3, <2>3, <2>7
  <2>9. abstractQueue = t /\ abstractQueue' = SubSeq(t, k + 1, Len(t))
    <3>1. nets' > 0 /\ nets' = k
      BY <2>1, <2>3
    <3> QED
      BY <1>5, <1>6, <2>6, <2>7, <3>1
  <2>10. abstractStrings' = Append(SubSeq(t, 1, k), t[k]) /\ abstractNets' = k
    BY <1>4, <2>1, <2>3, <2>5, <2>7
  <2> QED
    BY <1>4, <2>8, <2>9, <2>10 DEF Rec!Receive
<1> QED
  BY <1>7, <1>8

\* The strings of a call are then the caller's.
LEMMA HandsOver ==
    ASSUME Inv, InStep, CallAgain
    PROVE  Len(got') = Len(got) + nets
<1>1. /\ pc = "returned" /\ nets > 0
      /\ got' = got \o SubSeq(respDst, 1, nets)
  BY DEF CallAgain
<1>2. Now
  BY <1>1, View DEF Inv, Refused
<1>3. PICK k \in Nat : k = nets /\ k > 0
  BY <1>1, View
<1>4. /\ got \in Seq(Strings) /\ respDst \in Seq(Strings) /\ Len(respDst) = nets + 1
  BY <1>1, <1>2 DEF Now, Sync, InOrder, Strings
<1>5. PICK x : x = SubSeq(respDst, 0 + 1, k)
  OBVIOUS
<1>6. x \in Seq(Strings) /\ Len(x) = k - 0
  BY <1>3, <1>4, <1>5, SubIs
<1>7. got' = got \o x
  BY <1>1, <1>3, <1>5
<1>8. Len(got \o x) = Len(got) + Len(x)
  BY <1>4, <1>6, ConcatIs
<1>9. Len(x) = k
  BY <1>3, <1>6
<1> QED
  BY <1>3, <1>7, <1>8, <1>9

\* The strings of the last call are the caller's, who reads on.
LEMMA CallerReadsOn ==
    ASSUME Inv, InStep, InStep', sent' = sent, CallAgain
    PROVE  Rec!Resume
<1>1. pc = "returned" /\ nets > 0 /\ pc' = "read"
  BY DEF CallAgain
<1>2. PICK a \in Nat : a = Len(got)
  BY View
<1>3. PICK k \in Nat : k = nets /\ k > 0
  BY <1>1, View
<1>4. Len(got') = a + k
  BY <1>2, <1>3, HandsOver
<1>5. /\ abstractState = "returned" /\ abstractState' = "reading"
      /\ abstractNets = nets /\ abstractNets' = 0 /\ abstractStrings' = <<>>
  BY <1>1 DEF abstractState, abstractNets, abstractStrings
<1>6. handedOut = a + k /\ handedOut' = a + k
  BY <1>2, <1>3, <1>4, <1>5 DEF handedOut
<1>7. abstractQueue' = abstractQueue
  BY <1>5, <1>6 DEF abstractQueue
<1> QED
  BY <1>1, <1>5, <1>7 DEF Rec!Resume

LEMMA StepReads ==
    ASSUME Inv, Inv', Started, LastIsTwice', [Next]_vars
    PROVE  [Rec!Next]_(Rec!vars)
<1>1. CASE abstractState' = "gone"
  BY <1>1, LeavesInCall DEF Rec!Next
<1>2. CASE abstractState' # "gone"
  <2>1. InStep' /\ pc' \notin {"exit", "crash"}
    BY <1>2 DEF abstractState
  <2>2. InStep /\ pc \notin {"exit", "crash"} /\ sent' = sent
    BY <2>1, Moves
  <2>3. CASE pc # "returned" /\ pc' # "returned"
    <3>1. got' = got
      BY <2>3, Moves
    <3>2. /\ abstractState = "reading" /\ abstractState' = "reading"
      BY <2>1, <2>2, <2>3 DEF abstractState
    <3>3. UNCHANGED <<abstractStrings, abstractNets>>
      BY <3>2 DEF abstractStrings, abstractNets
    <3>4. handedOut' = handedOut
      BY <3>1, <3>3 DEF handedOut
    <3>5. abstractQueue' = abstractQueue
      BY <2>2, <3>2, <3>4 DEF abstractQueue
    <3> QED
      BY <3>2, <3>3, <3>5 DEF Rec!vars
  <2>4. CASE pc # "returned" /\ pc' = "returned"
    <3>1. Rec!Receive \/ Rec!ReceiveNothing
      BY <2>1, <2>2, <2>4, Moves, CallReturns
    <3> QED
      BY <3>1 DEF Rec!Next
  <2>5. CASE pc = "returned"
    <3>1. CASE CallAgain
      BY <2>1, <2>2, <3>1, CallerReadsOn DEF Rec!Next
    <3>2. CASE UNCHANGED <<pc, respDst, nets, got, cut, patched>>
      <4>1. abstractState = "returned" /\ abstractState' = "returned"
        BY <2>1, <2>2, <2>5, <3>2 DEF abstractState
      <4>2. UNCHANGED <<abstractStrings, abstractNets>>
        BY <3>2, <4>1 DEF abstractStrings, abstractNets
      <4>3. handedOut' = handedOut
        BY <3>2, <4>2 DEF handedOut
      <4>4. abstractQueue' = abstractQueue
        BY <2>2, <4>1, <4>3 DEF abstractQueue
      <4> QED
        BY <4>1, <4>2, <4>4 DEF Rec!vars
    <3> QED
      BY <2>5, <3>1, <3>2, Moves
  <2> QED
    BY <2>3, <2>4, <2>5
<1> QED
  BY <1>1, <1>2

\* Nothing is handed out at first.
LEMMA InitReads == Init => Rec!Init /\ Started
<1> SUFFICES ASSUME Init PROVE Rec!Init /\ Started
  OBVIOUS
<1>1. /\ sent \in Streams /\ pc = "read" /\ respDst = <<>> /\ nets = 0
      /\ got = <<>> /\ cut = FALSE /\ patched = FALSE
  BY DEF Init
<1>2. InStep
  BY <1>1 DEF InStep
<1>3. abstractState = "reading" /\ abstractStrings = <<>> /\ abstractNets = 0
  BY <1>1, <1>2 DEF abstractState, abstractStrings, abstractNets
<1>4. handedOut = 0
  BY <1>1, <1>3 DEF handedOut
<1>5. abstractQueue = sent.payloads
  <2>1. PICK l \in Nat : l = Len(sent.payloads)
    BY <1>1, StreamShape DEF Shape
  <2>2. PICK y : y = SubSeq(sent.payloads, 0 + 1, l)
    OBVIOUS
  <2>3. y \in Seq(Strings) /\ Len(y) = l - 0 /\ \A i \in 1..(l - 0) : y[i] = sent.payloads[0 + i]
    BY <1>1, <2>1, <2>2, StreamShape, SubIs DEF Shape
  <2>4. ASSUME NEW i \in 1..Len(y) PROVE y[i] = sent.payloads[i]
    BY <2>1, <2>3
  <2>5. sent.payloads \in Seq(Strings) /\ Len(y) = Len(sent.payloads)
    BY <1>1, <2>1, <2>3, StreamShape DEF Shape
  <2>6. y = sent.payloads
    BY <2>3, <2>4, <2>5, SameSeq
  <2> QED
    BY <1>3, <1>4, <2>1, <2>2, <2>6 DEF abstractQueue
<1> QED
  BY <1>1, <1>3, <1>5 DEF Rec!Init, Started

\* What the phases of asciiclient rely on is true of the reads byte by byte:
\* recvMessage hands out whole netstrings, the next ones in order and the last
\* of them twice, and reports the end of the stream only behind the last one
\* (assignment4.c:184-205), until the client is no longer in step.
THEOREM ReaderIsReception == Spec => ReadsWholeNetstrings
<1>1. Init => Inv /\ Started /\ Rec!Init
  BY InvInit, InitReads
<1>2. Inv /\ Inv' /\ Started /\ [Next]_vars => Started'
  BY StartedNext
<1>3. Inv /\ Inv' /\ Started /\ LastIsTwice' /\ [Next]_vars => [Rec!Next]_(Rec!vars)
  BY StepReads
<1> QED
  BY <1>1, <1>2, <1>3, InvAlways, LastTwice, PTL DEF Spec, ReadsWholeNetstrings, Rec!Spec

-----------------------------------------------------------------------------
(* The end of the stream.  As long as the client is in step, each step     *)
(* makes a list of five numbers smaller: whether the peer has still to     *)
(* close, the bytes and the netstrings to come, whether a call has some to *)
(* hand out, and what is left of its loops.                                *)

Unclosed == IF closed THEN 0 ELSE 1
ToCome == IF nets < 0 THEN 0 ELSE Len(sent.payloads) - Done
Gathered == IF nets > 0 THEN 1 ELSE 0
Stage == CASE pc = "read" -> 4 [] pc = "next" -> 3 [] pc = "fill" -> 2 [] pc = "convert" -> 1
           [] OTHER -> 0

Rank == <<Unclosed, Len(incoming), ToCome, Gathered, Stage>>

Ranked == InStep => Rank \in [1..5 -> Nat]

\* The exception is the busy loop at the end of a stream that is cut short.
ComesToAnEnd == InStep' => Shrinks(Rank', Rank) \/ FillEof

\* What has not been read are bytes, of a refused stream too.
Unread == InStep => incoming \in Seq(Bytes)

\* A read takes some of what is there.
LEMMA ReadTakes ==
    ASSUME Inv, InStep, InStep', Unread, FirstRead \/ FillRead
    PROVE  incoming' \in Seq(Bytes) /\ Len(incoming') < Len(incoming)
<1>1. incoming \in Seq(Bytes) /\ Len(incoming) \in Nat
  BY DEF Unread
<1>2. ASSUME NEW n, n \in 1..Len(incoming), Take(n)
      PROVE  incoming' \in Seq(Bytes) /\ Len(incoming') < Len(incoming)
  <2>1. n \in Nat /\ n > 0 /\ n <= Len(incoming)
    BY <1>1, <1>2
  <2>2. PICK l \in Nat : l = Len(incoming)
    BY <1>1
  <2>3. incoming' = SubSeq(incoming, n + 1, l)
    BY <1>2, <2>2 DEF Take
  <2>4. incoming' \in Seq(Bytes) /\ Len(incoming') = l - n
    BY <1>1, <2>1, <2>2, <2>3, SubIs
  <2> QED
    BY <2>1, <2>2, <2>4
<1>3. ASSUME NEW m \in Nat PROVE AtMost(m) \subseteq 1..Len(incoming)
  BY <1>1 DEF AtMost
<1>4. CASE FirstRead
  <2>1. PICK n \in AtMost(BufSize) : Take(n)
    BY <1>4 DEF FirstRead
  <2>2. n \in 1..Len(incoming)
    BY <1>3, <2>1, BufSizeAssumption
  <2> QED
    BY <1>2, <2>1, <2>2
<1>5. CASE FillRead
  <2>1. PICK n \in AtMost(strLength - Len(frag)) : Take(n)
    BY <1>5 DEF FillRead
  <2>2. pc = "fill" /\ frag = <<>>
    BY <1>5 DEF FillRead, InStep
  <2>3. Now
    BY <2>2, View DEF Inv, Refused
  <2>4. strLength \in Nat /\ Len(frag) = 0
    BY <2>2, <2>3 DEF Now, Sync, AtPlace, Reads
  <2>5. strLength - Len(frag) \in Nat
    BY <2>4
  <2>6. n \in 1..Len(incoming)
    BY <1>3, <2>1, <2>5
  <2> QED
    BY <1>2, <2>1, <2>6
<1> QED
  BY <1>4, <1>5

\* Only the reads take something from the stream.
LEMMA OnlyReadsTake ==
    ASSUME [Next]_vars
    PROVE  FirstRead \/ FillRead \/ incoming' = incoming
BY DEF Next, Step, Stays, PeerCloses, FirstReadFails, NextNetstring, FillEnds, FillEof,
       FillTimeout, Refuse, Convert, CallAgain, vars

LEMMA UnreadNext == ASSUME Inv, Unread, [Next]_vars PROVE Unread'
<1> SUFFICES ASSUME InStep' PROVE incoming' \in Seq(Bytes)
  BY DEF Unread
<1>1. InStep
  BY Moves
<1>2. CASE FirstRead \/ FillRead
  BY <1>1, <1>2, ReadTakes
<1>3. CASE incoming' = incoming
  BY <1>1, <1>3 DEF Unread
<1> QED
  BY <1>2, <1>3, OnlyReadsTake

LEMMA UnreadAlways == Spec => []Unread
<1>1. Init => Unread
  <2> SUFFICES ASSUME Init PROVE incoming \in Seq(Bytes)
    BY DEF Unread
  <2>1. sent \in Streams /\ incoming = sent.bytes
    BY DEF Init
  <2> QED
    BY <2>1, StreamShape DEF Shape
<1>2. Inv /\ Unread /\ [Next]_vars => Unread'
  BY UnreadNext
<1> QED
  BY <1>1, <1>2, InvAlways, PTL DEF Spec

LEMMA RankType == Inv /\ Unread => Ranked
<1> SUFFICES ASSUME Inv, Unread, InStep PROVE Rank \in [1..5 -> Nat]
  BY DEF Ranked
<1>1. sent \in Streams /\ nets \in Int /\ Len(got) \in Nat
  BY View
<1>2. Len(sent.payloads) \in Nat
  BY <1>1, StreamShape DEF Shape
<1>3. ToCome \in Nat
  <2>1. CASE nets < 0
    BY <2>1 DEF ToCome
  <2>2. CASE nets >= 0
    <3>1. Done <= Len(sent.payloads)
      <4>1. CASE Plain(sent)
        BY <2>2, <4>1, View DEF Now, Sync, InOrder
      <4>2. CASE ~Plain(sent)
        <5>1. Len(got) = 0 /\ nets = 0
          BY <2>2, <4>2 DEF Inv, Refused
        <5> QED
          BY <1>2, <5>1 DEF Done
      <4> QED
        BY <4>1, <4>2
    <3>2. Done \in Nat
      BY <1>1, <2>2 DEF Done
    <3> QED
      BY <1>1, <1>2, <2>2, <3>1, <3>2 DEF ToCome
  <2> QED
    BY <1>1, <2>1, <2>2
<1>4. Len(incoming) \in Nat
  BY DEF Unread
<1>5. Unclosed \in Nat /\ Gathered \in Nat /\ Stage \in Nat
  BY DEF Unclosed, Gathered, Stage
<1> QED
  BY <1>3, <1>4, <1>5 DEF Rank

LEMMA StepShrinks ==
    ASSUME Inv, Inv', Unread, Ranked, Ranked', Next, ~(UNCHANGED vars), InStep'
    PROVE  Shrinks(Rank', Rank) \/ FillEof
<1>1. sent' = sent /\ InStep
  BY Moves
<1>2. Rank \in [1..5 -> Nat] /\ Rank' \in [1..5 -> Nat]
  BY <1>1 DEF Ranked
<1>3. /\ Rank[1] = Unclosed /\ Rank[2] = Len(incoming) /\ Rank[3] = ToCome
      /\ Rank[4] = Gathered /\ Rank[5] = Stage
      /\ Rank'[1] = Unclosed' /\ Rank'[2] = Len(incoming') /\ Rank'[3] = ToCome'
      /\ Rank'[4] = Gathered' /\ Rank'[5] = Stage'
  BY DEF Rank
<1>4. nets \in Int /\ Len(got) \in Nat /\ Len(sent.payloads) \in Nat
  BY <1>1, View, StreamShape DEF Shape
<1>5. ~(FirstRead \/ FillRead) => Len(incoming') = Len(incoming)
  BY OnlyReadsTake
<1>6. ~PeerCloses => Unclosed' = Unclosed
  <2>1. ~PeerCloses => closed' = closed
    BY DEF Next, Step, Stays, vars, FirstRead, FirstReadFails, NextNetstring, FillEnds, FillRead,
           FillEof, FillTimeout, Refuse, Convert, CallAgain
  <2> QED
    BY <2>1 DEF Unclosed
\* Most steps leave the strings alone.
<1>7. ASSUME nets' = nets, got' = got PROVE ToCome' = ToCome /\ Gathered' = Gathered
  BY <1>1, <1>7 DEF ToCome, Done, Gathered
<1>8. CASE PeerCloses
  <2>1. Unclosed' < Unclosed
    BY <1>8 DEF PeerCloses, Unclosed
  <2> QED
    BY <1>2, <1>3, <2>1, ShrinksAt
<1>9. CASE ~PeerCloses /\ (FirstRead \/ FillRead)
  <2>1. Len(incoming') < Len(incoming)
    BY <1>1, <1>9, ReadTakes
  <2> QED
    BY <1>2, <1>3, <1>6, <1>9, <2>1, ShrinksAt
<1>10. CASE ~PeerCloses /\ ~(FirstRead \/ FillRead)
            /\ (NextNetstring \/ FillEnds \/ FillTimeout \/ Refuse)
  <2>1. nets' = nets /\ got' = got
    BY <1>10 DEF NextNetstring, FillEnds, FillTimeout, Refuse
  <2>2. Stage' < Stage
    <3>1. CASE NextNetstring
      <4>1. pc = "next" /\ pc' \in {"returned", "exit", "fill"}
        BY <3>1 DEF NextNetstring
      <4> QED
        BY <4>1 DEF Stage
    <3>2. CASE FillEnds \/ FillTimeout
      <4>1. pc = "fill" /\ pc' = "convert"
        BY <3>2 DEF FillEnds, FillTimeout
      <4> QED
        BY <4>1 DEF Stage
    <3>3. CASE Refuse
      <4>1. pc = "convert" /\ pc' = "exit"
        BY <3>3 DEF Refuse
      <4> QED
        BY <4>1 DEF Stage
    <3> QED
      BY <1>10, <3>1, <3>2, <3>3
  <2> QED
    BY <1>2, <1>3, <1>5, <1>6, <1>7, <1>10, <2>1, <2>2, ShrinksAt
<1>11. CASE ~PeerCloses /\ ~(FirstRead \/ FillRead) /\ FirstReadFails
  <2>1. pc = "read" /\ pc' = "returned" /\ nets' \in {0, -1} /\ got' = got
    BY <1>11 DEF FirstReadFails
  <2>2. nets = 0
    BY <1>1, <2>1, View DEF Inv, Refused, Now, Sync, AtPlace
  <2>3. Gathered' = Gathered /\ Stage' < Stage
    BY <2>1, <2>2 DEF Gathered, Stage
  <2>4. ToCome' = ToCome \/ ToCome' = 0
    BY <1>1, <2>1, <2>2 DEF ToCome, Done
  <2>5. ToCome \in Nat
    BY <1>2, <1>3
  <2>6. ToCome' = ToCome \/ ToCome' < ToCome
    BY <2>4, <2>5
  <2>7. Unclosed' = Unclosed /\ Len(incoming') = Len(incoming)
    BY <1>5, <1>6, <1>11
  <2> QED
    BY <1>2, <1>3, <2>3, <2>6, <2>7, ShrinksAt
<1>12. CASE ~PeerCloses /\ ~(FirstRead \/ FillRead) /\ Convert
  <2>1. Unclosed' = Unclosed /\ Len(incoming') = Len(incoming)
    BY <1>5, <1>6, <1>12
  <2>2. /\ pc = "convert" /\ got' = got
        /\ (pc' = "crash" /\ nets' = nets) \/ (pc' = "next" /\ nets' = nets + 1)
    BY <1>12 DEF Convert
  <2>3. CASE pc' = "crash" /\ nets' = nets
    <3>1. Stage' < Stage
      BY <2>2, <2>3 DEF Stage
    <3> QED
      BY <1>2, <1>3, <1>7, <2>1, <2>2, <2>3, <3>1, ShrinksAt
  <2>4. CASE pc' = "next" /\ nets' = nets + 1
    <3>1. nets >= 0
      BY <1>1, <2>2, View DEF Inv, Refused, Now, Sync, AtPlace
    <3>2. ToCome = Len(sent.payloads) - (Len(got) + nets)
          /\ ToCome' = Len(sent.payloads) - (Len(got) + (nets + 1))
      BY <1>1, <1>4, <2>2, <2>4, <3>1 DEF ToCome, Done
    <3>3. ToCome' < ToCome
      BY <1>4, <3>2
    <3> QED
      BY <1>2, <1>3, <2>1, <3>3, ShrinksAt
  <2> QED
    BY <2>2, <2>3, <2>4
<1>13. CASE ~PeerCloses /\ ~(FirstRead \/ FillRead) /\ CallAgain
  <2>1. Unclosed' = Unclosed /\ Len(incoming') = Len(incoming)
    BY <1>5, <1>6, <1>13
  <2>2. nets > 0 /\ nets' = 0
    BY <1>13 DEF CallAgain
  <2>3. Len(got') = Len(got) + nets
    BY <1>1, <1>13, HandsOver
  <2>4. ToCome = Len(sent.payloads) - (Len(got) + nets)
        /\ ToCome' = Len(sent.payloads) - ((Len(got) + nets) + 0)
    BY <1>1, <1>4, <2>2, <2>3 DEF ToCome, Done
  <2>5. ToCome' = ToCome
    BY <1>4, <2>4
  <2>6. Gathered' < Gathered
    BY <2>2 DEF Gathered
  <2> QED
    BY <1>2, <1>3, <2>1, <2>5, <2>6, ShrinksAt
<1>14. ~Stays
  BY DEF Stays
<1> QED
  BY <1>8, <1>9, <1>10, <1>11, <1>12, <1>13, <1>14 DEF Next, Step

\* As long as the client is in step, every step brings the end of the stream
\* nearer (assignment4.c:119-205), and that has an end (NoEndlessShrinking): if
\* it does not come to it, it waits.  The exception is the loop of readNet that
\* finds the connection closed inside a netstring (lines 140-149).
THEOREM ReaderShrinks == Spec => []Ranked /\ [][ComesToAnEnd]_vars
<1>1. Inv /\ Unread => Ranked
  BY RankType
<1>2. Inv /\ Inv' /\ Unread /\ Ranked /\ Ranked' /\ [Next]_vars => [ComesToAnEnd]_vars
  BY StepShrinks DEF ComesToAnEnd
<1> QED
  BY <1>1, <1>2, InvAlways, UnreadAlways, PTL DEF Spec
=============================================================================
