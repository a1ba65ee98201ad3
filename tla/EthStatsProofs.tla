--------------------------- MODULE EthStatsProofs ---------------------------
(***************************************************************************)
(* The safety properties of EthStats, for any frames, any NUM and counters *)
(* that wrap anywhere above the length of a frame; and that ethstats uses  *)
(* the library as RawRead allows, which makes the bounds of RawReadProofs  *)
(* hold for its reads.                                                     *)
(***************************************************************************)
EXTENDS EthStats, Induction

LEMMA FramesAre ==
    /\ CounterMod \in Nat /\ CounterMod > 0 /\ Num \in Nat
    /\ \A f \in Frames : /\ f.type \in Nat /\ f.len \in Nat /\ f.len > 0 /\ f.len < CounterMod
                         /\ f.dst \in {"me", "multicast", "other"}
BY FramesAssumption

-----------------------------------------------------------------------------
(* Lists of counters.                                                      *)

Info == [ethType : Nat, frameCounter : Nat, byteCounter : Nat]

Distinct(list) ==
    \A j, k \in DOMAIN list : list[j].ethType = list[k].ethType => j = k

\* The sum of the byte counters.
BytesOf(list) == SumOf([k \in DOMAIN list |-> list[k].byteCounter], DOMAIN list)

\* An entry of the type is found if there is one.
LEMMA GetIs ==
    ASSUME NEW list \in Seq(Info), NEW type
    PROVE  \/ /\ getInfoByType(type, list) = 0
              /\ \A j \in DOMAIN list : list[j].ethType # type
           \/ /\ getInfoByType(type, list) \in DOMAIN list
              /\ list[getInfoByType(type, list)].ethType = type
<1> DEFINE found == {k \in DOMAIN list : list[k].ethType = type}
<1>1. CASE found = {}
  BY <1>1 DEF getInfoByType
<1>2. CASE found # {}
  <2>1. found \in SUBSET Nat
    OBVIOUS
  <2>2. \E m \in found : \A k \in found : m <= k
    BY <1>2, <2>1, LeastNatural
  <2>3. Min(found) \in found
    BY <2>2 DEF Min
  <2> QED
    BY <1>2, <2>3 DEF getInfoByType
<1> QED
  BY <1>1, <1>2

LEMMA MinIs ==
    ASSUME NEW list \in Seq(Info), list # <<>>
    PROVE  /\ min(list) \in DOMAIN list
           /\ \A j \in DOMAIN list : list[min(list)].ethType <= list[j].ethType
<1> DEFINE types == {list[k].ethType : k \in DOMAIN list}
<1>1. types \in SUBSET Nat /\ types # {}
  <2>1. 1 \in DOMAIN list
    OBVIOUS
  <2>2. \A k \in DOMAIN list : list[k] \in Info
    OBVIOUS
  <2> QED
    BY <2>1, <2>2 DEF Info
<1>2. PICK m \in types : \A t \in types : m <= t
  BY <1>1, LeastNatural
<1>3. \E k \in DOMAIN list : \A j \in DOMAIN list : list[k].ethType <= list[j].ethType
  BY <1>2
<1> QED
  BY <1>3 DEF min

\* What follows the removed entry moves up.
Moved(j, k) == IF j < k THEN j ELSE j + 1

LEMMA RemoveIs ==
    ASSUME NEW list \in Seq(Info), Distinct(list), NEW k \in DOMAIN list
    PROVE  LET rest == removeByType(list[k].ethType, list)
           IN /\ rest \in Seq(Info) /\ DOMAIN rest = 1..(Len(list) - 1)
              /\ \A j \in DOMAIN rest : /\ Moved(j, k) \in DOMAIN list /\ Moved(j, k) # k
                                        /\ rest[j] = list[Moved(j, k)]
              /\ \A j \in DOMAIN list : j # k => \E i \in DOMAIN rest : Moved(i, k) = j
<1> DEFINE a == SubSeq(list, 1, k - 1)
           b == SubSeq(list, k + 1, Len(list))
           n == Len(list)
           rest == a \o b
<1>1. getInfoByType(list[k].ethType, list) = k
  BY GetIs DEF Distinct
<1>2. n \in Nat /\ k \in 1..n /\ DOMAIN list = 1..n
  OBVIOUS
<1>3. removeByType(list[k].ethType, list) = rest
  <2>1. k # 0
    BY <1>2
  <2>2. removeByType(list[k].ethType, list) = RemoveAt(list, k)
    BY <1>1, <2>1, Zenon DEF removeByType
  <2> QED
    BY <2>2, Zenon DEF RemoveAt
<1>4. /\ a \in Seq(Info) /\ Len(a) = k - 1 /\ \A j \in 1..(k - 1) : a[j] = list[j]
  BY <1>2
<1>5. /\ b \in Seq(Info) /\ Len(b) = n - k /\ \A j \in 1..(n - k) : b[j] = list[k + j]
  BY <1>2
<1> HIDE DEF a, b, n
<1>6. /\ rest \in Seq(Info) /\ Len(rest) = Len(a) + Len(b)
      /\ \A j \in 1..Len(rest) : rest[j] = IF j <= Len(a) THEN a[j] ELSE b[j - Len(a)]
  <2>1. a \in Seq(Info) /\ b \in Seq(Info)
    BY <1>4, <1>5
  <2> QED
    BY <2>1
<1>7. Len(rest) = n - 1 /\ DOMAIN rest = 1..(n - 1)
  BY <1>2, <1>4, <1>5, <1>6
<1> HIDE DEF rest
<1>8. ASSUME NEW j \in 1..(n - 1)
      PROVE  Moved(j, k) \in 1..n /\ Moved(j, k) # k /\ rest[j] = list[Moved(j, k)]
  <2>1. CASE j < k
    BY <1>2, <1>4, <1>6, <1>7, <2>1 DEF Moved
  <2>2. CASE ~(j < k)
    <3>1. j - (k - 1) \in 1..(n - k) /\ k + (j - (k - 1)) = j + 1
      BY <1>2, <2>2
    <3>2. rest[j] = b[j - (k - 1)]
      BY <1>2, <1>4, <1>6, <1>7, <2>2
    <3>3. rest[j] = list[j + 1]
      BY <1>5, <3>1, <3>2
    <3> QED
      BY <1>2, <2>2, <3>3 DEF Moved
  <2> QED
    BY <2>1, <2>2
<1>9. ASSUME NEW j \in 1..n, j # k PROVE \E i \in 1..(n - 1) : Moved(i, k) = j
  <2>1. CASE j < k
    BY <1>2, <2>1 DEF Moved
  <2>2. CASE j > k
    <3>1. j - 1 \in 1..(n - 1) /\ ~(j - 1 < k) /\ (j - 1) + 1 = j
      BY <1>2, <2>2
    <3> QED
      BY <3>1 DEF Moved
  <2> QED
    BY <1>2, <1>9, <2>1, <2>2
<1> QED
  BY <1>2, <1>3, <1>6, <1>7, <1>8, <1>9 DEF n

\* An entry of a list.
LEMMA EntryIs ==
    ASSUME NEW list \in Seq(Info), NEW k \in DOMAIN list
    PROVE  /\ list[k] \in Info /\ list[k].ethType \in Nat
           /\ list[k].frameCounter \in Nat /\ list[k].byteCounter \in Nat
<1>1. list[k] \in Info
  OBVIOUS
<1> QED
  BY <1>1 DEF Info

LEMMA ListIndices ==
    ASSUME NEW S, NEW list \in Seq(S)
    PROVE  DOMAIN list = 1..Len(list) /\ Len(list) \in Nat /\ IsFiniteSet(DOMAIN list)
<1>1. DOMAIN list = 1..Len(list) /\ Len(list) \in Nat
  OBVIOUS
<1> QED
  BY <1>1, FS_Interval

LEMMA BytesOfType ==
    ASSUME NEW list \in Seq(Info)
    PROVE  BytesOf(list) \in Int
<1> DEFINE f == [k \in DOMAIN list |-> list[k].byteCounter]
<1>1. IsFiniteSet(DOMAIN list) /\ \A k \in DOMAIN list : f[k] \in Int
  BY EntryIs, ListIndices
<1> HIDE DEF f
<1>2. SumOf(f, DOMAIN list) \in Int
  BY <1>1, SumType
<1> QED
  BY <1>2 DEF BytesOf, f

\* The sum after a new entry.
LEMMA BytesInserted ==
    ASSUME NEW list \in Seq(Info), NEW info \in Info
    PROVE  BytesOf(Append(list, info)) = BytesOf(list) + info.byteCounter
<1> DEFINE longer == Append(list, info)
           n == Len(list)
           f == [k \in DOMAIN list |-> list[k].byteCounter]
           g == [k \in DOMAIN longer |-> longer[k].byteCounter]
<1>1. /\ longer \in Seq(Info) /\ n \in Nat /\ DOMAIN list = 1..n /\ DOMAIN longer = 1..(n + 1)
      /\ longer[n + 1] = info /\ \A k \in 1..n : longer[k] = list[k]
  OBVIOUS
<1>2. \A k \in 1..n : f[k] \in Int /\ g[k] = f[k]
  <2>1. \A k \in 1..n : k \in DOMAIN longer
    BY <1>1
  <2> HIDE DEF longer
  <2> QED
    BY <1>1, <2>1, EntryIs
<1>3. g[n + 1] = info.byteCounter /\ info.byteCounter \in Int
  BY <1>1 DEF Info
<1>4. \A k \in 1..(n + 1) : g[k] \in Int
  <2> HIDE DEF longer
  <2> QED
    BY <1>1, EntryIs
<1>5. IsFiniteSet(1..n) /\ IsFiniteSet(1..(n + 1))
  BY <1>1, FS_Interval
<1>6. (1..(n + 1)) \ {n + 1} = 1..n /\ n + 1 \in 1..(n + 1)
  BY <1>1
<1>7. BytesOf(longer) = SumOf(g, 1..(n + 1)) /\ BytesOf(list) = SumOf(f, 1..n)
  BY <1>1 DEF BytesOf
<1> HIDE DEF f, g, longer, n
<1>8. SumOf(g, 1..(n + 1)) = SumOf(g, (1..(n + 1)) \ {n + 1}) + g[n + 1]
  BY <1>4, <1>5, <1>6, SumRemove
<1>9. SumOf(g, 1..n) = SumOf(f, 1..n)
  BY <1>2, <1>5, SumAgree
<1> QED
  BY <1>3, <1>6, <1>7, <1>8, <1>9 DEF longer

\* The sum after an entry was removed.
LEMMA BytesRemoved ==
    ASSUME NEW list \in Seq(Info), Distinct(list), NEW k \in DOMAIN list
    PROVE  BytesOf(removeByType(list[k].ethType, list)) = BytesOf(list) - list[k].byteCounter
<1> DEFINE rest == removeByType(list[k].ethType, list)
           b == [j \in DOMAIN rest |-> Moved(j, k)]
           f == [j \in DOMAIN list |-> list[j].byteCounter]
           g == [j \in DOMAIN rest |-> rest[j].byteCounter]
           T == DOMAIN list \ {k}
<1>1. /\ rest \in Seq(Info)
      /\ \A j \in DOMAIN rest : /\ Moved(j, k) \in DOMAIN list /\ Moved(j, k) # k
                                /\ rest[j] = list[Moved(j, k)]
      /\ \A j \in DOMAIN list : j # k => \E i \in DOMAIN rest : Moved(i, k) = j
  BY RemoveIs
<1> HIDE DEF rest
<1>2. DOMAIN rest \subseteq Int /\ k \in Int /\ IsFiniteSet(DOMAIN rest) /\ IsFiniteSet(DOMAIN list)
  BY <1>1, ListIndices
<1>3. {b[j] : j \in DOMAIN rest} = T
  BY <1>1
<1>4. OneToOne(b, DOMAIN rest, f)
  <2>1. \A x, y \in DOMAIN rest : b[x] = b[y] => x = y
    BY <1>2 DEF Moved
  <2>2. \A x \in DOMAIN rest : f[b[x]] \in Int
    BY <1>1, EntryIs
  <2> QED
    BY <2>1, <2>2 DEF OneToOne
<1>5. \A j \in DOMAIN rest : g[j] = f[b[j]]
  BY <1>1
<1>6. \A j \in DOMAIN list : f[j] \in Int
  BY EntryIs
<1>7. BytesOf(rest) = SumOf(g, DOMAIN rest) /\ BytesOf(list) = SumOf(f, DOMAIN list)
      /\ f[k] = list[k].byteCounter
  BY DEF BytesOf
<1> HIDE DEF b, f, g
<1>8. SumOf(g, DOMAIN rest) = SumOf(f, {b[j] : j \in DOMAIN rest})
  BY <1>2, <1>4, <1>5, SumReindex
<1>9. SumOf(f, DOMAIN list) = SumOf(f, T) + f[k]
  BY <1>2, <1>6, SumRemove
<1>10. SumOf(f, T) \in Int
  <2>1. IsFiniteSet(T) /\ \A j \in T : f[j] \in Int
    BY <1>2, <1>6, FS_Subset
  <2> HIDE DEF T
  <2> QED
    BY <2>1, SumType
<1>11. f[k] \in Int
  BY <1>6
<1> HIDE DEF T
<1>12. SumOf(g, DOMAIN rest) = SumOf(f, T)
  BY <1>3, <1>8
<1>13. BytesOf(rest) = BytesOf(list) - list[k].byteCounter
  BY <1>7, <1>9, <1>10, <1>11, <1>12
<1> QED
  BY <1>13 DEF rest

\* The sum when one byte counter changes.
LEMMA BytesChanged ==
    ASSUME NEW list \in Seq(Info), NEW other \in Seq(Info), DOMAIN other = DOMAIN list,
           NEW k \in DOMAIN list, \A j \in DOMAIN list : j # k => other[j] = list[j]
    PROVE  BytesOf(other) = BytesOf(list) - list[k].byteCounter + other[k].byteCounter
<1> DEFINE f == [j \in DOMAIN list |-> list[j].byteCounter]
           g == [j \in DOMAIN other |-> other[j].byteCounter]
<1>1. SameBut(k, f, g, DOMAIN list)
  BY EntryIs DEF SameBut
<1>2. f[k] = list[k].byteCounter /\ g[k] = other[k].byteCounter /\ IsFiniteSet(DOMAIN list)
      /\ BytesOf(list) = SumOf(f, DOMAIN list) /\ BytesOf(other) = SumOf(g, DOMAIN list)
  BY ListIndices DEF BytesOf
<1> HIDE DEF f, g
<1>3. SumOf(g, DOMAIN list) = SumOf(f, DOMAIN list) - f[k] + g[k]
  BY <1>1, <1>2, SumChange
<1> QED
  BY <1>2, <1>3

-----------------------------------------------------------------------------
(* What was received.                                                      *)

OfIn(type, s) == {k \in DOMAIN s : s[k].type = type}
ToIn(dst, s) == {k \in DOMAIN s : s[k].dst = dst}
BytesIn(K, s) == Sum([k \in DOMAIN s |-> s[k].len], K)

LEMMA SubsetsFinite ==
    ASSUME NEW s \in Seq(Frames), NEW K \in SUBSET DOMAIN s
    PROVE  /\ IsFiniteSet(K) /\ Cardinality(K) \in Nat
           /\ BytesIn(K, s) \in Int
<1>1. IsFiniteSet(K)
  BY FS_Subset, ListIndices
<1> DEFINE f == [k \in DOMAIN s |-> s[k].len]
<1>2. \A k \in K : f[k] \in Int
  BY FramesAre
<1>3. BytesIn(K, s) = SumOf(f, K)
  BY DEF BytesIn, Sum, SumOf
<1> HIDE DEF f
<1>4. SumOf(f, K) \in Int
  BY <1>1, <1>2, SumType
<1> QED
  BY <1>1, <1>3, <1>4, FS_CardinalityType

\* One more frame of one type and to one destination.
Longer(s, f, r, new) ==
    /\ r \in Seq(Frames) /\ DOMAIN r = DOMAIN s \cup {new} /\ new \notin DOMAIN s
    /\ r[new] = f /\ \A k \in DOMAIN s : r[k] = s[k]
    /\ \A t : OfIn(t, r) = IF t = f.type THEN OfIn(t, s) \cup {new} ELSE OfIn(t, s)
    /\ \A d : ToIn(d, r) = IF d = f.dst THEN ToIn(d, s) \cup {new} ELSE ToIn(d, s)

LEMMA OneMore ==
    ASSUME NEW s \in Seq(Frames), NEW f \in Frames, NEW r, r = Append(s, f),
           NEW new, new = Len(s) + 1
    PROVE  Longer(s, f, r, new)
<1>1. /\ r \in Seq(Frames) /\ DOMAIN r = DOMAIN s \cup {new} /\ new \notin DOMAIN s
      /\ r[new] = f /\ \A k \in DOMAIN s : r[k] = s[k]
  OBVIOUS
<1>2. \A t : OfIn(t, r) = IF t = f.type THEN OfIn(t, s) \cup {new} ELSE OfIn(t, s)
  BY <1>1 DEF OfIn
<1>3. \A d : ToIn(d, r) = IF d = f.dst THEN ToIn(d, s) \cup {new} ELSE ToIn(d, s)
  BY <1>1 DEF ToIn
<1> QED
  BY <1>1, <1>2, <1>3 DEF Longer

\* How many there are then, and with how many bytes.
CountsMore(s, f, r) ==
    /\ \A t : /\ Cardinality(OfIn(t, r)) =
                   Cardinality(OfIn(t, s)) + (IF t = f.type THEN 1 ELSE 0)
              /\ BytesIn(OfIn(t, r), r) =
                   BytesIn(OfIn(t, s), s) + (IF t = f.type THEN f.len ELSE 0)
    /\ \A d : Cardinality(ToIn(d, r)) =
                Cardinality(ToIn(d, s)) + (IF d = f.dst THEN 1 ELSE 0)

LEMMA CountsOneMore ==
    ASSUME NEW s \in Seq(Frames), NEW f \in Frames, NEW r, r = Append(s, f)
    PROVE  CountsMore(s, f, r)
<1>0. PICK new : new = Len(s) + 1
  OBVIOUS
<1> DEFINE bytes == [k \in DOMAIN s |-> s[k].len]
           bytesThen == [k \in DOMAIN r |-> r[k].len]
<1>1. /\ r \in Seq(Frames) /\ DOMAIN r = DOMAIN s \cup {new} /\ new \notin DOMAIN s
      /\ r[new] = f /\ \A k \in DOMAIN s : r[k] = s[k]
      /\ \A t : OfIn(t, r) = IF t = f.type THEN OfIn(t, s) \cup {new} ELSE OfIn(t, s)
      /\ \A d : ToIn(d, r) = IF d = f.dst THEN ToIn(d, s) \cup {new} ELSE ToIn(d, s)
  <2>1. Longer(s, f, r, new)
    BY <1>0, OneMore
  <2> QED
    BY <2>1 DEF Longer
<1>2. ASSUME NEW K \in SUBSET DOMAIN s
      PROVE  /\ IsFiniteSet(K) /\ Cardinality(K) \in Nat
             /\ Cardinality(K \cup {new}) = Cardinality(K) + 1
             /\ BytesIn(K, r) = BytesIn(K, s) /\ BytesIn(K, s) \in Int
             /\ BytesIn(K \cup {new}, r) = BytesIn(K, s) + f.len
  <2>1. IsFiniteSet(K) /\ Cardinality(K) \in Nat /\ BytesIn(K, s) \in Int
    BY SubsetsFinite
  <2>2. new \notin K
    BY <1>1
  <2>3. IsFiniteSet(K \cup {new}) /\ Cardinality(K \cup {new}) = Cardinality(K) + 1
    BY <2>1, <2>2, FS_AddElement
  <2>4. \A k \in K : bytes[k] \in Int /\ bytesThen[k] = bytes[k]
    BY <1>1, FramesAre
  <2>5. bytesThen[new] = f.len /\ f.len \in Int
    BY <1>1, FramesAre
  <2>6. BytesIn(K, s) = SumOf(bytes, K) /\ BytesIn(K, r) = SumOf(bytesThen, K)
        /\ BytesIn(K \cup {new}, r) = SumOf(bytesThen, K \cup {new})
    BY DEF BytesIn, Sum, SumOf
  <2> HIDE DEF bytes, bytesThen
  <2>7. SumOf(bytesThen, K) = SumOf(bytes, K)
    BY <2>1, <2>4, SumAgree
  <2> DEFINE L == K \cup {new}
  <2>8. L \ {new} = K /\ new \in L /\ \A k \in L : bytesThen[k] \in Int
    BY <2>2, <2>4, <2>5
  <2>9. IsFiniteSet(L)
    BY <2>3
  <2> HIDE DEF L
  <2>10. SumOf(bytesThen, L) = SumOf(bytesThen, L \ {new}) + bytesThen[new]
    BY <2>8, <2>9, SumRemove
  <2> QED
    BY <2>1, <2>3, <2>5, <2>6, <2>7, <2>8, <2>10 DEF L
<1>3. ASSUME NEW t
      PROVE  /\ Cardinality(OfIn(t, r)) = Cardinality(OfIn(t, s)) + (IF t = f.type THEN 1 ELSE 0)
             /\ BytesIn(OfIn(t, r), r) =
                  BytesIn(OfIn(t, s), s) + (IF t = f.type THEN f.len ELSE 0)
  <2> DEFINE K == OfIn(t, s)
  <2>1. K \in SUBSET DOMAIN s
    BY DEF OfIn
  <2>2. OfIn(t, r) = IF t = f.type THEN K \cup {new} ELSE K
    BY <1>1
  <2> HIDE DEF K
  <2>3. /\ Cardinality(K) \in Nat /\ Cardinality(K \cup {new}) = Cardinality(K) + 1
        /\ BytesIn(K, r) = BytesIn(K, s) /\ BytesIn(K, s) \in Int
        /\ BytesIn(K \cup {new}, r) = BytesIn(K, s) + f.len
    BY <1>2, <2>1
  <2> QED
    BY <2>2, <2>3 DEF K
<1>4. ASSUME NEW d
      PROVE  Cardinality(ToIn(d, r)) = Cardinality(ToIn(d, s)) + (IF d = f.dst THEN 1 ELSE 0)
  <2> DEFINE K == ToIn(d, s)
  <2>1. K \in SUBSET DOMAIN s
    BY DEF ToIn
  <2>2. ToIn(d, r) = IF d = f.dst THEN K \cup {new} ELSE K
    BY <1>1
  <2> HIDE DEF K
  <2>3. Cardinality(K) \in Nat /\ Cardinality(K \cup {new}) = Cardinality(K) + 1
    BY <1>2, <2>1
  <2> QED
    BY <2>2, <2>3 DEF K
<1> QED
  BY <1>3, <1>4 DEF CountsMore

-----------------------------------------------------------------------------
(* A frame is counted.                                                     *)

LEMMA PlusIs ==
    ASSUME NEW a \in Int, NEW n \in Int
    PROVE  /\ Plus(a % CounterMod, n) = (a + n) % CounterMod
           /\ Plus(a, n) \in 0..(CounterMod - 1)
           /\ \A b \in Int : (b + Plus(a, n)) % CounterMod = (b + a + n) % CounterMod
<1>1. CounterMod \in Nat /\ CounterMod > 0
  BY FramesAre
<1>2. a + n \in Int /\ ((a % CounterMod) + n) % CounterMod = (a + n) % CounterMod
  <2>1. ((a % CounterMod) + n) % CounterMod = (a + n) % CounterMod
    BY <1>1, ModPlus, Zenon
  <2>2. a + n \in Int
    OBVIOUS
  <2> QED
    BY <2>1, <2>2, Zenon
<1>3. (a + n) % CounterMod \in 0..(CounterMod - 1)
  BY <1>1, <1>2, ModPlus
<1>4. ASSUME NEW b \in Int
      PROVE  (b + ((a + n) % CounterMod)) % CounterMod = (b + a + n) % CounterMod
  <2>1. (((a + n) % CounterMod) + b) % CounterMod = ((a + n) + b) % CounterMod
    BY <1>1, <1>2, ModPlus
  <2> DEFINE r == (a + n) % CounterMod
  <2>2. r \in Int
    BY <1>3
  <2> HIDE DEF r
  <2>3. r + b = b + r /\ (a + n) + b = b + a + n
    BY <2>2
  <2> QED
    BY <2>1, <2>3 DEF r
<1> QED
  BY <1>2, <1>3, <1>4 DEF Plus

NoEntry(type, list) == \A j \in DOMAIN list : list[j].ethType # type

\* The entry k of list has counted f in other.
Updated(f, list, other, k) ==
    /\ k \in DOMAIN list /\ list[k].ethType = f.type
    /\ other \in Seq(Info) /\ DOMAIN other = DOMAIN list
    /\ \A j \in DOMAIN list : j # k => other[j] = list[j]
    /\ other[k].ethType = f.type
    /\ other[k].frameCounter = Plus(list[k].frameCounter, 1)
    /\ other[k].byteCounter = Plus(list[k].byteCounter, f.len)

LEMMA CountedIs ==
    ASSUME NEW list \in Seq(Info), NEW f \in Frames
    PROVE  \/ NoEntry(f.type, list) /\ Counted(f, list) = Append(list, newInfo(f.type, f.len))
           \/ \E k : Updated(f, list, Counted(f, list), k)
<1> DEFINE k == getInfoByType(f.type, list)
<1>1. DOMAIN list \subseteq Nat \ {0}
  BY ListIndices
<1>2. CASE k = 0 /\ NoEntry(f.type, list)
  BY <1>2 DEF Counted, insertInfo
<1>3. CASE k \in DOMAIN list /\ list[k].ethType = f.type
  <2> DEFINE info == [ethType |-> f.type, frameCounter |-> Plus(list[k].frameCounter, 1),
                      byteCounter |-> Plus(list[k].byteCounter, f.len)]
             other == [list EXCEPT ![k] = info]
  <2>1. list[k] \in Info /\ list[k].frameCounter \in Int /\ list[k].byteCounter \in Int
        /\ f.type \in Nat /\ f.len \in Int /\ 1 \in Int
    BY <1>3, EntryIs, FramesAre
  <2>2. CounterMod \in Nat
    BY FramesAre
  <2>3. info \in Info
    <3>1. Plus(list[k].frameCounter, 1) \in 0..(CounterMod - 1)
      BY <2>1, PlusIs, Zenon
    <3>2. Plus(list[k].byteCounter, f.len) \in 0..(CounterMod - 1)
      BY <2>1, PlusIs, Zenon
    <3> QED
      BY <2>1, <2>2, <3>1, <3>2 DEF Info
  <2>4. Counted(f, list) = other
    <3>1. k # 0
      BY <1>1, <1>3
    <3>2. Counted(f, list) = [list EXCEPT ![k].frameCounter = Plus(@, 1),
                                          ![k].byteCounter = Plus(@, f.len)]
      BY <3>1 DEF Counted
    <3> HIDE DEF k
    <3>3. list[k] = [ethType |-> f.type, frameCounter |-> list[k].frameCounter,
                     byteCounter |-> list[k].byteCounter]
      BY <1>3, <2>1 DEF Info
    <3> QED
      BY <1>3, <3>2, <3>3
  <2> HIDE DEF info, k
  <2>5. /\ other \in Seq(Info) /\ DOMAIN other = DOMAIN list
        /\ \A j \in DOMAIN list : j # k => other[j] = list[j]
        /\ other[k] = info
    BY <1>3, <2>3
  <2> HIDE DEF other
  <2>6. Updated(f, list, other, k)
    BY <1>3, <2>5 DEF Updated, info
  <2> QED
    BY <2>4, <2>6
<1> QED
  BY <1>2, <1>3, GetIs DEF NoEntry

-----------------------------------------------------------------------------
(* The inductive invariant.                                                *)

InRange ==
    /\ printed \in Seq(Info) /\ infoList \in Seq(Info) /\ received \in Seq(Frames)
    /\ myFrames \in 0..(CounterMod - 1) /\ multiCastFrames \in 0..(CounterMod - 1)
    /\ totalByte \in 0..(CounterMod - 1)

\* Nothing is printed before the loop has ended, and nothing left out.
Phase ==
    /\ at \in {"loop", "read", "print", "close", "closed"}
    /\ at \in {"loop", "read"} => printed = <<>>
    /\ at \in {"close", "closed"} => infoList = <<>>

\* No type twice, and what is printed comes before what is not.
Sorted ==
    /\ Ascending /\ Distinct(infoList)
    /\ \A j \in DOMAIN printed, k \in DOMAIN infoList : printed[j].ethType < infoList[k].ethType

Right(info, s) ==
    /\ \E k \in DOMAIN s : s[k].type = info.ethType
    /\ info.frameCounter = Cardinality(OfIn(info.ethType, s)) % CounterMod
    /\ info.byteCounter = BytesIn(OfIn(info.ethType, s), s) % CounterMod

Has(list, type) == \E k \in DOMAIN list : list[k].ethType = type

\* The entries are those of the types that came up.
Entries ==
    /\ \A k \in DOMAIN printed : Right(printed[k], received)
    /\ \A k \in DOMAIN infoList : Right(infoList[k], received)
    /\ \A k \in DOMAIN received : Has(printed, received[k].type) \/ Has(infoList, received[k].type)

\* The totals.
Totals ==
    /\ totalByte = (BytesOf(printed) + BytesOf(infoList)) % CounterMod
    /\ myFrames = Cardinality(ToIn("me", received)) % CounterMod
    /\ multiCastFrames = Cardinality(ToIn("multicast", received)) % CounterMod

Inv == InRange /\ Phase /\ Sorted /\ Entries /\ Totals

LEMMA InvInit == Init => Inv
<1> SUFFICES ASSUME Init PROVE Inv
  OBVIOUS
<1>1. /\ printed = <<>> /\ infoList = <<>> /\ received = <<>> /\ at = "loop"
      /\ myFrames = 0 /\ multiCastFrames = 0 /\ totalByte = 0
  BY DEF Init
<1>2. CounterMod \in Nat /\ CounterMod > 0
  BY FramesAre
<1>3. InRange
  BY <1>1, <1>2 DEF InRange
<1>4. Phase /\ Sorted /\ Entries
  BY <1>1 DEF Phase, Sorted, Ascending, Distinct, Entries
<1>5. Totals
  <2>1. 0 = CounterMod * 0 + 0 /\ 0 \in 0..(CounterMod - 1)
    BY <1>2
  <2>2. 0 % CounterMod = 0
    BY <1>2, <2>1, DivModUnique
  <2>3. BytesOf(<<>>) = 0
    BY SumEmpty DEF BytesOf
  <2>4. \A d : ToIn(d, <<>>) = {}
    BY DEF ToIn
  <2> QED
    <3>1. BytesOf(printed) + BytesOf(infoList) = 0
      BY <1>1, <2>3
    <3>2. Cardinality(ToIn("me", received)) = 0 /\ Cardinality(ToIn("multicast", received)) = 0
      BY <1>1, <2>4, FS_EmptySet
    <3> QED
      BY <1>1, <2>2, <3>1, <3>2 DEF Totals
<1> QED
  BY <1>3, <1>4, <1>5 DEF Inv

\* The steps that neither count nor print keep the invariant.
LEMMA OthersKeep ==
    ASSUME Inv, UNCHANGED <<counters, printed, received>>,
           at' \in {"loop", "read", "print", "close", "closed"},
           at' \in {"loop", "read"} => at \in {"loop", "read"},
           at' \in {"close", "closed"} => at \in {"close", "closed"} \/ infoList = <<>>
    PROVE  Inv'
BY DEF Inv, InRange, Phase, Sorted, Ascending, Entries, Totals, counters

LEMMA OtherSteps ==
    ASSUME Inv, NextRead \/ LoopEnds \/ Reading \/ TimedOut \/ PrintRest \/ Finish
    PROVE  Inv'
<1>1. CASE NextRead
  BY <1>1, OthersKeep DEF NextRead
<1>2. CASE LoopEnds
  BY <1>2, OthersKeep DEF LoopEnds
<1>3. CASE Reading
  BY <1>3, OthersKeep DEF Reading
<1>4. CASE TimedOut
  BY <1>4, OthersKeep DEF TimedOut
<1>5. CASE PrintRest
  BY <1>5, OthersKeep DEF PrintRest
<1>6. CASE Finish
  BY <1>6, OthersKeep DEF Finish
<1> QED
  BY <1>1, <1>2, <1>3, <1>4, <1>5, <1>6

LEMMA PrintMinKeeps == ASSUME Inv, PrintMin PROVE Inv'
<1> DEFINE k == min(infoList)
           least == infoList[k]
<1>1. /\ printed \in Seq(Info) /\ infoList \in Seq(Info) /\ received \in Seq(Frames)
      /\ Distinct(infoList) /\ infoList # <<>> /\ at = "print"
  BY DEF PrintMin, Inv, InRange, Sorted
<1>2. /\ printed' = Append(printed, least)
      /\ infoList' = removeByType(least.ethType, infoList)
      /\ UNCHANGED <<at, myFrames, multiCastFrames, totalByte, received>>
  BY DEF PrintMin
<1>3. k \in DOMAIN infoList /\ \A j \in DOMAIN infoList : least.ethType <= infoList[j].ethType
  BY <1>1, MinIs
<1> HIDE DEF k
<1>4. /\ infoList' \in Seq(Info)
      /\ \A j \in DOMAIN infoList' : /\ Moved(j, k) \in DOMAIN infoList /\ Moved(j, k) # k
                                     /\ infoList'[j] = infoList[Moved(j, k)]
      /\ \A j \in DOMAIN infoList : j # k => \E i \in DOMAIN infoList' : Moved(i, k) = j
  BY <1>1, <1>2, <1>3, RemoveIs
<1>5. least \in Info /\ least.ethType \in Nat /\ least.byteCounter \in Int
  BY <1>1, <1>3, EntryIs
<1> DEFINE n == Len(printed) + 1
<1>6. /\ printed' \in Seq(Info) /\ DOMAIN printed' = DOMAIN printed \cup {n} /\ n \notin DOMAIN printed
      /\ printed'[n] = least /\ \A j \in DOMAIN printed : printed'[j] = printed[j] /\ j < n
      /\ DOMAIN printed \subseteq Nat /\ n \in Nat
  <2> HIDE DEF least
  <2> QED
    BY <1>1, <1>2, <1>5
<1>7. BytesOf(printed') = BytesOf(printed) + least.byteCounter
  BY <1>1, <1>2, <1>5, BytesInserted
<1>8. BytesOf(infoList') = BytesOf(infoList) - least.byteCounter
  BY <1>1, <1>2, <1>3, BytesRemoved
<1> HIDE DEF n
<1>9. InRange'
  BY <1>2, <1>4, <1>6 DEF Inv, InRange
<1>10. Phase'
  BY <1>1, <1>2 DEF Phase
<1>11. Sorted'
  <2>1. \A j \in DOMAIN printed : printed[j].ethType < least.ethType
    BY <1>3 DEF Inv, Sorted
  <2>2. Ascending'
    <3> SUFFICES ASSUME NEW i \in DOMAIN printed', NEW j \in DOMAIN printed', i < j
                 PROVE  printed'[i].ethType < printed'[j].ethType
      BY DEF Ascending
    <3>1. i # n
      BY <1>6
    <3>2. i \in DOMAIN printed /\ printed'[i] = printed[i]
      BY <1>6, <3>1
    <3>3. CASE j = n
      BY <1>6, <2>1, <3>2, <3>3
    <3>4. CASE j \in DOMAIN printed
      BY <1>6, <3>2, <3>4 DEF Inv, Sorted, Ascending
    <3> QED
      BY <1>6, <3>3, <3>4
  <2>3. Distinct(infoList')
    <3> SUFFICES ASSUME NEW i \in DOMAIN infoList', NEW j \in DOMAIN infoList',
                        infoList'[i].ethType = infoList'[j].ethType
                 PROVE  i = j
      BY DEF Distinct
    <3>1. Moved(i, k) = Moved(j, k)
      BY <1>1, <1>4 DEF Distinct
    <3>2. i \in Int /\ j \in Int /\ k \in Int
      BY <1>1, <1>3, <1>4, ListIndices
    <3> QED
      BY <3>1, <3>2 DEF Moved
  <2>4. ASSUME NEW i \in DOMAIN printed', NEW j \in DOMAIN infoList'
        PROVE  printed'[i].ethType < infoList'[j].ethType
    <3> DEFINE m == Moved(j, k)
    <3>1. m \in DOMAIN infoList /\ m # k /\ infoList'[j] = infoList[m]
      BY <1>4
    <3> HIDE DEF m
    <3>2. CASE i = n
      <4>1. least.ethType <= infoList[m].ethType /\ least.ethType # infoList[m].ethType
        BY <1>1, <1>3, <3>1 DEF Distinct
      <4>2. infoList[m].ethType \in Nat
        BY <1>1, <3>1, EntryIs
      <4> QED
        BY <1>5, <1>6, <3>1, <3>2, <4>1, <4>2
    <3>3. CASE i \in DOMAIN printed
      BY <1>6, <3>1, <3>3 DEF Inv, Sorted
    <3> QED
      BY <1>6, <3>2, <3>3
  <2> QED
    BY <2>2, <2>3, <2>4 DEF Sorted
<1>12. Entries'
  <2>1. \A i \in DOMAIN printed' : Right(printed'[i], received)
    BY <1>3, <1>6 DEF Inv, Entries
  <2>2. \A i \in DOMAIN infoList' : Right(infoList'[i], received)
    BY <1>4 DEF Inv, Entries
  <2>3. ASSUME NEW type, Has(printed, type) \/ Has(infoList, type)
        PROVE  Has(printed', type) \/ Has(infoList', type)
    <3>1. CASE Has(printed, type)
      <4>1. PICK j \in DOMAIN printed : printed[j].ethType = type
        BY <3>1 DEF Has
      <4>2. j \in DOMAIN printed' /\ printed'[j].ethType = type
        BY <1>6, <4>1
      <4> QED
        BY <4>2 DEF Has
    <3>2. CASE Has(infoList, type)
      <4>1. PICK j \in DOMAIN infoList : infoList[j].ethType = type
        BY <3>2 DEF Has
      <4>2. CASE j = k
        <5>1. n \in DOMAIN printed' /\ printed'[n].ethType = type
          BY <1>6, <4>1, <4>2
        <5> QED
          BY <5>1 DEF Has
      <4>3. CASE j # k
        <5>1. PICK i \in DOMAIN infoList' : Moved(i, k) = j
          BY <1>4, <4>3
        <5>2. infoList'[i].ethType = type
          BY <1>4, <4>1, <5>1
        <5> QED
          BY <5>2 DEF Has
      <4> QED
        BY <4>2, <4>3
    <3> QED
      BY <2>3, <3>1, <3>2
  <2>4. \A j \in DOMAIN received : Has(printed', received[j].type) \/ Has(infoList', received[j].type)
    BY <2>3 DEF Inv, Entries
  <2> QED
    BY <1>2, <2>1, <2>2, <2>4 DEF Entries
<1>13. Totals'
  <2>1. BytesOf(printed) \in Int /\ BytesOf(infoList) \in Int
    BY <1>1, BytesOfType
  <2>2. BytesOf(printed') + BytesOf(infoList') = BytesOf(printed) + BytesOf(infoList)
    BY <1>5, <1>7, <1>8, <2>1
  <2> QED
    BY <1>2, <2>2 DEF Inv, Totals
<1> QED
  BY <1>9, <1>10, <1>11, <1>12, <1>13 DEF Inv

\* An entry is right again, or still right, when a frame was received.
LEMMA RightThen ==
    ASSUME NEW s \in Seq(Frames), NEW f \in Frames, NEW r, r = Append(s, f),
           NEW info \in Info, Right(info, s), NEW other,
           other.ethType = info.ethType,
           info.ethType # f.type => other = info,
           info.ethType = f.type =>
             /\ other.frameCounter = Plus(info.frameCounter, 1)
             /\ other.byteCounter = Plus(info.byteCounter, f.len)
    PROVE  Right(other, r)
<1> DEFINE type == info.ethType
           count == Cardinality(OfIn(type, s))
           bytes == BytesIn(OfIn(type, s), s)
<1>1. OfIn(type, s) \in SUBSET DOMAIN s
  BY DEF OfIn
<1>2. count \in Int /\ bytes \in Int /\ f.len \in Int /\ 1 \in Int
  BY <1>1, SubsetsFinite, FramesAre
<1>3. /\ Cardinality(OfIn(type, r)) = count + (IF type = f.type THEN 1 ELSE 0)
      /\ BytesIn(OfIn(type, r), r) = bytes + (IF type = f.type THEN f.len ELSE 0)
  <2>1. CountsMore(s, f, r)
    BY CountsOneMore
  <2> QED
    BY <2>1 DEF CountsMore
<1>4. \E k \in DOMAIN r : r[k].type = type
  <2>1. PICK k \in DOMAIN s : s[k].type = type
    BY DEF Right
  <2>2. k \in DOMAIN r /\ r[k] = s[k]
    OBVIOUS
  <2> QED
    BY <2>1, <2>2
<1>5. info.frameCounter = count % CounterMod /\ info.byteCounter = bytes % CounterMod
  BY DEF Right
<1> HIDE DEF count, bytes
<1>6. CASE type = f.type
  <2>1. Plus(count % CounterMod, 1) = (count + 1) % CounterMod
    BY <1>2, PlusIs, Zenon
  <2>2. Plus(bytes % CounterMod, f.len) = (bytes + f.len) % CounterMod
    BY <1>2, PlusIs, Zenon
  <2>3. /\ Cardinality(OfIn(type, r)) = count + 1
        /\ BytesIn(OfIn(type, r), r) = bytes + f.len
    BY <1>3, <1>6
  <2>4. /\ other.frameCounter = Cardinality(OfIn(type, r)) % CounterMod
        /\ other.byteCounter = BytesIn(OfIn(type, r), r) % CounterMod
    BY <1>5, <1>6, <2>1, <2>2, <2>3
  <2> HIDE DEF type
  <2> QED
    BY <1>4, <2>4 DEF Right, type
<1>7. CASE type # f.type
  <2>1. Cardinality(OfIn(type, r)) = count /\ BytesIn(OfIn(type, r), r) = bytes
    BY <1>2, <1>3, <1>7
  <2> QED
    BY <1>4, <1>5, <1>7, <2>1 DEF Right
<1> QED
  BY <1>6, <1>7

\* The entry of a type that has come up for the first time.
LEMMA RightFirst ==
    ASSUME NEW s \in Seq(Frames), NEW f \in Frames, NEW r, r = Append(s, f),
           \A k \in DOMAIN s : s[k].type # f.type
    PROVE  newInfo(f.type, f.len) \in Info /\ Right(newInfo(f.type, f.len), r)
<1> DEFINE info == newInfo(f.type, f.len)
<1>1. f.type \in Nat /\ f.len \in Nat /\ f.len < CounterMod /\ 1 < CounterMod /\ CounterMod \in Nat
  BY FramesAre
<1>2. info \in Info /\ info.ethType = f.type /\ info.frameCounter = 1 /\ info.byteCounter = f.len
  BY <1>1 DEF Info, newInfo
<1>3. OfIn(f.type, s) = {}
  BY DEF OfIn
<1>4. Cardinality(OfIn(f.type, s)) = 0 /\ BytesIn(OfIn(f.type, s), s) = 0
  <2>1. Cardinality(OfIn(f.type, s)) = 0
    BY <1>3, FS_EmptySet
  <2>2. BytesIn(OfIn(f.type, s), s) = SumOf([k \in DOMAIN s |-> s[k].len], {})
    BY <1>3 DEF BytesIn, Sum, SumOf
  <2> QED
    BY <2>1, <2>2, SumEmpty
<1>5. Cardinality(OfIn(f.type, r)) = 1 /\ BytesIn(OfIn(f.type, r), r) = f.len
  <2>1. CountsMore(s, f, r)
    BY CountsOneMore
  <2>2. /\ Cardinality(OfIn(f.type, r)) = Cardinality(OfIn(f.type, s)) + 1
        /\ BytesIn(OfIn(f.type, r), r) = BytesIn(OfIn(f.type, s), s) + f.len
    BY <2>1 DEF CountsMore
  <2> QED
    BY <1>1, <1>4, <2>2
<1>6. 1 % CounterMod = 1 /\ f.len % CounterMod = f.len
  <2>1. 1 = CounterMod * 0 + 1 /\ f.len = CounterMod * 0 + f.len
    BY <1>1
  <2>2. 1 \in 0..(CounterMod - 1) /\ f.len \in 0..(CounterMod - 1) /\ CounterMod > 0
        /\ CounterMod \in Int
    <3> DEFINE n == f.len
    <3>1. n \in Nat /\ n < CounterMod /\ CounterMod \in Nat /\ 1 < CounterMod
      BY <1>1
    <3> HIDE DEF n
    <3>2. 1 \in 0..(CounterMod - 1) /\ CounterMod > 0 /\ CounterMod \in Int
      BY <3>1
    <3>3. n \in 0..(CounterMod - 1)
      BY <3>1
    <3> QED
      BY <3>2, <3>3 DEF n
  <2>3. 1 % CounterMod = 1
    <3>1. CounterMod \in Nat /\ 1 \in Int /\ 0 \in Int
      BY <1>1
    <3> QED
      BY <2>1, <2>2, <3>1, DivModUnique
  <2> DEFINE n == f.len
  <2>4. n \in Int /\ 0 \in Int /\ n = CounterMod * 0 + n /\ n \in 0..(CounterMod - 1)
    BY <1>1, <2>1, <2>2
  <2> HIDE DEF n
  <2>5. n % CounterMod = n
    <3>1. CounterMod \in Nat
      BY <1>1
    <3> QED
      BY <2>2, <2>4, <3>1, DivModUnique
  <2> QED
    BY <2>3, <2>5 DEF n
<1>7. \E k \in DOMAIN r : r[k].type = f.type
  <2>1. Len(s) + 1 \in DOMAIN r /\ r[Len(s) + 1] = f
    OBVIOUS
  <2> QED
    BY <2>1
<1> HIDE DEF info
<1>8. Right(info, r)
  BY <1>2, <1>5, <1>6, <1>7 DEF Right
<1> QED
  BY <1>2, <1>8 DEF info

\* The list after a frame.
LEMMA ListThen ==
    ASSUME InRange, Phase, Sorted, Entries, at = "read",
           NEW f \in Frames, NEW r, r = Append(received, f),
           NEW list, list = Counted(f, infoList)
    PROVE  /\ list \in Seq(Info) /\ Distinct(list)
           /\ \A k \in DOMAIN list : Right(list[k], r)
           /\ \A k \in DOMAIN r : Has(list, r[k].type)
           /\ BytesOf(list) % CounterMod = (BytesOf(infoList) + f.len) % CounterMod
<1>1. /\ infoList \in Seq(Info) /\ Distinct(infoList) /\ received \in Seq(Frames)
      /\ \A k \in DOMAIN infoList : Right(infoList[k], received)
  BY DEF InRange, Sorted, Entries
<1>2. \A k \in DOMAIN received : Has(infoList, received[k].type)
  BY DEF Phase, Entries, Has
<1>3. PICK new : new = Len(received) + 1
  OBVIOUS
<1>4. Longer(received, f, r, new)
  BY <1>1, <1>3, OneMore
<1>5. f.len \in Int /\ BytesOf(infoList) \in Int /\ CounterMod \in Nat /\ CounterMod > 0
  BY <1>1, FramesAre, BytesOfType
<1>6. ASSUME Has(list, f.type), \A t : Has(infoList, t) => Has(list, t)
      PROVE  \A k \in DOMAIN r : Has(list, r[k].type)
  <2> SUFFICES ASSUME NEW k \in DOMAIN r PROVE Has(list, r[k].type)
    OBVIOUS
  <2>1. CASE k = new
    BY <1>4, <1>6, <2>1 DEF Longer
  <2>2. CASE k \in DOMAIN received
    BY <1>2, <1>4, <1>6, <2>2 DEF Longer
  <2> QED
    BY <1>4, <2>1, <2>2 DEF Longer
<1>7. CASE NoEntry(f.type, infoList) /\ list = Append(infoList, newInfo(f.type, f.len))
  <2> DEFINE info == newInfo(f.type, f.len)
             n == Len(infoList) + 1
  <2>1. \A k \in DOMAIN received : received[k].type # f.type
    BY <1>2, <1>7 DEF Has, NoEntry
  <2>2. info \in Info /\ Right(info, r)
    BY <1>1, <2>1, RightFirst
  <2>3. info.ethType = f.type /\ info.byteCounter = f.len
    BY DEF newInfo
  <2> HIDE DEF info
  <2>4. /\ list \in Seq(Info) /\ DOMAIN list = DOMAIN infoList \cup {n} /\ n \notin DOMAIN infoList
        /\ list[n] = info /\ \A k \in DOMAIN infoList : list[k] = infoList[k]
    BY <1>1, <1>7, <2>2 DEF info
  <2> HIDE DEF n
  <2>5. Distinct(list)
    BY <1>1, <1>7, <2>3, <2>4 DEF Distinct, NoEntry
  <2>6. \A k \in DOMAIN list : Right(list[k], r)
    <3> SUFFICES ASSUME NEW k \in DOMAIN infoList PROVE Right(infoList[k], r)
      BY <2>2, <2>4
    <3>1. infoList[k] \in Info /\ Right(infoList[k], received) /\ infoList[k].ethType # f.type
      BY <1>1, <1>7 DEF NoEntry
    <3> DEFINE e == infoList[k]
    <3> HIDE DEF e
    <3>2. e \in Info /\ Right(e, received) /\ e.ethType # f.type
      BY <3>1 DEF e
    <3>3. Right(e, r)
      BY <1>1, <3>2, RightThen
    <3> QED
      BY <3>3 DEF e
  <2>7. Has(list, f.type)
    BY <2>3, <2>4 DEF Has
  <2>8. \A t : Has(infoList, t) => Has(list, t)
    BY <2>4 DEF Has
  <2>9. BytesOf(list) = BytesOf(infoList) + f.len
    BY <1>1, <1>7, <2>2, <2>3, BytesInserted DEF info
  <2> QED
    BY <1>6, <2>4, <2>5, <2>6, <2>7, <2>8, <2>9
<1>8. CASE \E k : Updated(f, infoList, list, k)
  <2>1. PICK k : Updated(f, infoList, list, k)
    BY <1>8
  <2>2. /\ k \in DOMAIN infoList /\ infoList[k].ethType = f.type
        /\ list \in Seq(Info) /\ DOMAIN list = DOMAIN infoList
        /\ \A j \in DOMAIN infoList : j # k => list[j] = infoList[j]
        /\ list[k].ethType = f.type
        /\ list[k].frameCounter = Plus(infoList[k].frameCounter, 1)
        /\ list[k].byteCounter = Plus(infoList[k].byteCounter, f.len)
    BY <2>1 DEF Updated
  <2>3. \A j \in DOMAIN list : list[j].ethType = infoList[j].ethType
    BY <2>2
  <2>4. Distinct(list)
    BY <1>1, <2>2, <2>3 DEF Distinct
  <2>5. ASSUME NEW j \in DOMAIN list PROVE Right(list[j], r)
    <3>1. PICK e : e = infoList[j]
      OBVIOUS
    <3>2. PICK o : o = list[j]
      OBVIOUS
    <3>3. e \in Info /\ Right(e, received) /\ o.ethType = e.ethType
      BY <1>1, <2>2, <2>3, <2>5, <3>1, <3>2
    <3>4. e.ethType # f.type => o = e
      BY <2>2, <2>5, <3>1, <3>2
    <3>5. e.ethType = f.type => j = k
      BY <1>1, <2>2, <2>5, <3>1 DEF Distinct
    <3>6. e.ethType = f.type =>
            /\ o.frameCounter = Plus(e.frameCounter, 1)
            /\ o.byteCounter = Plus(e.byteCounter, f.len)
      BY <2>2, <3>1, <3>2, <3>5
    <3>7. Right(o, r)
      BY <1>1, <3>3, <3>4, <3>6, RightThen
    <3> QED
      BY <3>2, <3>7
  <2>6. Has(list, f.type) /\ \A t : Has(infoList, t) => Has(list, t)
    BY <2>2, <2>3 DEF Has
  <2>7. BytesOf(list) % CounterMod = (BytesOf(infoList) + f.len) % CounterMod
    <3> DEFINE old == infoList[k].byteCounter
               now == list[k].byteCounter
               sum == BytesOf(infoList)
    <3>1. BytesOf(list) = sum - old + now
      BY <1>1, <2>2, BytesChanged
    <3>2. old \in Int /\ now \in Int /\ now = Plus(old, f.len)
      BY <1>1, <2>2, EntryIs
    <3> HIDE DEF old, now, sum
    <3>3. sum \in Int
      BY <1>5 DEF sum
    <3>4. PICK rest : rest = sum - old
      OBVIOUS
    <3>5. rest \in Int /\ rest + old + f.len = sum + f.len
      BY <1>5, <3>2, <3>3, <3>4
    <3>6. \A b \in Int : (b + Plus(old, f.len)) % CounterMod = (b + old + f.len) % CounterMod
      BY <1>5, <3>2, PlusIs
    <3>7. (rest + Plus(old, f.len)) % CounterMod = (rest + old + f.len) % CounterMod
      BY <3>5, <3>6
    <3>8. BytesOf(list) = rest + Plus(old, f.len)
      BY <3>1, <3>2, <3>4
    <3>9. (rest + old + f.len) % CounterMod = (sum + f.len) % CounterMod
      BY <3>5
    <3> QED
      BY <3>7, <3>8, <3>9 DEF sum
  <2> QED
    BY <1>6, <2>2, <2>4, <2>5, <2>6, <2>7
<1>9. \/ NoEntry(f.type, infoList) /\ list = Append(infoList, newInfo(f.type, f.len))
      \/ \E k : Updated(f, infoList, list, k)
  BY <1>1, CountedIs
<1> QED
  BY <1>7, <1>8, <1>9

LEMMA CountFrameKeeps == ASSUME Inv, CountFrame PROVE Inv'
<1>1. at = "read" /\ at' = "loop" /\ printed' = printed
  BY DEF CountFrame
<1>2. PICK f \in Frames :
         /\ infoList' = Counted(f, infoList)
         /\ myFrames' = IF macsEqual(f) THEN Plus(myFrames, 1) ELSE myFrames
         /\ multiCastFrames' =
              IF isMulticast(f) THEN Plus(multiCastFrames, 1) ELSE multiCastFrames
         /\ totalByte' = Plus(totalByte, f.len)
         /\ received' = Append(received, f)
  BY DEF CountFrame
<1>3. /\ infoList \in Seq(Info) /\ received \in Seq(Frames) /\ printed = <<>>
      /\ InRange /\ Phase /\ Sorted /\ Entries /\ Totals
  BY <1>1 DEF Inv, InRange, Phase
<1>4. PICK list : list = infoList'
  OBVIOUS
<1>5. PICK r : r = received'
  OBVIOUS
<1>6. /\ list \in Seq(Info) /\ Distinct(list)
      /\ \A k \in DOMAIN list : Right(list[k], r)
      /\ \A k \in DOMAIN r : Has(list, r[k].type)
      /\ BytesOf(list) % CounterMod = (BytesOf(infoList) + f.len) % CounterMod
  BY <1>1, <1>2, <1>3, <1>4, <1>5, ListThen
<1>7. CounterMod \in Nat /\ CounterMod > 0 /\ f.len \in Int /\ 1 \in Int
      /\ BytesOf(infoList) \in Int /\ BytesOf(list) \in Int
  BY <1>3, <1>6, BytesOfType, FramesAre
<1>8. BytesOf(<<>>) = 0
  BY SumEmpty DEF BytesOf
<1>9. Totals'
  <2> DEFINE my == Cardinality(ToIn("me", received))
             multi == Cardinality(ToIn("multicast", received))
  <2>1. ToIn("me", received) \in SUBSET DOMAIN received
        /\ ToIn("multicast", received) \in SUBSET DOMAIN received
    BY DEF ToIn
  <2>2. my \in Int /\ multi \in Int
    BY <1>3, <2>1, SubsetsFinite
  <2>3. CountsMore(received, f, r)
    BY <1>2, <1>3, <1>5, CountsOneMore
  <2>4. /\ Cardinality(ToIn("me", r)) = my + (IF f.dst = "me" THEN 1 ELSE 0)
        /\ Cardinality(ToIn("multicast", r)) = multi + (IF f.dst = "multicast" THEN 1 ELSE 0)
    BY <2>3 DEF CountsMore
  <2> HIDE DEF my, multi
  <2>5. Plus(my % CounterMod, 1) = (my + 1) % CounterMod
        /\ Plus(multi % CounterMod, 1) = (multi + 1) % CounterMod
    BY <1>7, <2>2, PlusIs, Zenon
  <2>6. myFrames = my % CounterMod /\ multiCastFrames = multi % CounterMod
    BY <1>3 DEF Totals, my, multi
  <2>7. /\ myFrames' = Cardinality(ToIn("me", r)) % CounterMod
        /\ multiCastFrames' = Cardinality(ToIn("multicast", r)) % CounterMod
    BY <1>2, <2>2, <2>4, <2>5, <2>6 DEF macsEqual, isMulticast
  <2>8. totalByte = BytesOf(infoList) % CounterMod
    <3>1. BytesOf(printed) + BytesOf(infoList) = BytesOf(infoList)
      BY <1>3, <1>7, <1>8
    <3> QED
      BY <1>3, <3>1 DEF Totals
  <2>9. Plus(BytesOf(infoList) % CounterMod, f.len) = (BytesOf(infoList) + f.len) % CounterMod
    BY <1>7, PlusIs, Zenon
  <2>10. BytesOf(printed') + BytesOf(list) = BytesOf(list)
    BY <1>1, <1>3, <1>7, <1>8
  <2>11. totalByte' = (BytesOf(printed') + BytesOf(list)) % CounterMod
    BY <1>2, <1>6, <2>8, <2>9, <2>10
  <2> QED
    BY <1>4, <1>5, <2>7, <2>11 DEF Totals
<1>10. InRange'
  <2>1. r \in Seq(Frames)
    BY <1>2, <1>3, <1>5
  <2>2. myFrames \in Int /\ multiCastFrames \in Int /\ totalByte \in Int
    BY <1>3, <1>7 DEF InRange
  <2>3. Plus(myFrames, 1) \in 0..(CounterMod - 1) /\ Plus(multiCastFrames, 1) \in 0..(CounterMod - 1)
        /\ Plus(totalByte, f.len) \in 0..(CounterMod - 1)
    BY <1>7, <2>2, PlusIs, Zenon
  <2> QED
    BY <1>1, <1>2, <1>3, <1>4, <1>5, <1>6, <2>1, <2>3 DEF InRange
<1>11. Phase'
  BY <1>1, <1>3 DEF Phase
<1>12. Sorted'
  BY <1>1, <1>3, <1>4, <1>6 DEF Sorted, Ascending
<1>13. Entries'
  BY <1>1, <1>3, <1>4, <1>5, <1>6 DEF Entries
<1> QED
  BY <1>9, <1>10, <1>11, <1>12, <1>13 DEF Inv

LEMMA InvNext == ASSUME Inv, [Next]_vars PROVE Inv'
<1>1. CASE UNCHANGED vars
  BY <1>1, OthersKeep DEF vars, counters, Inv, Phase
<1>2. CASE Next
  BY <1>2, OtherSteps, PrintMinKeeps, CountFrameKeeps DEF Next
<1> QED
  BY <1>1, <1>2

LEMMA Invariant == Spec => []Inv
BY InvInit, InvNext, PTL DEF Spec

-----------------------------------------------------------------------------
(* What follows from the invariant.                                        *)

LEMMA InvCountsAgree == Inv => CountsAgree
<1> SUFFICES ASSUME Inv PROVE CountsAgree
  OBVIOUS
<1> DEFINE infos == printed \o infoList
           n == Len(printed)
<1>1. printed \in Seq(Info) /\ infoList \in Seq(Info) /\ received \in Seq(Frames)
  BY DEF Inv, InRange
<1>2. /\ infos \in Seq(Info) /\ Len(infos) = n + Len(infoList) /\ n \in Nat /\ Len(infoList) \in Nat
      /\ \A k \in 1..Len(infos) : infos[k] = IF k <= n THEN printed[k] ELSE infoList[k - n]
      /\ DOMAIN infos = 1..Len(infos) /\ DOMAIN printed = 1..n /\ DOMAIN infoList = 1..Len(infoList)
  BY <1>1
<1> HIDE DEF infos, n
<1>3. ASSUME NEW k \in DOMAIN infos
      PROVE  \/ k \in DOMAIN printed /\ infos[k] = printed[k]
             \/ k > n /\ k - n \in DOMAIN infoList /\ infos[k] = infoList[k - n]
  <2>1. k \in Int /\ k \in 1..Len(infos) /\ infos[k] = IF k <= n THEN printed[k] ELSE infoList[k - n]
    BY <1>2
  <2>2. CASE k <= n
    <3>1. k \in 1..n /\ infos[k] = printed[k]
      BY <1>2, <2>1, <2>2
    <3> QED
      BY <1>2, <3>1
  <2>3. CASE k > n
    <3>1. k - n \in 1..Len(infoList) /\ infos[k] = infoList[k - n]
      BY <1>2, <2>1, <2>3
    <3> QED
      BY <1>2, <2>3, <3>1
  <2> QED
    BY <1>2, <2>1, <2>2, <2>3
<1>4. ASSUME NEW k \in DOMAIN printed PROVE k \in DOMAIN infos /\ infos[k] = printed[k]
  <2>1. k \in Int /\ k \in 1..Len(infos) /\ k <= n
    BY <1>2
  <2> QED
    BY <1>2, <2>1
<1>5. \A k \in DOMAIN infoList : n + k \in DOMAIN infos /\ infos[n + k] = infoList[k]
  <2> SUFFICES ASSUME NEW k \in DOMAIN infoList
               PROVE  n + k \in DOMAIN infos /\ infos[n + k] = infoList[k]
    OBVIOUS
  <2>1. k \in Int /\ n + k \in 1..Len(infos) /\ ~(n + k <= n) /\ (n + k) - n = k
    BY <1>2
  <2> QED
    BY <1>2, <2>1
<1>6. \A k \in DOMAIN infos : Right(infos[k], received)
  BY <1>3 DEF Inv, Entries
<1>7. ASSUME NEW j \in DOMAIN infos, NEW k \in DOMAIN infos, infos[j].ethType = infos[k].ethType
      PROVE  j = k
  <2>1. CASE j \in DOMAIN printed /\ infos[j] = printed[j]
    <3>1. CASE k \in DOMAIN printed /\ infos[k] = printed[k]
      <4>1. printed[j].ethType \in Nat /\ printed[k].ethType \in Nat /\ j \in Int /\ k \in Int
        BY <1>1, <1>2, <2>1, <3>1, EntryIs
      <4>2. ~(j < k) /\ ~(k < j)
        BY <1>7, <2>1, <3>1, <4>1 DEF Inv, Sorted, Ascending
      <4> QED
        BY <4>1, <4>2
    <3>2. CASE k - n \in DOMAIN infoList /\ infos[k] = infoList[k - n]
      <4>1. printed[j].ethType < infoList[k - n].ethType /\ printed[j].ethType \in Nat
            /\ infoList[k - n].ethType \in Nat
        BY <1>1, <2>1, <3>2, EntryIs DEF Inv, Sorted
      <4> QED
        BY <1>7, <2>1, <3>2, <4>1
    <3> QED
      BY <1>3, <3>1, <3>2
  <2>2. CASE j - n \in DOMAIN infoList /\ infos[j] = infoList[j - n]
    <3>1. CASE k \in DOMAIN printed /\ infos[k] = printed[k]
      <4>1. printed[k].ethType < infoList[j - n].ethType /\ printed[k].ethType \in Nat
            /\ infoList[j - n].ethType \in Nat
        BY <1>1, <2>2, <3>1, EntryIs DEF Inv, Sorted
      <4> QED
        BY <1>7, <2>2, <3>1, <4>1
    <3>2. CASE k - n \in DOMAIN infoList /\ infos[k] = infoList[k - n]
      <4>1. j - n = k - n
        BY <1>7, <2>2, <3>2 DEF Inv, Sorted, Distinct
      <4> QED
        BY <1>2, <4>1
    <3> QED
      BY <1>3, <3>1, <3>2
  <2> QED
    BY <1>3, <2>1, <2>2
<1> DEFINE T == {infos[k].ethType : k \in DOMAIN infos}
<1>8. T = Types
  <2>1. ASSUME NEW k \in DOMAIN infos PROVE infos[k].ethType \in Types
    BY <1>6 DEF Right, Types
  <2>2. ASSUME NEW k \in DOMAIN received PROVE \E j \in DOMAIN infos : infos[j].ethType = received[k].type
    <3>1. CASE Has(printed, received[k].type)
      BY <1>4, <3>1 DEF Has
    <3>2. CASE Has(infoList, received[k].type)
      <4>1. PICK j \in DOMAIN infoList : infoList[j].ethType = received[k].type
        BY <3>2 DEF Has
      <4>2. n + j \in DOMAIN infos /\ infos[n + j].ethType = received[k].type
        BY <1>5, <4>1
      <4> QED
        BY <4>2
    <3> QED
      BY <3>1, <3>2 DEF Inv, Entries
  <2> QED
    BY <2>1, <2>2 DEF Types
<1>9. Len(infos) = Cardinality(Types)
  <2> DEFINE h == [k \in DOMAIN infos |-> infos[k].ethType]
  <2>1. h \in Bijection(DOMAIN infos, T)
    <3>1. h \in [DOMAIN infos -> T] /\ \A t \in T : \E k \in DOMAIN infos : h[k] = t
      OBVIOUS
    <3>2. \A j, k \in DOMAIN infos : h[j] = h[k] => j = k
      BY <1>7
    <3> HIDE DEF h, T
    <3> QED
      BY <3>1, <3>2 DEF Bijection, Injection, Surjection, IsInjective
  <2> HIDE DEF h, T
  <2>2. IsFiniteSet(DOMAIN infos) /\ Cardinality(DOMAIN infos) = Len(infos)
    <3>1. DOMAIN infos = 1..Len(infos) /\ Len(infos) \in Nat
      BY <1>2
    <3>2. IsFiniteSet(1..Len(infos)) /\ Cardinality(1..Len(infos)) = Len(infos)
      <4> DEFINE l == Len(infos)
      <4>1. l \in Nat
        BY <3>1
      <4> HIDE DEF l
      <4>2. IsFiniteSet(1..l) /\ Cardinality(1..l) = IF 1 > l THEN 0 ELSE l - 1 + 1
        BY <4>1, FS_Interval
      <4>3. Cardinality(1..l) = l
        BY <4>1, <4>2
      <4> QED
        BY <4>2, <4>3 DEF l
    <3> QED
      BY <3>1, <3>2
  <2>3. ExistsBijection(DOMAIN infos, T)
    BY <2>1 DEF ExistsBijection
  <2>4. Cardinality(T) = Cardinality(DOMAIN infos)
    BY <2>2, <2>3, FS_Bijection
  <2> QED
    BY <1>8, <2>2, <2>4
<1>10. \A k \in DOMAIN infos :
         /\ infos[k].frameCounter = Cardinality(Of(infos[k].ethType)) % CounterMod
         /\ infos[k].byteCounter = Bytes(Of(infos[k].ethType)) % CounterMod
  BY <1>6 DEF Right, Of, OfIn, Bytes, BytesIn
<1> QED
  BY <1>8, <1>9, <1>10 DEF CountsAgree, infos

LEMMA InvTotalsAgree == Inv => TotalsAgree
<1> SUFFICES ASSUME Inv, at = "closed"
             PROVE  /\ totalByte = Sum([k \in DOMAIN printed |-> printed[k].byteCounter], DOMAIN printed)
                                      % CounterMod
                    /\ (myFrames + multiCastFrames) % CounterMod =
                          Cardinality({k \in DOMAIN received : received[k].dst # "other"}) % CounterMod
  BY DEF TotalsAgree
<1>1. printed \in Seq(Info) /\ received \in Seq(Frames) /\ infoList = <<>>
  BY DEF Inv, InRange, Phase
<1>2. CounterMod \in Nat /\ CounterMod > 0 /\ BytesOf(printed) \in Int
  BY <1>1, FramesAre, BytesOfType
<1>3. BytesOf(printed) + BytesOf(infoList) = BytesOf(printed)
  <2>1. BytesOf(infoList) = 0
    BY <1>1, SumEmpty DEF BytesOf
  <2> QED
    BY <1>2, <2>1
<1>4. totalByte = BytesOf(printed) % CounterMod
  BY <1>3 DEF Inv, Totals
<1>5. BytesOf(printed) = Sum([k \in DOMAIN printed |-> printed[k].byteCounter], DOMAIN printed)
  BY DEF BytesOf, Sum, SumOf
<1> DEFINE A == ToIn("me", received)
           B == ToIn("multicast", received)
           a == Cardinality(A)
           b == Cardinality(B)
<1>6. A \in SUBSET DOMAIN received /\ B \in SUBSET DOMAIN received /\ A \cap B = {}
  BY DEF ToIn
<1>7. {k \in DOMAIN received : received[k].dst # "other"} = A \cup B
  BY <1>1, FramesAre DEF ToIn
<1> HIDE DEF A, B
<1>8. IsFiniteSet(A) /\ IsFiniteSet(B) /\ a \in Nat /\ b \in Nat
  BY <1>1, <1>6, SubsetsFinite
<1>9. Cardinality(A \cup B) = a + b
  BY <1>6, <1>8, FS_Union, FS_EmptySet
<1>10. myFrames = a % CounterMod /\ multiCastFrames = b % CounterMod
  BY DEF Inv, Totals, A, B
<1> HIDE DEF a, b
<1>11. (myFrames + multiCastFrames) % CounterMod = (a + b) % CounterMod
  <2>1. a \in Int /\ b \in Int
    BY <1>8
  <2>2. b % CounterMod \in Int
    BY <1>2, <2>1
  <2>3. ((a % CounterMod) + (b % CounterMod)) % CounterMod = (a + (b % CounterMod)) % CounterMod
    BY <1>2, <2>1, <2>2, ModPlus, Zenon
  <2>4. ((b % CounterMod) + a) % CounterMod = (b + a) % CounterMod
    BY <1>2, <2>1, ModPlus, Zenon
  <2> DEFINE r == b % CounterMod
  <2>5. r \in Int
    BY <2>2
  <2> HIDE DEF r
  <2>6. r + a = a + r /\ a + b = b + a
    BY <2>1, <2>5
  <2> QED
    BY <1>10, <2>3, <2>4, <2>6 DEF r
<1> QED
  BY <1>4, <1>5, <1>7, <1>9, <1>11

-----------------------------------------------------------------------------
(* The end of the program.  Each step makes a list of five numbers         *)
(* smaller: the part of the program, the reads to come, the part of a      *)
(* read, what is left of its time, and the entries to print.               *)

Running == pc \in {"select", "read"}

Part == CASE at \in {"loop", "read"} -> 3 [] at = "print" -> 2 [] at = "close" -> 1 [] OTHER -> 0
ReadsLeft == Num - calls
Turn == IF at # "read" THEN 0 ELSE IF Running THEN 2 ELSE IF pc = "returned" THEN 1 ELSE 0
TimeLeft == IF Running THEN 2 * (time + Late) + (IF pc = "read" THEN 1 ELSE 0) ELSE 0

Rank == <<Part, ReadsLeft, Turn, TimeLeft, Len(infoList)>>

Ranked == Rank \in [1..5 -> Nat]

ComesToAnEnd == Shrinks(Rank', Rank)

\* What the library keeps of its time and of the calls.
InTime ==
    /\ timeout \in Nat /\ time \in Int /\ calls \in 0..Num
    /\ Running => time + Late >= 0

LEMMA TimesAre ==
    /\ TicksPerMs \in Nat /\ TicksPerMs > 0 /\ Late \in Nat /\ MinWait \in Nat
    /\ Modulus \in Nat /\ Modulus > 0 /\ Budget \in Nat /\ Num \in Nat
BY ReadAssumption, FramesAssumption

LEMMA RankType == Inv /\ InTime => Ranked
<1> SUFFICES ASSUME Inv, InTime PROVE Rank \in [1..5 -> Nat]
  BY DEF Ranked
<1>1. Part \in Nat /\ Turn \in Nat
  BY DEF Part, Turn
<1>2. ReadsLeft \in Nat
  BY TimesAre DEF InTime, ReadsLeft
<1>3. TimeLeft \in Nat
  BY TimesAre DEF InTime, TimeLeft
<1>4. Len(infoList) \in Nat
  BY DEF Inv, InRange
<1> QED
  BY <1>1, <1>2, <1>3, <1>4 DEF Rank

LEMMA MillisecondsAre ==
    ASSUME NEW ticks \in Int
    PROVE  R!Milliseconds(ticks) \in Nat
<1>1. ticks \div TicksPerMs \in Int
  BY TimesAre
<1> QED
  BY <1>1, TimesAre DEF R!Milliseconds

\* A call begins.
LEMMA CallStep ==
    ASSUME InTime, R!Call
    PROVE  InTime' /\ calls' = calls + 1
<1>1. /\ timeout \in Nat /\ time \in Int /\ calls \in 0..Num /\ TicksPerMs \in Nat
      /\ Late \in Nat /\ Num \in Nat
  BY TimesAre DEF InTime
<1>2. /\ calls < Num /\ calls' = calls + 1 /\ timeout' = timeout
      /\ \/ pc' \in {"exit", "returned"} /\ time' = time
         \/ time' = timeout * TicksPerMs
  BY DEF R!Call
<1>3. timeout * TicksPerMs \in Nat
  BY <1>1
<1>4. calls' \in 0..Num
  BY <1>1, <1>2
<1>5. time' \in Int /\ (Running' => time' + Late >= 0)
  BY <1>1, <1>2, <1>3 DEF Running
<1> QED
  BY <1>1, <1>2, <1>4, <1>5 DEF InTime

LEMMA LessTwice ==
    ASSUME NEW t \in Int, NEW u \in Int, NEW l \in Int, u < t
    PROVE  2 * (u + l) + 1 < 2 * (t + l) /\ 2 * (u + l) < 2 * (t + l)
OBVIOUS

\* A call goes on, or is over.
LEMMA LoopStep ==
    ASSUME MinWait > 0, InTime, R!Loop
    PROVE  /\ InTime' /\ calls' = calls /\ Running
           /\ ~Running' \/ TimeLeft' < TimeLeft
<1>1. /\ timeout \in Nat /\ time \in Int /\ calls \in 0..Num
      /\ Late \in Nat /\ MinWait \in Nat
  BY TimesAre DEF InTime
<1>2. calls' = calls /\ Running
  BY DEF R!Loop, R!Ready, R!Expired, R!Interrupted, R!SelectFails, R!ReadFrame,
         R!ReadInterrupted, R!ReadFails, Running
<1>3. CASE R!Ready \/ R!Interrupted
  <2>1. PICK ticks \in MinWait..(time + Late) :
            time' = time - ticks /\ timeout' = R!Milliseconds(time - ticks)
    BY <1>3 DEF R!Ready, R!Interrupted, R!Pass
  <2>2. pc = "select" /\ ticks > 0 /\ ticks <= time + Late /\ ticks \in Int
    BY <1>1, <1>3, <2>1 DEF R!Ready, R!Interrupted
  <2>3. time' \in Int /\ time' + Late >= 0 /\ time' < time
    BY <1>1, <2>1, <2>2
  <2>4. timeout' \in Nat
    BY <2>1, <2>3, MillisecondsAre
  <2>5. ASSUME Running' PROVE TimeLeft' < TimeLeft
    <3>1. TimeLeft = 2 * (time + Late)
      BY <1>1, <1>2, <2>2 DEF TimeLeft
    <3>2. TimeLeft' \in {2 * (time' + Late), 2 * (time' + Late) + 1}
      BY <1>1, <2>3, <2>5 DEF TimeLeft
    <3>3. time \in Int /\ Late \in Int
      BY <1>1
    <3>4. time' \in Int
      BY <2>3
    <3>5. time' < time
      BY <2>3
    <3>6. /\ 2 * (time' + Late) + 1 < 2 * (time + Late)
          /\ 2 * (time' + Late) < 2 * (time + Late)
      BY <3>3, <3>4, <3>5, LessTwice
    <3> QED
      BY <3>1, <3>2, <3>6
  <2> QED
    BY <1>1, <1>2, <2>3, <2>4, <2>5 DEF InTime
<1>4. CASE R!Expired
  <2>1. PICK ticks \in time..(time + Late) : time' = time - ticks
    BY <1>4 DEF R!Expired
  <2>2. time' \in Int /\ timeout' = 0 /\ pc' = "returned"
    BY <1>1, <1>4, <2>1 DEF R!Expired, R!GivesUp
  <2> QED
    BY <1>1, <1>2, <2>2 DEF InTime, Running
<1>5. CASE R!ReadInterrupted
  <2>1. pc = "read" /\ pc' = "select" /\ UNCHANGED <<time, timeout>>
    BY <1>5 DEF R!ReadInterrupted
  <2>2. TimeLeft' < TimeLeft
    BY <1>1, <2>1 DEF TimeLeft, Running
  <2> QED
    BY <1>1, <1>2, <2>1, <2>2 DEF InTime
<1>6. CASE R!SelectFails \/ R!ReadFrame \/ R!ReadFails
  <2>1. pc' \in {"exit", "returned"} /\ UNCHANGED <<time, timeout>>
    BY <1>6 DEF R!SelectFails, R!ReadFrame, R!ReadFails
  <2> QED
    BY <1>1, <1>2, <2>1 DEF InTime, Running
<1> QED
  BY <1>3, <1>4, <1>5, <1>6 DEF R!Loop

LEMMA StepInTime ==
    ASSUME MinWait > 0, InTime, [Next]_vars
    PROVE  InTime'
<1>1. CASE NextRead
  BY <1>1, CallStep DEF NextRead
<1>2. CASE Reading
  <2>1. R!Loop
    BY <1>2 DEF Reading, R!Loop
  <2> QED
    BY <2>1, LoopStep
<1>3. CASE LoopEnds \/ TimedOut \/ CountFrame \/ PrintMin \/ PrintRest \/ UNCHANGED vars
  <2>1. UNCHANGED <<timeout, time, calls, pc>>
    BY <1>3 DEF LoopEnds, TimedOut, CountFrame, PrintMin, PrintRest, vars, rawVars
  <2> QED
    BY <2>1 DEF InTime, Running
<1>4. CASE Finish
  <2>1. UNCHANGED <<timeout, time, calls, pc>>
    BY <1>4 DEF Finish, R!Close
  <2> QED
    BY <2>1 DEF InTime, Running
<1> QED
  BY <1>1, <1>2, <1>3, <1>4 DEF Next

LEMMA StepShrinks ==
    ASSUME MinWait > 0, Inv, InTime, Ranked, Ranked', Next
    PROVE  Shrinks(Rank', Rank)
<1>1. Rank \in [1..5 -> Nat] /\ Rank' \in [1..5 -> Nat]
  BY DEF Ranked
<1>2. /\ Rank[1] = Part /\ Rank[2] = ReadsLeft /\ Rank[3] = Turn
      /\ Rank[4] = TimeLeft /\ Rank[5] = Len(infoList)
      /\ Rank'[1] = Part' /\ Rank'[2] = ReadsLeft' /\ Rank'[3] = Turn'
      /\ Rank'[4] = TimeLeft' /\ Rank'[5] = Len(infoList')
  BY DEF Rank
<1>3. CASE LoopEnds \/ TimedOut \/ PrintRest \/ Finish
  <2>1. Part' < Part
    BY <1>3 DEF LoopEnds, TimedOut, PrintRest, Finish, Part
  <2> QED
    BY <1>1, <1>2, <2>1, ShrinksAt
<1>4. CASE NextRead
  <2>1. at = "loop" /\ at' = "read" /\ R!Call
    BY <1>4 DEF NextRead
  <2>2. Part' = Part
    BY <2>1 DEF Part
  <2>3. calls' = calls + 1 /\ calls \in Int /\ Num \in Int
    BY <2>1, CallStep, TimesAre DEF InTime
  <2>4. ReadsLeft' < ReadsLeft
    BY <2>3 DEF ReadsLeft
  <2> QED
    BY <1>1, <1>2, <2>2, <2>4, ShrinksAt
<1>5. CASE Reading
  <2>1. R!Loop /\ at = "read" /\ at' = "read"
    BY <1>5 DEF Reading, R!Loop
  <2>2. calls' = calls /\ Running /\ (~Running' \/ TimeLeft' < TimeLeft)
    BY <2>1, LoopStep
  <2>3. Part' = Part /\ ReadsLeft' = ReadsLeft
    BY <2>1, <2>2 DEF Part, ReadsLeft
  <2>4. Turn = 2
    BY <2>1, <2>2 DEF Turn
  <2>5. CASE Running'
    <3>1. Turn' = 2
      BY <2>1, <2>5 DEF Turn
    <3> QED
      BY <1>1, <1>2, <2>2, <2>3, <2>4, <2>5, <3>1, ShrinksAt
  <2>6. CASE ~Running'
    <3>1. Turn' < 2
      BY <2>1, <2>6 DEF Turn
    <3> QED
      BY <1>1, <1>2, <2>3, <2>4, <3>1, ShrinksAt
  <2> QED
    BY <2>5, <2>6
<1>6. CASE CountFrame
  <2>1. at = "read" /\ at' = "loop" /\ pc = "returned" /\ calls' = calls
    BY <1>6 DEF CountFrame, rawVars
  <2>2. Part' = Part /\ ReadsLeft' = ReadsLeft
    BY <2>1 DEF Part, ReadsLeft
  <2>3. Turn = 1 /\ Turn' = 0
    BY <2>1 DEF Turn, Running
  <2> QED
    BY <1>1, <1>2, <2>2, <2>3, ShrinksAt
<1>7. CASE PrintMin
  <2>1. /\ UNCHANGED <<at, pc, time, calls>> /\ infoList # <<>>
        /\ infoList' = removeByType(infoList[min(infoList)].ethType, infoList)
    BY <1>7 DEF PrintMin, rawVars
  <2>2. /\ Part' = Part /\ ReadsLeft' = ReadsLeft
        /\ Turn' = Turn /\ TimeLeft' = TimeLeft
    BY <2>1 DEF Part, ReadsLeft, Turn, TimeLeft, Running
  <2>3. infoList \in Seq(Info) /\ Distinct(infoList)
    BY DEF Inv, InRange, Sorted
  <2>4. min(infoList) \in DOMAIN infoList
    BY <2>1, <2>3, MinIs
  <2>5. infoList' \in Seq(Info) /\ DOMAIN infoList' = 1..(Len(infoList) - 1)
    BY <2>1, <2>3, <2>4, RemoveIs
  <2>6. Len(infoList') < Len(infoList)
    BY <2>1, <2>3, <2>5
  <2> QED
    BY <1>1, <1>2, <2>2, <2>6, ShrinksAt
<1> QED
  BY <1>3, <1>4, <1>5, <1>6, <1>7 DEF Next

-----------------------------------------------------------------------------
(* The theorems.                                                           *)

\* At any time, printed or not, every type that was seen has one entry with its
\* frames and bytes, counted modulo the range of the counters.
THEOREM CountersAgree == Spec => []CountsAgree
BY InvCountsAgree, Invariant, PTL

\* The summary is in ascending order, also while it is printed.
THEOREM SummaryAscends == Spec => []Ascending
<1>1. Inv => Ascending
  BY DEF Inv, Sorted
<1> QED
  BY <1>1, Invariant, PTL

\* The totals are the sums of the lines above them, modulo the range of the
\* counters, and no frame for the host is counted twice.
THEOREM SummaryAddsUp == Spec => []TotalsAgree
BY InvTotalsAgree, Invariant, PTL

\* ethstats cannot go on for ever, whatever is received and however often
\* signals interrupt its reads: each of its steps makes Rank smaller, and that
\* has an end (NoEndlessShrinking).  Some time passes in each pselect.
THEOREM StatsShrink ==
    ASSUME MinWait > 0
    PROVE  Spec => []Ranked /\ [][ComesToAnEnd]_vars
<1>1. Init => InTime
  BY TimesAre DEF Init, R!Init, InTime, Running
<1>2. InTime /\ [Next]_vars => InTime'
  BY StepInTime
<1>3. Inv /\ InTime => Ranked
  BY RankType
<1>4. Inv /\ InTime /\ Ranked /\ Ranked' /\ [Next]_vars => [ComesToAnEnd]_vars
  BY StepShrinks DEF ComesToAnEnd
<1> QED
  BY <1>1, <1>2, <1>3, <1>4, Invariant, PTL DEF Spec

\* ethstats calls the library as RawRead allows, and ReadAssumption and
\* FramesAssumption are what RawRead assumes: what is proved of grnvs_read holds
\* for its reads.
THEOREM ReadsAreLibrary == Spec => R!Spec
<1>1. Init => R!Init
  BY DEF Init
<1>2. ASSUME [Next]_vars PROVE [R!Next]_(R!vars)
  <2>1. CASE NextRead
    BY <2>1 DEF NextRead, R!Next
  <2>2. CASE LoopEnds
    BY <2>2 DEF LoopEnds, rawVars, R!vars
  <2>3. CASE Reading
    BY <2>3 DEF Reading, R!Next, R!Loop
  <2>4. CASE TimedOut
    BY <2>4 DEF TimedOut, rawVars, R!vars
  <2>5. CASE CountFrame
    BY <2>5 DEF CountFrame, rawVars, R!vars
  <2>6. CASE PrintMin
    BY <2>6 DEF PrintMin, rawVars, R!vars
  <2>7. CASE PrintRest
    BY <2>7 DEF PrintRest, rawVars, R!vars
  <2>8. CASE Finish
    BY <2>8 DEF Finish, R!Next
  <2>9. CASE UNCHANGED vars
    BY <2>9 DEF vars, rawVars, R!vars
  <2> QED
    BY <1>2, <2>1, <2>2, <2>3, <2>4, <2>5, <2>6, <2>7, <2>8, <2>9 DEF Next
<1> QED
  BY <1>1, <1>2, PTL DEF Spec, R!Spec
=============================================================================
