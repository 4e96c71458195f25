---------------------------- MODULE LRUCacheProof ----------------------------
(***************************************************************************)
(* Proofs about LRUCache, for any keys, values and size.                   *)
(***************************************************************************)
EXTENDS LRUCache, FiniteSetTheorems, SequenceTheorems, TLAPS

\* No element occurs twice.
Distinct(s) == \A i, j \in 1..Len(s) : s[i] = s[j] => i = j

-----------------------------------------------------------------------------
(* Sequences *)

\* The range of a sequence, by its indices.
LEMMA RangeOf ==
  ASSUME NEW S, NEW s \in Seq(S)
  PROVE  Range(s) = {s[i] : i \in 1..Len(s)}
BY DEF Range

\* What Cons makes.
LEMMA ConsFacts ==
  ASSUME NEW S, NEW s \in Seq(S), NEW e \in S
  PROVE  /\ Cons(e, s) \in Seq(S)
         /\ Len(Cons(e, s)) = Len(s) + 1
         /\ Cons(e, s)[1] = e
         /\ \A i \in 2..(Len(s) + 1) : Cons(e, s)[i] = s[i - 1]
BY DEF Cons

\* A new first element keeps a sequence distinct, and adds itself.
LEMMA ConsDistinct ==
  ASSUME NEW S, NEW s \in Seq(S), NEW e \in S, Distinct(s), e \notin Range(s)
  PROVE  Distinct(Cons(e, s)) /\ Range(Cons(e, s)) = Range(s) \cup {e}
<1>1. /\ Cons(e, s) \in Seq(S) /\ Len(Cons(e, s)) = Len(s) + 1
      /\ Cons(e, s)[1] = e
      /\ \A i \in 2..(Len(s) + 1) : Cons(e, s)[i] = s[i - 1]
  BY ConsFacts
<1>2. \A i \in 1..Len(s) : s[i] # e
  BY RangeOf
<1>3. ASSUME NEW i \in 1..(Len(s) + 1), NEW j \in 1..(Len(s) + 1),
             Cons(e, s)[i] = Cons(e, s)[j]
      PROVE  i = j
  <2>1. CASE i = 1 /\ j # 1
    <3>1. j - 1 \in 1..Len(s) /\ Cons(e, s)[j] = s[j - 1]
      BY <1>1, <2>1
    <3> QED
      BY <1>1, <1>2, <1>3, <2>1, <3>1
  <2>2. CASE i # 1 /\ j = 1
    <3>1. i - 1 \in 1..Len(s) /\ Cons(e, s)[i] = s[i - 1]
      BY <1>1, <2>2
    <3> QED
      BY <1>1, <1>2, <1>3, <2>2, <3>1
  <2>3. CASE i # 1 /\ j # 1
    <3>1. /\ i - 1 \in 1..Len(s) /\ Cons(e, s)[i] = s[i - 1]
          /\ j - 1 \in 1..Len(s) /\ Cons(e, s)[j] = s[j - 1]
      BY <1>1, <2>3
    <3>2. i - 1 = j - 1
      BY <1>3, <3>1 DEF Distinct
    <3> QED
      BY <3>2
  <2> QED
    BY <2>1, <2>2, <2>3
<1>4. \A i \in 1..Len(s) : Cons(e, s)[i + 1] = s[i]
  BY <1>1
<1>5. {Cons(e, s)[i] : i \in 1..(Len(s) + 1)} = {s[i] : i \in 1..Len(s)} \cup {e}
  <2>1. ASSUME NEW i \in 1..(Len(s) + 1)
        PROVE  Cons(e, s)[i] \in {s[j] : j \in 1..Len(s)} \cup {e}
    BY <1>1
  <2>2. ASSUME NEW i \in 1..Len(s)
        PROVE  s[i] \in {Cons(e, s)[j] : j \in 1..(Len(s) + 1)}
    BY <1>4
  <2>3. e \in {Cons(e, s)[j] : j \in 1..(Len(s) + 1)}
    BY <1>1
  <2> QED
    BY <2>1, <2>2, <2>3
<1>6. Distinct(Cons(e, s))
  BY <1>1, <1>3 DEF Distinct
<1>7. Range(Cons(e, s)) = {Cons(e, s)[i] : i \in 1..(Len(s) + 1)}
  BY <1>1, RangeOf
<1>8. Range(s) = {s[i] : i \in 1..Len(s)}
  BY RangeOf
<1> QED
  BY <1>5, <1>6, <1>7, <1>8

\* RemoveFirst takes the element out at its place.
LEMMA RemoveFirstFacts ==
  ASSUME NEW S, NEW s \in Seq(S), NEW e, Distinct(s), e \in Range(s)
  PROVE  \E p \in 1..Len(s) :
           /\ s[p] = e
           /\ RemoveFirst(s, e) \in Seq(S)
           /\ Len(RemoveFirst(s, e)) = Len(s) - 1
           /\ \A i \in 1..(Len(s) - 1) :
                /\ i < p => RemoveFirst(s, e)[i] = s[i]
                /\ i >= p => RemoveFirst(s, e)[i] = s[i + 1]
<1>1. PICK p \in 1..Len(s) : s[p] = e
  BY RangeOf
<1>2. {i \in 1..Len(s) : s[i] = e} = {p}
  BY <1>1 DEF Distinct
<1>3. RemoveFirst(s, e) = RemoveAt(s, p)
  <2>1. SelectInSeq(s, LAMBDA v : v = e) = p
    BY <1>2 DEF SelectInSeq, Min
  <2> QED
    BY <1>1, <2>1 DEF RemoveFirst
<1> DEFINE a == SubSeq(s, 1, p - 1)
<1> DEFINE b == SubSeq(s, p + 1, Len(s))
<1>4. a \in Seq(S) /\ Len(a) = p - 1 /\ \A i \in 1..(p - 1) : a[i] = s[i]
  BY <1>1
<1>5. /\ b \in Seq(S) /\ Len(b) = Len(s) - p
      /\ \A i \in 1..(Len(s) - p) : b[i] = s[p + i]
  BY <1>1
<1>6. RemoveAt(s, p) = a \o b
  BY DEF RemoveAt
<1> HIDE DEF a, b
<1>7. /\ a \o b \in Seq(S) /\ Len(a \o b) = Len(a) + Len(b)
      /\ \A i \in 1..(Len(a) + Len(b)) :
           (a \o b)[i] = IF i <= Len(a) THEN a[i] ELSE b[i - Len(a)]
  BY ONLY <1>4, <1>5, ConcatProperties, Zenon
<1>8. a \o b \in Seq(S) /\ Len(a \o b) = Len(s) - 1
  BY <1>4, <1>5, <1>7
<1>9. ASSUME NEW i \in 1..(Len(s) - 1)
      PROVE  /\ i < p => (a \o b)[i] = s[i]
             /\ i >= p => (a \o b)[i] = s[i + 1]
  <2>1. CASE i < p
    BY <1>4, <1>5, <1>7, <2>1
  <2>2. CASE i >= p
    <3>1. (a \o b)[i] = b[i - (p - 1)]
      <4>1. Len(s) \in Nat /\ p \in 1..Len(s) /\ i \in 1..(Len(s) - 1)
        OBVIOUS
      <4>2. i \in 1..(Len(a) + Len(b)) /\ i > Len(a) /\ i - Len(a) = i - (p - 1)
        BY ONLY <1>4, <1>5, <2>2, <4>1
      <4> QED
        BY ONLY <1>7, <4>2
    <3>2. i - (p - 1) \in 1..(Len(s) - p)
      BY <2>2
    <3> QED
      BY <1>5, <2>2, <3>1, <3>2
  <2> QED
    BY <2>1, <2>2
<1> QED
  BY <1>1, <1>3, <1>6, <1>8, <1>9

\* Without an element of it, a distinct sequence stays distinct and has the
\* other elements.
LEMMA RemoveFirstDistinct ==
  ASSUME NEW S, NEW s \in Seq(S), NEW e, Distinct(s), e \in Range(s)
  PROVE  /\ Distinct(RemoveFirst(s, e))
         /\ Range(RemoveFirst(s, e)) = Range(s) \ {e}
<1> DEFINE r == RemoveFirst(s, e)
<1>1. PICK p \in 1..Len(s) :
        /\ s[p] = e
        /\ r \in Seq(S)
        /\ Len(r) = Len(s) - 1
        /\ \A i \in 1..(Len(s) - 1) :
             (i < p => r[i] = s[i]) /\ (i >= p => r[i] = s[i + 1])
  BY RemoveFirstFacts
<1> HIDE DEF r
<1>2. Distinct(r)
  BY <1>1 DEF Distinct
<1>3. {r[i] : i \in 1..Len(r)} = {s[i] : i \in 1..Len(s)} \ {e}
  <2>1. ASSUME NEW i \in 1..Len(r)
        PROVE  r[i] \in {s[j] : j \in 1..Len(s)} \ {e}
    BY <1>1 DEF Distinct
  <2>2. ASSUME NEW i \in 1..Len(s), s[i] # e
        PROVE  s[i] \in {r[j] : j \in 1..Len(r)}
    <3>1. CASE i < p
      BY <1>1, <3>1
    <3>2. CASE i > p
      <4>1. i - 1 \in 1..Len(r) /\ r[i - 1] = s[i]
        BY <1>1, <3>2
      <4> QED
        BY <4>1
    <3> QED
      BY <1>1, <2>2, <3>1, <3>2
  <2> QED
    BY <2>1, <2>2
<1>4. Range(r) = {r[i] : i \in 1..Len(r)}
  BY <1>1, RangeOf
<1>5. Range(s) = {s[i] : i \in 1..Len(s)}
  BY RangeOf
<1>6. Distinct(r) /\ Range(r) = Range(s) \ {e}
  BY ONLY <1>2, <1>3, <1>4, <1>5, Zenon
<1> QED
  BY ONLY <1>6 DEF r

\* Without its last element, a distinct sequence stays distinct and has the
\* other elements.
LEMMA FrontDistinct ==
  ASSUME NEW S, NEW s \in Seq(S), Distinct(s), s # <<>>
  PROVE  LET f == SubSeq(s, 1, Len(s) - 1)
         IN  /\ f \in Seq(S) /\ Len(f) = Len(s) - 1
             /\ \A i \in 1..(Len(s) - 1) : f[i] = s[i]
             /\ Distinct(f)
             /\ s[Len(s)] \in Range(s)
             /\ Range(f) = Range(s) \ {s[Len(s)]}
<1> DEFINE f == SubSeq(s, 1, Len(s) - 1)
<1>0. Len(s) \in 1..Len(s)
  OBVIOUS
<1>1. /\ f \in Seq(S) /\ Len(f) = Len(s) - 1
      /\ \A i \in 1..(Len(s) - 1) : f[i] = s[i]
      /\ Len(s) \in 1..Len(s)
  <2>1. PICK n \in Nat : n = Len(s) - 1
    BY <1>0
  <2>2. \A i \in 1..n : s[i] \in S
    BY <2>1
  <2>3. /\ SubSeq(s, 1, n) \in Seq(S) /\ Len(SubSeq(s, 1, n)) = n
        /\ \A i \in 1..n : SubSeq(s, 1, n)[i] = s[i]
    BY <2>2
  <2> QED
    BY <1>0, <2>1, <2>3
<1> HIDE DEF f
<1>2. Distinct(f)
  BY <1>1 DEF Distinct
<1>3. {f[i] : i \in 1..(Len(s) - 1)} = {s[i] : i \in 1..Len(s)} \ {s[Len(s)]}
  <2>1. ASSUME NEW i \in 1..(Len(s) - 1)
        PROVE  f[i] \in {s[j] : j \in 1..Len(s)} \ {s[Len(s)]}
    <3>1. i \in 1..Len(s) /\ i # Len(s) /\ f[i] = s[i]
      BY <1>1
    <3> QED
      BY <1>1, <3>1 DEF Distinct
  <2>2. ASSUME NEW i \in 1..Len(s), s[i] # s[Len(s)]
        PROVE  s[i] \in {f[j] : j \in 1..(Len(s) - 1)}
    <3>1. i \in 1..(Len(s) - 1)
      BY <1>1, <2>2
    <3> QED
      BY <1>1, <3>1
  <2> QED
    BY <2>1, <2>2
<1>4. Range(f) = {f[i] : i \in 1..(Len(s) - 1)}
  BY <1>1, RangeOf
<1>5. Range(s) = {s[i] : i \in 1..Len(s)}
  BY RangeOf
<1> QED
  BY <1>1, <1>2, <1>3, <1>4, <1>5 DEF f

-----------------------------------------------------------------------------
(* Maps *)

\* Maps from some of the keys to values.
Map == UNION {[S -> V] : S \in SUBSET Key}

LEMMA MapFacts ==
  ASSUME NEW map \in Map
  PROVE  DOMAIN map \in SUBSET Key /\ map \in [DOMAIN map -> V]
BY DEF Map

\* What assigning, inserting and erasing make of a map.
LEMMA MapSteps ==
  ASSUME NEW map \in Map, NEW key \in Key, NEW value \in V, NEW keys
  PROVE  /\ Assign(map, key, value) \in Map
         /\ DOMAIN Assign(map, key, value) = DOMAIN map \cup {key}
         /\ Insert(map, key, value) \in Map
         /\ DOMAIN Insert(map, key, value) = DOMAIN map \cup {key}
         /\ Erase(map, keys) \in Map
         /\ DOMAIN Erase(map, keys) = DOMAIN map \ keys
<1>1. DOMAIN map \in SUBSET Key /\ map \in [DOMAIN map -> V]
  BY MapFacts
<1>2. /\ Assign(map, key, value) \in [DOMAIN map \cup {key} -> V]
      /\ DOMAIN map \cup {key} \in SUBSET Key
  BY <1>1 DEF Assign
<1>3. /\ Erase(map, keys) \in [DOMAIN map \ keys -> V]
      /\ DOMAIN map \ keys \in SUBSET Key
  BY <1>1 DEF Erase
<1> QED
  BY <1>2, <1>3 DEF Map, Insert

-----------------------------------------------------------------------------
(* List, map and counter *)

\* What update and erasing the tail make of the list.
LEMMA UpdateStep ==
  ASSUME NEW key \in Range(m_cacheList), m_cacheList \in Seq(Key),
         Distinct(m_cacheList)
  PROVE  /\ Update(key) \in Seq(Key)
         /\ Len(Update(key)) = Len(m_cacheList)
         /\ Distinct(Update(key))
         /\ Range(Update(key)) = Range(m_cacheList)
<1> DEFINE r == RemoveFirst(m_cacheList, key)
<1>1. r \in Seq(Key) /\ Len(r) = Len(m_cacheList) - 1
  BY RemoveFirstFacts
<1>2. Distinct(r) /\ Range(r) = Range(m_cacheList) \ {key}
  BY RemoveFirstDistinct
<1>3. key \in Key
  BY RangeOf
<1> HIDE DEF r
<1>4. /\ Cons(key, r) \in Seq(Key) /\ Len(Cons(key, r)) = Len(r) + 1
      /\ Distinct(Cons(key, r)) /\ Range(Cons(key, r)) = Range(r) \cup {key}
  <2>1. Cons(key, r) \in Seq(Key) /\ Len(Cons(key, r)) = Len(r) + 1
    BY <1>1, <1>3, ConsFacts
  <2>2. Distinct(Cons(key, r)) /\ Range(Cons(key, r)) = Range(r) \cup {key}
    BY <1>1, <1>2, <1>3, ConsDistinct
  <2> QED
    BY <2>1, <2>2
<1>5. Len(r) + 1 = Len(m_cacheList)
  BY <1>1
<1>6. Update(key) = Cons(key, r)
  BY DEF Update, r
<1> QED
  BY <1>2, <1>4, <1>5, <1>6

\* The key at the tail.
LEMMA TailFacts ==
  ASSUME m_cacheList \in Seq(Key)
  PROVE  TailKey = IF m_cacheList = <<>> THEN {} ELSE {m_cacheList[Len(m_cacheList)]}
<1>1. CASE m_cacheList = <<>>
  BY <1>1 DEF TailKey
<1>2. CASE m_cacheList # <<>>
  <2>1. Len(m_cacheList) # 0
    BY <1>2
  <2>2. {Len(m_cacheList)} \ {0} = {Len(m_cacheList)}
    BY <2>1
  <2> QED
    BY <1>2, <2>2 DEF TailKey
<1> QED
  BY <1>1, <1>2

\* TypeOK and Consistent, and what makes them inductive: a cache without room
\* for a key is empty until the push that erases its tail.
CacheInv ==
  /\ TypeOK
  /\ ~ub =>
       /\ Distinct(m_cacheList)
       /\ DOMAIN m_cacheMap = Range(m_cacheList)
       /\ m_sizeCounter = Len(m_cacheList)
       /\ m_maxSize <= 0 => m_sizeCounter = 0
  /\ m_maxSize > 0 => m_sizeCounter <= m_maxSize /\ ~ub

LEMMA CacheInvMeans ==
  /\ CacheInv => TypeOK /\ Consistent
  /\ CacheInv => m_cacheMap \in Map
BY DEF CacheInv, Consistent, Distinct, TypeOK, Map

LEMMA OldKeeps ==
  ASSUME CacheInv, ~ub, NEW key \in Key, NEW value \in V, PushOld(key, value)
  PROVE  CacheInv'
<1>1. /\ m_cacheList' = Update(key) /\ Len(Update(key)) = Len(m_cacheList)
      /\ Update(key) \in Seq(Key) /\ Distinct(Update(key))
      /\ Range(Update(key)) = Range(m_cacheList)
  BY UpdateStep DEF PushOld, CacheInv, TypeOK
<1>2. /\ m_cacheMap' \in Map
      /\ DOMAIN m_cacheMap' = DOMAIN m_cacheMap \cup {key}
  BY MapSteps, CacheInvMeans DEF PushOld
<1>3. DOMAIN m_cacheMap' = Range(m_cacheList')
  BY <1>1, <1>2 DEF PushOld, CacheInv
<1>4. TypeOK'
  BY <1>1, <1>2 DEF PushOld, CacheInv, TypeOK, Uses, Map
<1> QED
  BY <1>1, <1>3, <1>4 DEF CacheInv, PushOld

LEMMA NewKeeps ==
  ASSUME CacheInv, ~ub, NEW key \in Key, NEW value \in V, PushNew(key, value)
  PROVE  CacheInv'
<1>1. /\ m_cacheList \in Seq(Key) /\ Distinct(m_cacheList)
      /\ DOMAIN m_cacheMap = Range(m_cacheList)
      /\ m_sizeCounter = Len(m_cacheList) /\ m_maxSize \in Int
      /\ m_maxSize <= 0 => m_sizeCounter = 0
  BY CacheAssumption DEF CacheInv, TypeOK
<1>2. /\ key \notin Range(m_cacheList) /\ m_cacheList' = Cons(key, m_cacheList)
      /\ m_cacheMap' = Insert(m_cacheMap, key, value)
      /\ m_sizeCounter' = m_sizeCounter + 1 /\ m_sizeCounter + 1 <= m_maxSize
      /\ ub' = ub
  BY DEF PushNew
<1>3. /\ m_cacheList' \in Seq(Key) /\ Len(m_cacheList') = Len(m_cacheList) + 1
  BY <1>1, <1>2, ConsFacts
<1>4. /\ Distinct(m_cacheList')
      /\ Range(m_cacheList') = Range(m_cacheList) \cup {key}
  BY <1>1, <1>2, ConsDistinct
<1>5. /\ m_cacheMap' \in Map
      /\ DOMAIN m_cacheMap' = DOMAIN m_cacheMap \cup {key}
  BY <1>2, MapSteps, CacheInvMeans
<1>6. TypeOK'
  <2>1. m_sizeCounter' \in Int
    BY <1>2 DEF CacheInv, TypeOK
  <2>2. since' \in SUBSET Key /\ held' \in Key \cup {nullptr}
    BY DEF PushNew, Uses, CacheInv, TypeOK
  <2>3. result' \in V \cup {nullptr} /\ valid' \in BOOLEAN /\ ub' \in BOOLEAN
    BY DEF PushNew, CacheInv, TypeOK
  <2>4. \E S \in SUBSET Key : m_cacheMap' \in [S -> V]
    BY <1>5 DEF Map
  <2> QED
    BY <1>3, <2>1, <2>2, <2>3, <2>4 DEF TypeOK
<1>7. Len(m_cacheList) \in Nat
  BY <1>1
<1>8. /\ m_sizeCounter' = Len(m_cacheList')
      /\ m_sizeCounter' <= m_maxSize /\ m_maxSize > 0
  BY <1>1, <1>2, <1>3, <1>7
<1>9. DOMAIN m_cacheMap' = Range(m_cacheList')
  BY <1>1, <1>4, <1>5
<1> QED
  BY <1>1, <1>2, <1>4, <1>6, <1>8, <1>9 DEF CacheInv

LEMMA FullKeeps ==
  ASSUME CacheInv, ~ub, NEW key \in Key, NEW value \in V, PushFull(key, value)
  PROVE  CacheInv'
<1> DEFINE f == SubSeq(m_cacheList, 1, Len(m_cacheList) - 1)
<1>1. /\ m_cacheList \in Seq(Key) /\ Distinct(m_cacheList)
      /\ DOMAIN m_cacheMap = Range(m_cacheList)
      /\ m_sizeCounter = Len(m_cacheList) /\ m_maxSize \in Int
      /\ m_sizeCounter + 1 > m_maxSize /\ key \notin Range(m_cacheList)
  BY CacheAssumption DEF CacheInv, TypeOK, PushFull
<1>2. /\ f \in Seq(Key) /\ Distinct(f)
      /\ Range(f) = Range(m_cacheList) \ TailKey
      /\ m_cacheList # <<>> => Len(f) = Len(m_cacheList) - 1
  <2>1. CASE m_cacheList = <<>>
    <3>1. f = <<>> /\ TailKey = {} /\ Range(<<>>) = {}
      BY <1>1, <2>1, TailFacts DEF Range
    <3> HIDE DEF f
    <3>2. f \in Seq(Key) /\ Distinct(f)
      <4>1. <<>> \in Seq(Key) /\ Distinct(<<>>)
        BY DEF Distinct
      <4> QED
        BY <3>1, <4>1
    <3> QED
      BY <2>1, <3>1, <3>2
  <2>2. CASE m_cacheList # <<>>
    BY <1>1, <2>2, FrontDistinct, TailFacts
  <2> QED
    BY <2>1, <2>2
<1>3. m_cacheList' = Cons(key, f)
  BY DEF PushFull
<1> HIDE DEF f
<1>4. /\ m_cacheList' \in Seq(Key) /\ Len(m_cacheList') = Len(f) + 1
      /\ Distinct(m_cacheList') /\ Range(m_cacheList') = Range(f) \cup {key}
  <2>1. key \notin Range(f)
    BY <1>1, <1>2
  <2>2. m_cacheList' \in Seq(Key) /\ Len(m_cacheList') = Len(f) + 1
    BY <1>2, <1>3, ConsFacts
  <2>3. Distinct(m_cacheList') /\ Range(m_cacheList') = Range(f) \cup {key}
    BY <1>2, <1>3, <2>1, ConsDistinct
  <2> QED
    BY <2>2, <2>3
<1>5. /\ m_cacheMap' \in Map
      /\ DOMAIN m_cacheMap' = (DOMAIN m_cacheMap \ TailKey) \cup {key}
  <2> DEFINE e == Erase(m_cacheMap, TailKey)
  <2>1. e \in Map /\ DOMAIN e = DOMAIN m_cacheMap \ TailKey
    BY MapSteps, CacheInvMeans
  <2>2. m_cacheMap' = Insert(e, key, value)
    BY DEF PushFull
  <2> HIDE DEF e
  <2>3. /\ Insert(e, key, value) \in Map
        /\ DOMAIN Insert(e, key, value) = DOMAIN e \cup {key}
    BY <2>1, MapSteps
  <2> QED
    BY <2>1, <2>2, <2>3
<1>6. TypeOK'
  BY <1>4, <1>5, CacheAssumption DEF PushFull, CacheInv, TypeOK, Uses, Map
<1>7. CASE m_cacheList = <<>>
  <2>1. ub' = TRUE
    BY <1>7 DEF PushFull
  <2>2. Len(m_cacheList) = 0
    BY <1>7
  <2>3. ~(m_maxSize > 0)
    BY <1>1, <2>2
  <2> QED
    BY <1>6, <2>1, <2>3 DEF CacheInv
<1>8. CASE m_cacheList # <<>>
  <2>1. Len(m_cacheList) > 0
    BY <1>1, <1>8
  <2>2. /\ m_maxSize <= 0 => Len(m_cacheList) = 0
        /\ m_maxSize > 0 => Len(m_cacheList) <= m_maxSize
    BY <1>1 DEF CacheInv
  <2>3. Len(m_cacheList) = m_maxSize
    BY <1>1, <2>1, <2>2
  <2>4. m_sizeCounter' = m_maxSize /\ Len(m_cacheList') = m_maxSize
    BY <1>2, <1>4, <1>8, <2>3 DEF PushFull
  <2>5. ub' = FALSE
    BY <1>8 DEF PushFull
  <2>6. DOMAIN m_cacheMap' = Range(m_cacheList')
    BY <1>1, <1>2, <1>4, <1>5
  <2>7. m_maxSize > 0
    BY <2>1, <2>3
  <2> QED
    BY <1>4, <1>6, <2>4, <2>5, <2>6, <2>7, <1>1 DEF CacheInv
<1> QED
  BY <1>7, <1>8

LEMMA HitKeeps ==
  ASSUME CacheInv, ~ub, NEW key \in Key, GetHit(key)
  PROVE  CacheInv'
<1>1. key \in Range(m_cacheList)
  BY DEF GetHit, CacheInv
<1>2. /\ m_cacheList' = Update(key) /\ Len(Update(key)) = Len(m_cacheList)
      /\ Update(key) \in Seq(Key) /\ Distinct(Update(key))
      /\ Range(Update(key)) = Range(m_cacheList)
  BY <1>1, UpdateStep DEF GetHit, CacheInv, TypeOK
<1>3. m_cacheMap[key] \in V
  BY CacheInvMeans, MapFacts DEF GetHit
<1>4. TypeOK'
  BY <1>2, <1>3 DEF GetHit, CacheInv, TypeOK
<1> QED
  BY <1>2, <1>4 DEF CacheInv, GetHit

LEMMA MissKeeps ==
  ASSUME CacheInv, NEW key \in Key, GetMiss(key)
  PROVE  CacheInv'
BY DEF GetMiss, cache, CacheInv, TypeOK, Distinct

LEMMA CacheInvHolds == Spec => []CacheInv
<1>1. Init => CacheInv
  <2> SUFFICES ASSUME Init
               PROVE  CacheInv
    OBVIOUS
  <2>1. m_cacheMap \in [{} -> V] /\ DOMAIN m_cacheMap = {} /\ Range(<<>>) = {}
    BY DEF Init, Range
  <2>2. TypeOK
    <3>1. \E S \in SUBSET Key : m_cacheMap \in [S -> V]
      BY <2>1
    <3>2. m_cacheList \in Seq(Key)
      BY DEF Init
    <3>3. valid \in BOOLEAN /\ ub \in BOOLEAN
      BY DEF Init
    <3>4. /\ since \in SUBSET Key /\ m_sizeCounter \in Int
          /\ result \in V \cup {nullptr} /\ held \in Key \cup {nullptr}
      BY DEF Init
    <3> QED
      BY <3>1, <3>2, <3>3, <3>4 DEF TypeOK
  <2> QED
    BY <2>1, <2>2, CacheAssumption DEF Init, CacheInv, Distinct
<1>2. CacheInv /\ [Next]_vars => CacheInv'
  <2> SUFFICES ASSUME CacheInv, [Next]_vars
               PROVE  CacheInv'
    OBVIOUS
  <2>1. CASE Next
    BY <2>1, OldKeeps, NewKeeps, FullKeeps, HitKeeps, MissKeeps DEF Next
  <2>2. CASE UNCHANGED vars
    BY <2>2 DEF vars, cache, CacheInv, TypeOK, Distinct
  <2> QED
    BY <2>1, <2>2
<1> QED
  BY <1>1, <1>2, PTL DEF Spec

\* Every variable has its type, whatever the size.
THEOREM TypeCorrect == Spec => []TypeOK
<1>1. CacheInv => TypeOK
  BY CacheInvMeans
<1> QED
  BY <1>1, CacheInvHolds, PTL

\* In a cache of any size list, map and counter agree, and no push on a cache
\* with room for a key erases the tail of an empty list.
THEOREM CacheIsConsistent == Spec => []Consistent
<1>1. CacheInv => Consistent
  BY CacheInvMeans
<1> QED
  BY <1>1, CacheInvHolds, PTL

-----------------------------------------------------------------------------
(* Order *)

\* What is before what in the sequence new was before it in old, but for key,
\* which is before everything.
OrderKept(new, old, key) ==
  \A i, j \in 1..Len(new) : i < j =>
    \/ new[i] = key
    \/ \E a, b \in 1..Len(old) : a < b /\ old[a] = new[i] /\ old[b] = new[j]

LEMMA ConsOrder ==
  ASSUME NEW S, NEW s \in Seq(S), NEW old \in Seq(S), NEW e \in S,
         \A i, j \in 1..Len(s) : i < j =>
           \E a, b \in 1..Len(old) : a < b /\ old[a] = s[i] /\ old[b] = s[j]
  PROVE  OrderKept(Cons(e, s), old, e)
<1>0. /\ Cons(e, s) \in Seq(S)
      /\ Len(Cons(e, s)) = Len(s) + 1
      /\ Cons(e, s)[1] = e
      /\ \A i \in 2..(Len(s) + 1) : Cons(e, s)[i] = s[i - 1]
  BY ONLY s \in Seq(S), e \in S, ConsFacts
<1> DEFINE c == Cons(e, s)
<1> HIDE DEF c
<1>1. /\ c \in Seq(S) /\ Len(c) = Len(s) + 1 /\ c[1] = e
      /\ \A i \in 2..(Len(s) + 1) : c[i] = s[i - 1]
  BY <1>0 DEF c
<1>2. ASSUME NEW i \in 1..Len(c), NEW j \in 1..Len(c), i < j, i # 1
      PROVE  \E a, b \in 1..Len(old) : a < b /\ old[a] = c[i] /\ old[b] = c[j]
  <2>1. /\ i - 1 \in 1..Len(s) /\ j - 1 \in 1..Len(s) /\ i - 1 < j - 1
        /\ c[i] = s[i - 1] /\ c[j] = s[j - 1]
    BY <1>1, <1>2
  <2>2. PICK a \in 1..Len(old), b \in 1..Len(old) :
          a < b /\ old[a] = s[i - 1] /\ old[b] = s[j - 1]
    BY ONLY <2>1, \A p, q \in 1..Len(s) : p < q =>
              \E a, b \in 1..Len(old) : a < b /\ old[a] = s[p] /\ old[b] = s[q]
  <2> QED
    BY ONLY <2>1, <2>2
<1> QED
  BY <1>1, <1>2 DEF OrderKept, c

LEMMA UpdateOrder ==
  ASSUME NEW key \in Range(m_cacheList), m_cacheList \in Seq(Key),
         Distinct(m_cacheList)
  PROVE  OrderKept(Update(key), m_cacheList, key)
<1> DEFINE s == m_cacheList
<1> DEFINE r == RemoveFirst(m_cacheList, key)
<1>1. PICK p \in 1..Len(s) :
        /\ s[p] = key /\ r \in Seq(Key) /\ Len(r) = Len(s) - 1
        /\ \A i \in 1..(Len(s) - 1) :
             (i < p => r[i] = s[i]) /\ (i >= p => r[i] = s[i + 1])
  BY RemoveFirstFacts
<1>2. key \in Key
  BY RangeOf
<1>3. Update(key) = Cons(key, r)
  BY DEF Update
<1> HIDE DEF r
<1>4. ASSUME NEW i \in 1..Len(r), NEW j \in 1..Len(r), i < j
      PROVE  \E a, b \in 1..Len(s) : a < b /\ s[a] = r[i] /\ s[b] = r[j]
  <2>1. \E a \in {i, i + 1} : a \in 1..Len(s) /\ s[a] = r[i] /\ (a = i + 1 => i >= p)
    BY <1>1
  <2>2. PICK a \in {i, i + 1} : a \in 1..Len(s) /\ s[a] = r[i] /\ (a = i + 1 => i >= p)
    BY <2>1
  <2>3. CASE j < p
    <3>1. a = i /\ j \in 1..Len(s) /\ s[j] = r[j]
      BY <1>1, <1>4, <2>2, <2>3
    <3> QED
      BY <1>4, <2>2, <3>1
  <2>4. CASE j >= p
    <3>1. j + 1 \in 1..Len(s) /\ s[j + 1] = r[j] /\ a < j + 1
      BY <1>1, <1>4, <2>2, <2>4
    <3> QED
      BY <2>2, <3>1
  <2> QED
    BY <1>1, <2>3, <2>4
<1>5. OrderKept(Cons(key, r), s, key)
  BY <1>1, <1>2, <1>4, ConsOrder
<1> QED
  BY <1>3, <1>5

-----------------------------------------------------------------------------
(* The pointer *)

\* While the caller's pointer is good its key is in the list, and the keys
\* before it have all been used since.
HeldInv ==
  /\ IsFiniteSet(since)
  /\ held # nullptr /\ ~valid => Cardinality(since) >= m_maxSize
  /\ held # nullptr /\ valid =>
       /\ held \in Range(m_cacheList)
       /\ \A i, j \in 1..Len(m_cacheList) :
            i < j /\ m_cacheList[j] = held => m_cacheList[i] \in since

LEMMA SinceGrows ==
  ASSUME IsFiniteSet(since), NEW key \in Key, Uses(key)
  PROVE  /\ IsFiniteSet(since')
         /\ since \subseteq since'
         /\ Cardinality(since) \in Nat /\ Cardinality(since') \in Nat
         /\ Cardinality(since) <= Cardinality(since')
         /\ key # held => key \in since'
<1>1. since' = since \/ since' = since \cup {key}
  BY DEF Uses
<1>2. IsFiniteSet(since')
  BY <1>1, FS_AddElement
<1>3. since \in SUBSET since'
  BY <1>1
<1> QED
  BY <1>2, <1>3, FS_Subset, FS_CardinalityType DEF Uses

\* A step that puts key on top and keeps the pointer good.
LEMMA OrderKeeps ==
  ASSUME HeldInv, NEW key \in Key, Uses(key), held' = held, valid' = valid,
         held # nullptr, valid,
         Range(m_cacheList) \subseteq Range(m_cacheList'), Distinct(m_cacheList'),
         OrderKept(m_cacheList', m_cacheList, key)
  PROVE  HeldInv'
<1>1. /\ IsFiniteSet(since') /\ since \subseteq since'
      /\ key # held => key \in since'
  BY SinceGrows DEF HeldInv
<1>2. ASSUME NEW i \in 1..Len(m_cacheList'), NEW j \in 1..Len(m_cacheList'),
             i < j, m_cacheList'[j] = held
      PROVE  m_cacheList'[i] \in since'
  <2>1. CASE m_cacheList'[i] = key
    <3>1. key # held
      BY <1>2, <2>1 DEF Distinct
    <3> QED
      BY <1>1, <2>1, <3>1
  <2>2. ASSUME NEW a \in 1..Len(m_cacheList), NEW b \in 1..Len(m_cacheList),
               a < b, m_cacheList[a] = m_cacheList'[i], m_cacheList[b] = held
        PROVE  m_cacheList'[i] \in since'
    BY <1>1, <2>2 DEF HeldInv
  <2> QED
    BY <1>2, <2>1, <2>2 DEF OrderKept
<1> QED
  BY <1>1, <1>2 DEF HeldInv

\* A step that leaves a pointer that is no longer good, or none, as it is.
LEMMA LostKeeps ==
  ASSUME HeldInv, NEW key \in Key, Uses(key), held' = held, valid' = valid,
         held = nullptr \/ ~valid
  PROVE  HeldInv'
BY SinceGrows, CacheAssumption DEF HeldInv

\* The key that goes is the one of the pointer: the whole list is then of keys
\* used since.
LEMMA EvictKeeps ==
  ASSUME CacheInv, CacheInv', HeldInv, ~ub, NEW key \in Key, NEW value \in V,
         PushFull(key, value)
  PROVE  HeldInv'
<1> DEFINE f == SubSeq(m_cacheList, 1, Len(m_cacheList) - 1)
<1>1. /\ m_cacheList \in Seq(Key) /\ Distinct(m_cacheList)
      /\ key \notin Range(m_cacheList) /\ Uses(key) /\ held' = held
      /\ m_maxSize \in Int
  BY CacheAssumption DEF CacheInv, TypeOK, PushFull
<1>2. /\ IsFiniteSet(since') /\ since \subseteq since'
      /\ key # held => key \in since'
      /\ Cardinality(since') \in Nat /\ Cardinality(since) \in Nat
      /\ Cardinality(since) <= Cardinality(since')
  BY <1>1, SinceGrows DEF HeldInv
<1>3. CASE held = nullptr \/ ~valid
  <2>1. held' = nullptr \/ ~valid'
    BY <1>1, <1>3 DEF PushFull
  <2>2. held # nullptr /\ ~valid => Cardinality(since) >= m_maxSize
    BY DEF HeldInv
  <2> QED
    BY <1>1, <1>2, <1>3, <2>1, <2>2 DEF HeldInv
<1>4. CASE held # nullptr /\ valid
  <2>1. /\ held \in Range(m_cacheList)
        /\ \A i, j \in 1..Len(m_cacheList) :
             i < j /\ m_cacheList[j] = held => m_cacheList[i] \in since
    BY <1>4 DEF HeldInv
  <2>2. m_cacheList # <<>>
    BY <2>1 DEF Range
  <2>3. /\ f \in Seq(Key) /\ Len(f) = Len(m_cacheList) - 1
        /\ \A i \in 1..(Len(m_cacheList) - 1) : f[i] = m_cacheList[i]
        /\ Distinct(f)
        /\ Range(f) = Range(m_cacheList) \ {m_cacheList[Len(m_cacheList)]}
    BY <1>1, <2>2, FrontDistinct
  <2>4. TailKey = {m_cacheList[Len(m_cacheList)]}
    BY <1>1, <2>2, TailFacts
  <2>5. m_cacheList' = Cons(key, f)
    BY DEF PushFull
  <2> HIDE DEF f
  <2>6. key # held /\ key \notin Range(f)
    BY <1>1, <2>1, <2>3
  <2>7. Len(m_cacheList) \in Nat /\ Len(m_cacheList) # 0
    BY <1>1, <2>2
  <2>8. CASE held \in TailKey
    <3>1. /\ m_cacheList'[1] = key /\ Len(m_cacheList') = Len(f) + 1
          /\ \A i \in 2..(Len(f) + 1) : m_cacheList'[i] = f[i - 1]
      <4>1. /\ Cons(key, f)[1] = key /\ Len(Cons(key, f)) = Len(f) + 1
            /\ \A i \in 2..(Len(f) + 1) : Cons(key, f)[i] = f[i - 1]
        BY ONLY <2>3, key \in Key, ConsFacts
      <4> QED
        BY <2>5, <4>1
    <3>2. Len(m_cacheList') = Len(m_cacheList)
      BY <2>3, <2>7, <3>1
    <3>3. ASSUME NEW i \in 1..Len(m_cacheList')
          PROVE  m_cacheList'[i] \in since'
      <4>1. CASE i = 1
        BY <1>2, <2>6, <3>1, <4>1
      <4>2. CASE i # 1
        <5>1. /\ i - 1 \in 1..(Len(m_cacheList) - 1)
              /\ m_cacheList'[i] = m_cacheList[i - 1]
          BY <2>3, <2>7, <3>1, <3>2, <4>2
        <5>2. /\ i - 1 \in 1..Len(m_cacheList) /\ i - 1 < Len(m_cacheList)
              /\ Len(m_cacheList) \in 1..Len(m_cacheList)
          BY <2>7, <5>1
        <5>3. m_cacheList[i - 1] \in since
          BY <2>1, <2>4, <2>8, <5>2
        <5> QED
          BY <1>2, <5>1, <5>3
      <4> QED
        BY <4>1, <4>2
    <3>4. Distinct(m_cacheList')
      BY <1>1, <2>3, <2>5, <2>6, ConsDistinct
    <3> DEFINE g == [i \in 1..Len(m_cacheList') |-> m_cacheList'[i]]
    <3>5. g \in Injection(1..Len(m_cacheList'), since')
      BY <3>3, <3>4 DEF Injection, IsInjective, Distinct
    <3>6. Cardinality(1..Len(m_cacheList')) <= Cardinality(since')
      BY <1>2, <3>5, FS_Injection
    <3>7. Cardinality(1..Len(m_cacheList')) = Len(m_cacheList')
      <4>1. PICK n \in Nat : n = Len(m_cacheList')
        BY <2>7, <3>2
      <4>2. Cardinality(1..n) = n
        BY ONLY n \in Nat, FS_Interval
      <4> QED
        BY <4>1, <4>2
    <3>8. Len(m_cacheList') = m_maxSize
      <4>1. ub' = FALSE
        BY <2>2 DEF PushFull
      <4>2. m_sizeCounter' = Len(m_cacheList')
        BY <4>1 DEF CacheInv
      <4> QED
        BY <4>2 DEF PushFull
    <3>9. Cardinality(since') >= m_maxSize
      BY <1>1, <1>2, <3>6, <3>7, <3>8
    <3>10. ~valid'
      BY <2>8 DEF PushFull
    <3> QED
      BY <1>2, <3>9, <3>10 DEF HeldInv
  <2>9. CASE held \notin TailKey
    <3>1. valid'
      BY <1>4, <2>9 DEF PushFull
    <3>2. Distinct(m_cacheList') /\ Range(m_cacheList') = Range(f) \cup {key}
      BY <1>1, <2>3, <2>5, <2>6, ConsDistinct
    <3>3. held \in Range(m_cacheList')
      BY <2>1, <2>3, <2>4, <2>9, <3>2
    <3>4. OrderKept(m_cacheList', m_cacheList, key)
      <4>1. ASSUME NEW i \in 1..Len(f), NEW j \in 1..Len(f), i < j
            PROVE  \E a, b \in 1..Len(m_cacheList) :
                     a < b /\ m_cacheList[a] = f[i] /\ m_cacheList[b] = f[j]
        <5>1. /\ i \in 1..Len(m_cacheList) /\ f[i] = m_cacheList[i]
              /\ j \in 1..Len(m_cacheList) /\ f[j] = m_cacheList[j]
          BY <2>3, <2>7
        <5> QED
          BY <4>1, <5>1
      <4> QED
        BY <1>1, <2>3, <2>5, <4>1, ConsOrder
    <3>5. ASSUME NEW i \in 1..Len(m_cacheList'), NEW j \in 1..Len(m_cacheList'),
                 i < j, m_cacheList'[j] = held
          PROVE  m_cacheList'[i] \in since'
      <4>1. CASE m_cacheList'[i] = key
        BY <1>2, <2>6, <4>1
      <4>2. ASSUME NEW a \in 1..Len(m_cacheList), NEW b \in 1..Len(m_cacheList),
                   a < b, m_cacheList[a] = m_cacheList'[i], m_cacheList[b] = held
            PROVE  m_cacheList'[i] \in since'
        BY <1>2, <2>1, <4>2
      <4> QED
        BY <3>4, <3>5, <4>1, <4>2 DEF OrderKept
    <3> QED
      BY <1>1, <1>2, <3>1, <3>3, <3>5 DEF HeldInv
  <2> QED
    BY <2>8, <2>9
<1> QED
  BY <1>3, <1>4

\* The other steps.
LEMMA OthersKeep ==
  ASSUME CacheInv, CacheInv', HeldInv, ~ub, NEW key \in Key, NEW value \in V,
         PushOld(key, value) \/ PushNew(key, value)
  PROVE  HeldInv'
<1>1. /\ m_cacheList \in Seq(Key) /\ Distinct(m_cacheList)
      /\ Uses(key) /\ held' = held /\ valid' = valid /\ ub' = ub
  BY DEF CacheInv, TypeOK, PushOld, PushNew
<1>2. CASE held = nullptr \/ ~valid
  BY <1>1, <1>2, LostKeeps
<1>3. CASE held # nullptr /\ valid
  <2>1. CASE PushOld(key, value)
    <3>1. key \in Range(m_cacheList) /\ m_cacheList' = Update(key)
      BY <2>1 DEF PushOld
    <3>2. /\ Distinct(m_cacheList') /\ Range(m_cacheList') = Range(m_cacheList)
          /\ OrderKept(m_cacheList', m_cacheList, key)
      BY <1>1, <3>1, UpdateStep, UpdateOrder
    <3> QED
      BY <1>1, <1>3, <3>2, OrderKeeps
  <2>2. CASE PushNew(key, value)
    <3>1. key \notin Range(m_cacheList) /\ m_cacheList' = Cons(key, m_cacheList)
      BY <2>2 DEF PushNew
    <3>2. /\ Distinct(m_cacheList')
          /\ Range(m_cacheList') = Range(m_cacheList) \cup {key}
      BY <1>1, <3>1, ConsDistinct
    <3>3. OrderKept(m_cacheList', m_cacheList, key)
      BY <1>1, <3>1, ConsOrder
    <3> QED
      BY <1>1, <1>3, <3>2, <3>3, OrderKeeps
  <2> QED
    BY <2>1, <2>2
<1> QED
  BY <1>2, <1>3

LEMMA GetKeeps ==
  ASSUME CacheInv, HeldInv, ~ub, NEW key \in Key, GetHit(key) \/ GetMiss(key)
  PROVE  HeldInv'
<1>1. CASE GetHit(key)
  <2>1. key \in Range(m_cacheList) /\ m_cacheList \in Seq(Key) /\ Distinct(m_cacheList)
    BY <1>1 DEF GetHit, CacheInv, TypeOK
  <2>2. /\ m_cacheList' = Update(key) /\ held' = key /\ valid' = TRUE /\ since' = {}
    BY <1>1 DEF GetHit
  <2>3. /\ Distinct(m_cacheList') /\ Range(m_cacheList') = Range(m_cacheList)
    BY <2>1, <2>2, UpdateStep
  <2>4. m_cacheList'[1] = key /\ Len(m_cacheList') \in Nat
    <3> DEFINE r == RemoveFirst(m_cacheList, key)
    <3>1. r \in Seq(Key)
      BY <2>1, RemoveFirstFacts
    <3>2. m_cacheList' = Cons(key, r)
      BY <2>2 DEF Update
    <3> HIDE DEF r
    <3>3. Cons(key, r)[1] = key /\ Cons(key, r) \in Seq(Key)
      BY ONLY <3>1, key \in Key, ConsFacts
    <3> QED
      BY <3>2, <3>3
  <2>5. ASSUME NEW i \in 1..Len(m_cacheList'), NEW j \in 1..Len(m_cacheList'),
               i < j, m_cacheList'[j] = key
        PROVE  FALSE
    <3>1. 1 \in 1..Len(m_cacheList') /\ j # 1
      BY <2>4, <2>5
    <3> QED
      BY <2>3, <2>4, <2>5, <3>1 DEF Distinct
  <2>6. IsFiniteSet(since')
    BY <2>2, FS_EmptySet
  <2> QED
    BY <2>1, <2>2, <2>3, <2>5, <2>6 DEF HeldInv
<1>2. CASE GetMiss(key)
  BY <1>2 DEF GetMiss, cache, HeldInv
<1> QED
  BY <1>1, <1>2

\* In a cache of any size, the pointer get returns is good until as many other
\* keys have been used as the cache has room for.
THEOREM PointerLastsLong == Spec => []PointerLasts
<1>1. Init => HeldInv
  BY FS_EmptySet DEF Init, HeldInv
<1>2. CacheInv /\ CacheInv' /\ HeldInv /\ [Next]_vars => HeldInv'
  <2> SUFFICES ASSUME CacheInv, CacheInv', HeldInv, [Next]_vars
               PROVE  HeldInv'
    OBVIOUS
  <2>1. CASE Next
    BY <2>1, OthersKeep, EvictKeeps, GetKeeps DEF Next
  <2>2. CASE UNCHANGED vars
    BY <2>2 DEF vars, cache, HeldInv
  <2> QED
    BY <2>1, <2>2
<1>3. HeldInv => PointerLasts
  BY DEF HeldInv, PointerLasts
<1> QED
  BY <1>1, <1>2, <1>3, CacheInvHolds, PTL DEF Spec

-----------------------------------------------------------------------------
(* The abstract cache *)

\* <<a, b>>: a stands behind b in the sequence.
BehindIn(s) == {t \in Key \X Key : \E i, j \in 1..Len(s) : i > j /\ t = <<s[i], s[j]>>}

LEMMA OlderIs ==
  ASSUME m_cacheList \in Seq(Key)
  PROVE  Older = BehindIn(m_cacheList)
<1>1. Older \subseteq BehindIn(m_cacheList)
  BY DEF Older, Behind, BehindIn
<1>2. ASSUME NEW i \in 1..Len(m_cacheList), NEW j \in 1..Len(m_cacheList), i > j
      PROVE  <<m_cacheList[i], m_cacheList[j]>> \in Older
  <2>1. <<i, j>> \in Behind
    BY <1>2 DEF Behind
  <2> QED
    BY <2>1 DEF Older
<1> QED
  BY <1>1, <1>2 DEF BehindIn

\* Everything in the sequence is behind its new first element.
LEMMA ConsBehind ==
  ASSUME NEW s \in Seq(Key), NEW e \in Key
  PROVE  BehindIn(Cons(e, s)) = BehindIn(s) \cup (Range(s) \X {e})
<1>0. /\ Cons(e, s) \in Seq(Key)
      /\ Len(Cons(e, s)) = Len(s) + 1
      /\ Cons(e, s)[1] = e
      /\ \A i \in 2..(Len(s) + 1) : Cons(e, s)[i] = s[i - 1]
  BY ONLY s \in Seq(Key), e \in Key, ConsFacts
<1> DEFINE c == Cons(e, s)
<1> HIDE DEF c
<1>1. /\ c \in Seq(Key) /\ Len(c) = Len(s) + 1 /\ c[1] = e
      /\ \A k \in 2..(Len(s) + 1) : c[k] = s[k - 1]
  BY <1>0 DEF c
<1>2. Range(s) = {s[i] : i \in 1..Len(s)}
  BY RangeOf
<1>3. ASSUME NEW i \in 1..Len(c), NEW j \in 1..Len(c), i > j
      PROVE  <<c[i], c[j]>> \in BehindIn(s) \cup (Range(s) \X {e})
  <2>1. i - 1 \in 1..Len(s) /\ c[i] = s[i - 1] /\ s[i - 1] \in Key
    BY <1>1, <1>3
  <2>2. CASE j = 1
    BY <1>1, <1>2, <2>1, <2>2
  <2>3. CASE j # 1
    <3>1. j - 1 \in 1..Len(s) /\ c[j] = s[j - 1] /\ s[j - 1] \in Key /\ i - 1 > j - 1
      BY <1>1, <1>3, <2>3
    <3> QED
      BY <2>1, <3>1 DEF BehindIn
  <2> QED
    BY <2>2, <2>3
<1>4. ASSUME NEW i \in 1..Len(s), NEW j \in 1..Len(s), i > j
      PROVE  <<s[i], s[j]>> \in BehindIn(c)
  <2>1. i + 1 \in 1..Len(c) /\ c[i + 1] = s[i] /\ s[i] \in Key
    <3>1. i + 1 \in 2..(Len(s) + 1) /\ (i + 1) - 1 = i
      OBVIOUS
    <3>2. c[i + 1] = s[(i + 1) - 1]
      BY ONLY <1>1, <3>1
    <3>3. s[i] \in Key
      OBVIOUS
    <3>4. i + 1 \in 1..Len(c)
      BY <1>1
    <3> QED
      BY ONLY <3>1, <3>2, <3>3, <3>4
  <2>2. j + 1 \in 1..Len(c) /\ c[j + 1] = s[j] /\ s[j] \in Key
    <3>1. j + 1 \in 2..(Len(s) + 1) /\ (j + 1) - 1 = j
      OBVIOUS
    <3>2. c[j + 1] = s[(j + 1) - 1]
      BY ONLY <1>1, <3>1
    <3>3. s[j] \in Key
      OBVIOUS
    <3>4. j + 1 \in 1..Len(c)
      BY <1>1
    <3> QED
      BY ONLY <3>1, <3>2, <3>3, <3>4
  <2>3. i + 1 > j + 1
    BY <1>4
  <2> QED
    BY <2>1, <2>2, <2>3 DEF BehindIn
<1>5. ASSUME NEW i \in 1..Len(s)
      PROVE  <<s[i], e>> \in BehindIn(c)
  <2>1. /\ i + 1 \in 1..Len(c) /\ c[i + 1] = s[i] /\ s[i] \in Key
        /\ 1 \in 1..Len(c) /\ i + 1 > 1
    BY <1>1
  <2> QED
    BY <1>1, <2>1 DEF BehindIn
<1>6. BehindIn(c) \subseteq BehindIn(s) \cup (Range(s) \X {e})
  BY <1>3 DEF BehindIn
<1>7. BehindIn(s) \subseteq BehindIn(c)
  BY <1>4 DEF BehindIn
<1>8. Range(s) \X {e} \subseteq BehindIn(c)
  BY <1>2, <1>5
<1> QED
  BY <1>6, <1>7, <1>8 DEF c

\* r is s without its element at p.
Without(r, s, p) ==
  /\ r \in Seq(Key) /\ Len(r) = Len(s) - 1
  /\ \A i \in 1..(Len(s) - 1) :
       (i < p => r[i] = s[i]) /\ (i >= p => r[i] = s[i + 1])

\* Taking an element out keeps the order of the others.
LEMMA WithoutBehind ==
  ASSUME NEW s \in Seq(Key), Distinct(s), NEW p \in 1..Len(s),
         NEW r, Without(r, s, p), NEW kept, kept = Range(s) \ {s[p]}
  PROVE  BehindIn(r) = BehindIn(s) \cap (kept \X kept)
<1>0. Range(s) = {s[i] : i \in 1..Len(s)}
  BY RangeOf
<1> DEFINE at(i) == IF i < p THEN i ELSE i + 1
<1>1. ASSUME NEW i \in 1..Len(r)
      PROVE  /\ at(i) \in 1..Len(s) /\ at(i) # p /\ r[i] = s[at(i)]
             /\ r[i] \in kept /\ r[i] \in Key
  <2>1. at(i) \in 1..Len(s) /\ at(i) # p /\ r[i] = s[at(i)]
    BY DEF Without
  <2> QED
    BY <1>0, <2>1 DEF Distinct
<1>2. \A i, j \in 1..Len(r) : i > j => at(i) > at(j)
  BY DEF Without
<1>3. ASSUME NEW i \in 1..Len(r), NEW j \in 1..Len(r), i > j
      PROVE  <<r[i], r[j]>> \in BehindIn(s) \cap (kept \X kept)
  <2> HIDE DEF at
  <2>1. at(i) > at(j)
    BY <1>2, <1>3
  <2> QED
    BY <1>1, <2>1 DEF BehindIn
<1>4. ASSUME NEW i \in 1..Len(s), i # p
      PROVE  \E k \in 1..Len(r) : at(k) = i
  <2>1. CASE i < p
    <3>1. i \in 1..Len(r) /\ at(i) = i
      BY <2>1 DEF Without
    <3> QED
      BY <3>1
  <2>2. CASE i > p
    <3>1. i - 1 \in 1..Len(r) /\ at(i - 1) = i
      BY <2>2 DEF Without
    <3> QED
      BY <3>1
  <2> QED
    BY <1>4, <2>1, <2>2
<1>5. ASSUME NEW i \in 1..Len(s), NEW j \in 1..Len(s), i > j,
             s[i] \in kept, s[j] \in kept
      PROVE  <<s[i], s[j]>> \in BehindIn(r)
  <2>1. i # p /\ j # p
    BY <1>5
  <2>2. PICK a \in 1..Len(r) : at(a) = i
    BY <1>4, <2>1
  <2>3. PICK b \in 1..Len(r) : at(b) = j
    BY <1>4, <2>1
  <2>4. a > b
    BY <1>5, <2>2, <2>3
  <2> HIDE DEF at
  <2>5. r[a] = s[i] /\ r[b] = s[j] /\ r[a] \in Key /\ r[b] \in Key
    BY <1>1, <2>2, <2>3
  <2> QED
    BY <2>4, <2>5 DEF BehindIn
<1>6. BehindIn(r) \subseteq BehindIn(s) \cap (kept \X kept)
  BY <1>3 DEF BehindIn
<1>7. BehindIn(s) \cap (kept \X kept) \subseteq BehindIn(r)
  BY <1>5 DEF BehindIn
<1> QED
  BY <1>6, <1>7

\* A sequence without repetitions is as long as its range is large.
LEMMA DistinctCounts ==
  ASSUME NEW s \in Seq(Key), Distinct(s)
  PROVE  Cardinality(Range(s)) = Len(s)
<1> DEFINE f == [i \in 1..Len(s) |-> s[i]]
<1>1. Range(s) = {s[i] : i \in 1..Len(s)}
  BY RangeOf
<1>2. f \in [1..Len(s) -> Range(s)]
  BY <1>1
<1>3. f \in Bijection(1..Len(s), Range(s))
  BY <1>1, <1>2 DEF Distinct, Bijection, Injection, Surjection, IsInjective
<1>4. ExistsBijection(1..Len(s), Range(s)) /\ Len(s) \in Nat
  BY <1>3 DEF ExistsBijection
<1> QED
  BY <1>4, FS_CountingElements

\* A step that uses key and keeps, of the other keys, those of the list rest.
LEMMA UseStep ==
  ASSUME m_cacheList \in Seq(Key), m_cacheList' \in Seq(Key),
         NEW key \in Key, NEW rest \in Seq(Key), NEW kept, kept = Range(rest),
         m_cacheList' = Cons(key, rest),
         BehindIn(rest) = BehindIn(m_cacheList) \cap (kept \X kept)
  PROVE  AbstractLRU!Use(key, kept)
<1>1. Older = BehindIn(m_cacheList) /\ Older' = BehindIn(m_cacheList')
  <2>1. Older = BehindIn(m_cacheList)
    BY OlderIs
  <2>2. Older' = BehindIn(m_cacheList)'
    <3>1. (m_cacheList \in Seq(Key) => Older = BehindIn(m_cacheList))'
      BY OlderIs, PTL
    <3> QED
      BY <3>1
  <2>3. BehindIn(m_cacheList)' = BehindIn(m_cacheList')
    BY DEF BehindIn
  <2> QED
    BY <2>1, <2>2, <2>3
<1>2. BehindIn(m_cacheList') = BehindIn(rest) \cup (kept \X {key})
  BY ConsBehind
<1> QED
  BY <1>1, <1>2 DEF AbstractLRU!Use

\* Everything that is behind something is in the sequence.
LEMMA BehindInRange ==
  ASSUME NEW s \in Seq(Key)
  PROVE  BehindIn(s) \subseteq Range(s) \X Range(s)
BY RangeOf DEF BehindIn

\* update is a use of the key that keeps all the others.
LEMMA UpdateUses ==
  ASSUME m_cacheList \in Seq(Key), Distinct(m_cacheList),
         NEW key \in Range(m_cacheList), m_cacheList' = Update(key),
         DOMAIN m_cacheMap = Range(m_cacheList)
  PROVE  AbstractLRU!Use(key, DOMAIN m_cacheMap \ {key})
<1> DEFINE kept == DOMAIN m_cacheMap \ {key}
<1> DEFINE r == RemoveFirst(m_cacheList, key)
<1>1. PICK p \in 1..Len(m_cacheList) :
        /\ m_cacheList[p] = key
        /\ r \in Seq(Key)
        /\ Len(r) = Len(m_cacheList) - 1
        /\ \A i \in 1..(Len(m_cacheList) - 1) :
             (i < p => r[i] = m_cacheList[i]) /\ (i >= p => r[i] = m_cacheList[i + 1])
  BY RemoveFirstFacts
<1>2. Range(r) = Range(m_cacheList) \ {key}
  BY RemoveFirstDistinct
<1>3. m_cacheList' = Cons(key, r) /\ m_cacheList' \in Seq(Key) /\ key \in Key
  BY UpdateStep, RangeOf DEF Update
<1> HIDE DEF r
<1>4. Without(r, m_cacheList, p)
  BY <1>1 DEF Without
<1>5. kept = Range(m_cacheList) \ {m_cacheList[p]} /\ kept = Range(r)
  BY <1>1, <1>2
<1> HIDE DEF kept
<1>6. BehindIn(r) = BehindIn(m_cacheList) \cap (kept \X kept)
  BY <1>4, <1>5, WithoutBehind
<1>7. AbstractLRU!Use(key, kept)
  BY <1>1, <1>3, <1>5, <1>6, UseStep
<1> QED
  BY <1>7 DEF kept

\* Every action of the cache is one of the abstract cache, or leaves it alone.
LEMMA OldMaps ==
  ASSUME CacheInv, CacheInv', ~ub, NEW key \in Key, NEW value \in V,
         PushOld(key, value)
  PROVE  AbstractLRU!Push(key, value)
<1> DEFINE kept == DOMAIN m_cacheMap \ {key}
<1>1. /\ key \in DOMAIN m_cacheMap /\ key \in Range(m_cacheList)
      /\ DOMAIN m_cacheMap = Range(m_cacheList)
  BY DEF CacheInv, PushOld
<1>2. AbstractLRU!Use(key, kept)
  BY <1>1, UpdateUses DEF PushOld, CacheInv, TypeOK
<1>3. m_cacheMap' = [k \in kept \cup {key} |-> IF k = key THEN value ELSE m_cacheMap[k]]
  <2>1. kept \cup {key} = DOMAIN m_cacheMap \cup {key}
    OBVIOUS
  <2> QED
    BY <2>1 DEF PushOld, Assign
<1> HIDE DEF kept
<1>4. AbstractLRU!Store(key, value, kept)
  BY <1>2, <1>3 DEF AbstractLRU!Store
<1>5. result' = result
  BY DEF PushOld
<1> QED
  BY <1>1, <1>4, <1>5 DEF AbstractLRU!Push, kept

\* The abstract cache counts with the same Cardinality.
LEMMA SameCount == \A S : AbstractLRU!Cardinality(S) = Cardinality(S)
BY DEF AbstractLRU!Cardinality, Cardinality

LEMMA NewMaps ==
  ASSUME CacheInv, CacheInv', ~ub, NEW key \in Key, NEW value \in V,
         PushNew(key, value)
  PROVE  AbstractLRU!Push(key, value)
<1> DEFINE kept == DOMAIN m_cacheMap \ {key}
<1>1. /\ m_cacheList \in Seq(Key) /\ m_cacheList' \in Seq(Key)
      /\ Distinct(m_cacheList) /\ m_sizeCounter = Len(m_cacheList)
      /\ key \notin Range(m_cacheList) /\ DOMAIN m_cacheMap = Range(m_cacheList)
      /\ m_cacheList' = Cons(key, m_cacheList) /\ m_maxSize \in Int
      /\ m_sizeCounter + 1 <= m_maxSize /\ result' = result
  BY CacheAssumption DEF CacheInv, TypeOK, PushNew
<1>2. kept = Range(m_cacheList)
  BY <1>1
<1>3. m_cacheMap' = [k \in kept \cup {key} |-> IF k = key THEN value ELSE m_cacheMap[k]]
  <2>1. m_cacheMap' = Assign(m_cacheMap, key, value)
    BY <1>1 DEF PushNew, Insert
  <2>2. kept = DOMAIN m_cacheMap
    BY <1>1
  <2> QED
    BY <2>1, <2>2 DEF Assign
<1> HIDE DEF kept
<1>4. BehindIn(m_cacheList) = BehindIn(m_cacheList) \cap (kept \X kept)
  BY <1>1, <1>2, BehindInRange
<1>5. AbstractLRU!Use(key, kept)
  BY <1>1, <1>2, <1>4, UseStep
<1>6. Cardinality(DOMAIN m_cacheMap) < m_maxSize
  <2>1. Cardinality(DOMAIN m_cacheMap) = Len(m_cacheList)
    BY <1>1, DistinctCounts
  <2>2. Len(m_cacheList) \in Nat
    BY <1>1
  <2> QED
    BY <1>1, <2>1, <2>2
<1>7. AbstractLRU!Store(key, value, kept)
  BY <1>3, <1>5 DEF AbstractLRU!Store
<1>8. /\ key \in DOMAIN m_cacheMap \/ Cardinality(DOMAIN m_cacheMap) < m_maxSize
      /\ AbstractLRU!Store(key, value, DOMAIN m_cacheMap \ {key})
  BY <1>6, <1>7 DEF kept
<1> QED
  BY ONLY <1>1, <1>8, SameCount DEF AbstractLRU!Push

LEMMA FullMaps ==
  ASSUME m_maxSize > 0, CacheInv, CacheInv', ~ub, NEW key \in Key, NEW value \in V,
         PushFull(key, value)
  PROVE  AbstractLRU!Push(key, value)
<1> DEFINE f == SubSeq(m_cacheList, 1, Len(m_cacheList) - 1)
<1> DEFINE victim == m_cacheList[Len(m_cacheList)]
<1> DEFINE kept == DOMAIN m_cacheMap \ {victim}
<1>1. /\ m_cacheList \in Seq(Key) /\ m_cacheList' \in Seq(Key)
      /\ Distinct(m_cacheList) /\ m_sizeCounter = Len(m_cacheList)
      /\ key \notin Range(m_cacheList) /\ DOMAIN m_cacheMap = Range(m_cacheList)
      /\ m_cacheList' = Cons(key, f) /\ m_maxSize \in Int
      /\ m_sizeCounter + 1 > m_maxSize /\ m_sizeCounter <= m_maxSize
      /\ result' = result
  BY CacheAssumption DEF CacheInv, TypeOK, PushFull
<1>2. /\ Len(m_cacheList) = m_maxSize /\ Len(m_cacheList) \in 1..Len(m_cacheList)
      /\ m_cacheList # <<>>
  <2>1. Len(m_cacheList) \in Nat
    BY <1>1
  <2>2. Len(m_cacheList) = m_maxSize
    BY <1>1, <2>1
  <2> QED
    BY <2>1, <2>2
<1>3. /\ f \in Seq(Key) /\ Len(f) = Len(m_cacheList) - 1
      /\ \A i \in 1..(Len(m_cacheList) - 1) : f[i] = m_cacheList[i]
      /\ victim \in Range(m_cacheList) /\ Range(f) = Range(m_cacheList) \ {victim}
  BY <1>1, <1>2, FrontDistinct
<1>4. TailKey = {victim}
  BY <1>1, <1>2, TailFacts
<1> HIDE DEF f
<1>5. BehindIn(f) = BehindIn(m_cacheList) \cap (kept \X kept)
  <2>1. Without(f, m_cacheList, Len(m_cacheList))
    BY <1>2, <1>3 DEF Without
  <2>2. kept = Range(m_cacheList) \ {victim}
    BY <1>1
  <2> HIDE DEF kept
  <2> QED
    BY <1>1, <1>2, <2>1, <2>2, WithoutBehind
<1>6. m_cacheMap' = [k \in kept \cup {key} |-> IF k = key THEN value ELSE m_cacheMap[k]]
  <2> DEFINE e == Erase(m_cacheMap, TailKey)
  <2>1. DOMAIN e = kept /\ \A k \in kept : e[k] = m_cacheMap[k]
    BY <1>4 DEF Erase
  <2>2. key \notin kept
    BY <1>1
  <2>3. m_cacheMap' = Insert(e, key, value)
    BY DEF PushFull
  <2> HIDE DEF e, kept
  <2>4. m_cacheMap' = Assign(e, key, value)
    BY <2>1, <2>2, <2>3 DEF Insert
  <2> QED
    BY <2>1, <2>4 DEF Assign
<1>7. AbstractLRU!Oldest(victim)
  <2>1. ASSUME NEW k \in DOMAIN m_cacheMap \ {victim}
        PROVE  <<victim, k>> \in Older
    <3>1. PICK i \in 1..Len(m_cacheList) : m_cacheList[i] = k
      BY <1>1, RangeOf
    <3>2. Len(m_cacheList) > i /\ victim \in Key /\ k \in Key
      BY <1>1, <1>2, <2>1, <3>1
    <3>3. <<victim, k>> \in BehindIn(m_cacheList)
      BY <1>2, <3>1, <3>2 DEF BehindIn
    <3> QED
      BY <1>1, <3>3, OlderIs
  <2> QED
    BY <2>1 DEF AbstractLRU!Oldest
<1>8. kept = Range(f) /\ victim \in DOMAIN m_cacheMap
  BY <1>1, <1>3
<1>9. Cardinality(DOMAIN m_cacheMap) = m_maxSize
  BY <1>1, <1>2, DistinctCounts
<1> HIDE DEF kept
<1>10. AbstractLRU!Use(key, kept)
  BY <1>1, <1>3, <1>5, <1>8, UseStep
<1>11. AbstractLRU!Store(key, value, kept)
  BY <1>6, <1>10 DEF AbstractLRU!Store
<1> HIDE DEF victim
<1>12. /\ victim \in DOMAIN m_cacheMap /\ AbstractLRU!Oldest(victim)
       /\ AbstractLRU!Store(key, value, DOMAIN m_cacheMap \ {victim})
  BY <1>7, <1>8, <1>11 DEF kept
<1>13. key \notin DOMAIN m_cacheMap
  BY <1>1
<1> QED
  BY ONLY <1>1, <1>9, <1>12, <1>13, SameCount DEF AbstractLRU!Push

LEMMA GetMaps ==
  ASSUME CacheInv, CacheInv', ~ub, NEW key \in Key
  PROVE  /\ GetHit(key) => AbstractLRU!Hit(key)
         /\ GetMiss(key) => AbstractLRU!Miss(key)
<1>1. ASSUME GetHit(key)
      PROVE  AbstractLRU!Hit(key)
  <2>1. key \in DOMAIN m_cacheMap /\ key \in Range(m_cacheList)
    BY <1>1 DEF CacheInv, GetHit
  <2>2. AbstractLRU!Use(key, DOMAIN m_cacheMap \ {key})
    BY <1>1, <2>1, UpdateUses DEF GetHit, CacheInv, TypeOK
  <2> QED
    BY <1>1, <2>1, <2>2 DEF GetHit, AbstractLRU!Hit
<1>2. ASSUME GetMiss(key)
      PROVE  AbstractLRU!Miss(key)
  BY <1>2 DEF GetMiss, cache, AbstractLRU!Miss, Older, Behind
<1> QED
  BY <1>1, <1>2

\* A cache with room for a key evicts the least recently used key, and
\* otherwise forgets nothing: LRUCache implements LRU.
THEOREM ImplementsLRU ==
  ASSUME m_maxSize > 0
  PROVE  Spec => IsLRU
<1>1. Init => AbstractLRU!Init
  <2> SUFFICES ASSUME Init
               PROVE  AbstractLRU!Init
    OBVIOUS
  <2>1. m_cacheList \in Seq(Key) /\ Len(m_cacheList) = 0
    BY DEF Init
  <2>2. Older = {}
    BY <2>1, OlderIs DEF BehindIn
  <2> QED
    BY <2>2 DEF Init, AbstractLRU!Init
<1>2. CacheInv /\ CacheInv' /\ [Next]_vars => [AbstractLRU!Next]_AbstractLRU!vars
  <2> SUFFICES ASSUME CacheInv, CacheInv', [Next]_vars
               PROVE  [AbstractLRU!Next]_AbstractLRU!vars
    OBVIOUS
  <2>1. CASE Next
    <3>1. PICK key \in Key :
            \/ \E value \in V :
                 PushOld(key, value) \/ PushNew(key, value) \/ PushFull(key, value)
            \/ GetHit(key) \/ GetMiss(key)
      BY <2>1 DEF Next
    <3>2. ~ub
      BY <2>1 DEF Next
    <3>3. ASSUME NEW value \in V,
                 PushOld(key, value) \/ PushNew(key, value) \/ PushFull(key, value)
          PROVE  AbstractLRU!Push(key, value)
      BY <3>2, <3>3, OldMaps, NewMaps, FullMaps
    <3>4. GetHit(key) \/ GetMiss(key) => AbstractLRU!Hit(key) \/ AbstractLRU!Miss(key)
      BY <3>2, GetMaps
    <3> QED
      BY <3>1, <3>3, <3>4 DEF AbstractLRU!Next
  <2>2. CASE UNCHANGED vars
    BY <2>2 DEF vars, cache, AbstractLRU!vars, Older, Behind
  <2> QED
    BY <2>1, <2>2
<1> QED
  BY <1>1, <1>2, CacheInvHolds, PTL DEF Spec, IsLRU, AbstractLRU!Spec
=============================================================================
