------------------------------ MODULE LRUCache ------------------------------
(***************************************************************************)
(* The cache of cbLRUCache.hpp: a list of keys, the last used one first,   *)
(* and a map from keys to values.  It has no lock: one thread uses it.     *)
(***************************************************************************)
EXTENDS Integers, FiniteSets, SequencesExt

CONSTANTS
  Key, V,     \* keys and values
  nullptr,    \* what get returns for an unknown key
  m_maxSize   \* any int32_t: the constructor does not look at it

ASSUME CacheAssumption ==
  /\ m_maxSize \in Int
  /\ nullptr \notin Key \cup V

VARIABLES
  m_sizeCounter,
  m_cacheList,
  m_cacheMap,
  result,     \* the value the last get found, or nullptr
  held,       \* the key of the last pointer get returned, or nullptr
  valid,      \* whether that pointer still points to a node of the map
  since,      \* history: the other keys used since that get
  ub          \* whether the tail of an empty list was erased

cache == <<m_sizeCounter, m_cacheList, m_cacheMap>>
vars == <<cache, result, held, valid, since, ub>>

TypeOK ==
  /\ m_sizeCounter \in Int
  /\ m_cacheList \in Seq(Key)
  /\ \E S \in SUBSET Key : m_cacheMap \in [S -> V]
  /\ result \in V \cup {nullptr}
  /\ held \in Key \cup {nullptr}
  /\ valid \in BOOLEAN
  /\ since \in SUBSET Key
  /\ ub \in BOOLEAN

Init ==
  /\ m_sizeCounter = 0
  /\ m_cacheList = <<>>
  /\ m_cacheMap = [key \in {} |-> nullptr]
  /\ result = nullptr
  /\ held = nullptr
  /\ valid = FALSE
  /\ since = {}
  /\ ub = FALSE

-----------------------------------------------------------------------------
\* std::map: operator[] with an assignment, insert, erase.
Assign(map, key, value) ==
  [k \in DOMAIN map \cup {key} |-> IF k = key THEN value ELSE map[k]]
Insert(map, key, value) ==
  IF key \in DOMAIN map THEN map ELSE Assign(map, key, value)
Erase(map, keys) == [k \in DOMAIN map \ keys |-> map[k]]

\* update, with insertTop: the first element with the key moves to the top.
Update(key) == Cons(key, RemoveFirst(m_cacheList, key))

\* The key at the tail, if there is one.
TailKey == {m_cacheList[i] : i \in {Len(m_cacheList)} \ {0}}

\* The history: key is used, and the caller's pointer is not a new one.
Uses(key) == since' = since \cup ({key} \ {held})

-----------------------------------------------------------------------------
\* push of a key that is in the list.
PushOld(key, value) ==
  /\ key \in Range(m_cacheList)
  /\ m_cacheMap' = Assign(m_cacheMap, key, value)
  /\ m_cacheList' = Update(key)
  /\ Uses(key)
  /\ UNCHANGED <<m_sizeCounter, result, held, valid, ub>>

\* push of a new key while there is room.
PushNew(key, value) ==
  /\ key \notin Range(m_cacheList)
  /\ m_sizeCounter + 1 <= m_maxSize
  /\ m_sizeCounter' = m_sizeCounter + 1
  /\ m_cacheMap' = Insert(m_cacheMap, key, value)
  /\ m_cacheList' = Cons(key, m_cacheList)
  /\ Uses(key)
  /\ UNCHANGED <<result, held, valid, ub>>

\* Mutant: the tail of the list stays.
Mut_NoPopBack(key, value) ==
  /\ key \notin Range(m_cacheList)
  /\ m_sizeCounter + 1 > m_maxSize
  /\ m_sizeCounter' = m_maxSize
  /\ ub' = (m_cacheList = <<>>)
  /\ m_cacheMap' = Insert(Erase(m_cacheMap, TailKey), key, value)
  /\ m_cacheList' = Cons(key, m_cacheList)
  /\ valid' = (valid /\ held \notin TailKey)
  /\ Uses(key)
  /\ UNCHANGED <<result, held>>
\* Mutant: the first element of the list goes, not the last one.
Mut_PopFront(key, value) ==
  /\ key \notin Range(m_cacheList)
  /\ m_sizeCounter + 1 > m_maxSize
  /\ m_sizeCounter' = m_maxSize
  /\ ub' = (m_cacheList = <<>>)
  /\ m_cacheMap' = Insert(Erase(m_cacheMap, {Head(m_cacheList)}), key, value)
  /\ m_cacheList' = Cons(key, Tail(m_cacheList))
  /\ valid' = (valid /\ held # Head(m_cacheList))
  /\ Uses(key)
  /\ UNCHANGED <<result, held>>
\* push of a new key when the cache is full: eraseTail makes room.  On an
\* empty list, which m_maxSize <= 0 leads to, it is undefined behaviour.
PushFull(key, value) ==
  /\ key \notin Range(m_cacheList)
  /\ m_sizeCounter + 1 > m_maxSize
  /\ m_sizeCounter' = m_maxSize
  /\ ub' = (m_cacheList = <<>>)
  /\ m_cacheMap' = Insert(Erase(m_cacheMap, TailKey), key, value)
  /\ m_cacheList' = Cons(key, SubSeq(m_cacheList, 1, Len(m_cacheList) - 1))
  /\ valid' = (valid /\ held \notin TailKey)
  /\ Uses(key)
  /\ UNCHANGED <<result, held>>

\* Mutant: get is no use of the key.
Mut_Peek(key) ==
  /\ key \in DOMAIN m_cacheMap
  /\ result' = m_cacheMap[key]
  /\ held' = key /\ valid' = TRUE /\ since' = {}
  /\ UNCHANGED <<cache, ub>>
\* get of a key in the map: the caller now holds a pointer into it.
GetHit(key) ==
  /\ key \in DOMAIN m_cacheMap
  /\ m_cacheList' = Update(key)
  /\ result' = m_cacheMap[key]
  /\ held' = key /\ valid' = TRUE /\ since' = {}
  /\ UNCHANGED <<m_sizeCounter, m_cacheMap, ub>>

GetMiss(key) ==
  /\ key \notin DOMAIN m_cacheMap
  /\ result' = nullptr
  /\ UNCHANGED <<cache, held, valid, since, ub>>

Next ==
  /\ ~ub
  /\ \E key \in Key :
       \/ \E value \in V :
            PushOld(key, value) \/ PushNew(key, value) \/ PushFull(key, value)
       \/ GetHit(key) \/ GetMiss(key)

Spec == Init /\ [][Next]_vars

-----------------------------------------------------------------------------
(* Properties *)

\* List, map and counter are three records of one set of keys: each key in
\* the map is in the list once, and the counter counts them.  A key in one
\* and not in the other would never be evicted, or eraseTail would erase from
\* the map what find did not find.  A cache with room for a key never erases
\* the tail of an empty list.
Consistent ==
  /\ ~ub =>
       /\ \A i, j \in 1..Len(m_cacheList) :
            m_cacheList[i] = m_cacheList[j] => i = j
       /\ DOMAIN m_cacheMap = Range(m_cacheList)
       /\ m_sizeCounter = Len(m_cacheList)
  /\ m_maxSize > 0 => m_sizeCounter <= m_maxSize /\ ~ub

\* The pointer get returned stays good until m_maxSize other keys have been
\* used, however they are pushed and read: a caller may rely on that.
PointerLasts == held # nullptr /\ ~valid => Cardinality(since) >= m_maxSize

\* The cache is one that evicts the least recently used key.
Behind == {p \in (1..Len(m_cacheList)) \X (1..Len(m_cacheList)) : p[1] > p[2]}
Older == {<<m_cacheList[p[1]], m_cacheList[p[2]]>> : p \in Behind}
AbstractLRU == INSTANCE LRU WITH Size <- m_maxSize, store <- m_cacheMap,
                                 older <- Older
IsLRU == AbstractLRU!Spec
=============================================================================
