--------------------------------- MODULE LRU ---------------------------------
(***************************************************************************)
(* What a cache of the least recently used promises: at most Size keys,    *)
(* and the key that goes when there is no room is the one whose last use   *)
(* is the longest ago.                                                     *)
(***************************************************************************)
EXTENDS Naturals, FiniteSets

CONSTANTS Key, V, nullptr, Size

VARIABLES
  store,      \* the values of the keys in the cache
  older,      \* <<a, b>>: a's last use is before b's
  result      \* what the last get returned

vars == <<store, older, result>>

Init ==
  /\ store = [key \in {} |-> nullptr]
  /\ older = {}
  /\ result = nullptr

\* key is used, and of the other keys those in kept stay.
Use(key, kept) == older' = (older \cap (kept \X kept)) \cup (kept \X {key})

\* The keys in kept stay, key gets the value.
Store(key, value, kept) ==
  /\ store' = [k \in kept \cup {key} |-> IF k = key THEN value ELSE store[k]]
  /\ Use(key, kept)

Oldest(key) == \A k \in DOMAIN store \ {key} : <<key, k>> \in older

Push(key, value) ==
  /\ \/ /\ key \in DOMAIN store \/ Cardinality(DOMAIN store) < Size
        /\ Store(key, value, DOMAIN store \ {key})
     \/ /\ key \notin DOMAIN store /\ Cardinality(DOMAIN store) = Size
        /\ \E victim \in DOMAIN store :
             Oldest(victim) /\ Store(key, value, DOMAIN store \ {victim})
  /\ UNCHANGED result

Hit(key) ==
  /\ key \in DOMAIN store
  /\ result' = store[key]
  /\ Use(key, DOMAIN store \ {key})
  /\ UNCHANGED store

Miss(key) ==
  /\ key \notin DOMAIN store
  /\ result' = nullptr
  /\ UNCHANGED <<store, older>>

Next == \E key \in Key : (\E value \in V : Push(key, value)) \/ Hit(key) \/ Miss(key)

Spec == Init /\ [][Next]_vars
=============================================================================
