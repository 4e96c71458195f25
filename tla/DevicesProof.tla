----------------------------- MODULE DevicesProof -----------------------------
(***************************************************************************)
(* Theorems about Devices, for any number of requests and scripts.         *)
(***************************************************************************)
EXTENDS Devices, TLAPS

\* Handlers that overlap know it.
CrowdInv ==
  \A p, q \in Request : p \in Busy /\ q \in Busy /\ p # q => p \in crowded

Counted == {"counted", "insert", "inserted"}
Taking == {"taken"} \cup Counted

\* Where the three reads of the counter of a handler that meets no other
\* agree with each other and with the counter.
AloneInv ==
  \A r \in Request \ crowded :
    /\ add[r] = "read" => curIdx[r] = m_numsMySql
    /\ add[r] = "made" => curIdx[r] = m_numsMySql /\ connId[r] = m_numsMySql
    /\ add[r] \in Taking \cup {"done"} =>
         curIdx[r] = slot[r] /\ connId[r] = slot[r]
    /\ add[r] = "taken" => slot[r] = m_numsMySql
    /\ add[r] \in Counted => m_numsMySql = slot[r] + 1
    /\ add[r] = "done" =>
         /\ m_numsMySql > slot[r]
         /\ \A q \in Request : add[q] \in Taking => slot[q] > slot[r]

\* The pool, as long as the tree is in order.
PoolInv ==
  mapRaced = {} =>
    \A r \in Request :
      /\ add[r] = "inserted" => slot[r] \in DOMAIN m_mySqlPool
      /\ add[r] = "done" /\ r \notin crowded =>
           slot[r] \in DOMAIN m_mySqlPool /\ m_mySqlPool[slot[r]] = r

\* While nobody meets anybody, the devices in the pool are those counted but
\* for the one whose handler has yet to assign it.
Present == {i \in DOMAIN m_mySqlPool : m_mySqlPool[i] # nullptr}
Owed == {slot[q] : q \in {p \in Request : add[p] \in Counted}}
DenseInv ==
  mapRaced = {} /\ crowded = {} => Present = (0 .. m_numsMySql - 1) \ Owed

IInv == TypeOK /\ CrowdInv /\ AloneInv /\ PoolInv /\ DenseInv

LEMMA InitIInv == Init => IInv
  BY DEF Init, IInv, TypeOK, CrowdInv, AloneInv, PoolInv, DenseInv, Present,
         Owed, Busy, AddStages, Taking, Counted

\* What operator[] leaves of the pool.
LEMMA MapEndFacts ==
  ASSUME TypeOK, NEW i \in Int, MapEnd(i)
  PROVE  /\ i \in DOMAIN m_mySqlPool'
         /\ DOMAIN m_mySqlPool' \subseteq Int
         /\ m_mySqlPool' \in [DOMAIN m_mySqlPool' -> Request \cup {nullptr}]
         /\ mapRaced = {} =>
              /\ DOMAIN m_mySqlPool' = DOMAIN m_mySqlPool \cup {i}
              /\ \A j \in DOMAIN m_mySqlPool : m_mySqlPool'[j] = m_mySqlPool[j]
              /\ i \notin DOMAIN m_mySqlPool => m_mySqlPool'[i] = nullptr
  <1>1. PICK kept \in SUBSET DOMAIN m_mySqlPool :
          /\ mapRaced = {} => kept = DOMAIN m_mySqlPool
          /\ m_mySqlPool' = Found([j \in kept |-> m_mySqlPool[j]], i)
    BY DEF MapEnd
  <1>2. m_mySqlPool' = [j \in kept \cup {i} |->
                          IF j \in kept THEN m_mySqlPool[j] ELSE nullptr]
    BY <1>1 DEF Found
  <1>3. \A j \in kept : m_mySqlPool[j] \in Request \cup {nullptr}
    BY DEF TypeOK
  <1>4. m_mySqlPool' \in [kept \cup {i} -> Request \cup {nullptr}]
    BY <1>2, <1>3
  <1>5. DOMAIN m_mySqlPool' = kept \cup {i}
    BY <1>2
  <1> QED
    BY <1>1, <1>2, <1>4, <1>5 DEF TypeOK

-----------------------------------------------------------------------------
(* The steps *)

\* Every step is one of these.
LEMMA StepCases ==
  ASSUME [Next]_vars
  PROVE  \/ \E r \in Request : AddStep(r)
         \/ \E s \in Script, i \in Asked : LookBegin(s, i)
         \/ \E s \in Script : LookEnd(s)
         \/ UNCHANGED vars
  BY DEF Next

LEMMA TypeStep ==
  ASSUME TypeOK, [Next]_vars
  PROVE  TypeOK'
<1>1. ASSUME NEW r \in Request, ReadIndex(r) PROVE TypeOK'
  BY <1>1 DEF ReadIndex, TypeOK, AddStages, addVars, lookVars, Busy
<1>2. ASSUME NEW r \in Request, NewDevice(r) PROVE TypeOK'
  BY <1>2 DEF NewDevice, TypeOK, AddStages, addVars, lookVars
<1>3. ASSUME NEW r \in Request, TakeIndex(r) PROVE TypeOK'
  BY <1>3 DEF TakeIndex, TypeOK, AddStages, addVars, lookVars
<1>4. ASSUME NEW r \in Request, StoreCount(r) PROVE TypeOK'
  BY <1>4 DEF StoreCount, TypeOK, AddStages, addVars, lookVars
<1>5. ASSUME NEW r \in Request, InsertBegin(r) PROVE TypeOK'
  BY <1>5 DEF InsertBegin, TypeOK, AddStages, addVars, lookVars, MapBegin, InMap
<1>6. ASSUME NEW r \in Request, InsertEnd(r) PROVE TypeOK'
  <2>1. slot[r] \in Int /\ MapEnd(slot[r])
    BY <1>6 DEF InsertEnd, TypeOK
  <2> QED
    BY <1>6, <2>1, MapEndFacts DEF InsertEnd, TypeOK, AddStages, addVars, lookVars
<1>7. ASSUME NEW r \in Request, AssignDevice(r) PROVE TypeOK'
  BY <1>7 DEF AssignDevice, TypeOK, AddStages, addVars, lookVars
<1>8. ASSUME NEW s \in Script, NEW i \in Asked, LookBegin(s, i) PROVE TypeOK'
  BY <1>8, DevicesAssumption DEF LookBegin, MapBegin, InMap, TypeOK, addVars, lookVars
<1>9. ASSUME NEW s \in Script, LookEnd(s) PROVE TypeOK'
  <2>1. asked[s] \in Int /\ MapEnd(asked[s])
    BY <1>9 DEF LookEnd, TypeOK
  <2>2. m_mySqlPool'[asked[s]] \in Request \cup {nullptr}
    BY <2>1, MapEndFacts
  <2> QED
    BY <1>9, <2>1, <2>2, MapEndFacts DEF LookEnd, TypeOK, addVars, lookVars
<1>10. ASSUME UNCHANGED vars PROVE TypeOK'
  BY <1>10 DEF vars, TypeOK, addVars, lookVars
<1> QED
  BY <1>1, <1>2, <1>3, <1>4, <1>5, <1>6, <1>7, <1>8, <1>9, <1>10, StepCases DEF AddStep

LEMMA CrowdStep ==
  ASSUME TypeOK, CrowdInv, [Next]_vars
  PROVE  CrowdInv'
<1>1. ASSUME NEW r \in Request, ReadIndex(r) PROVE CrowdInv'
  <2>1. Busy' = Busy \cup {r}
    BY <1>1 DEF ReadIndex, Busy, TypeOK
  <2> QED
    BY <1>1, <2>1 DEF ReadIndex, CrowdInv
<1>2. ASSUME NEW r \in Request, AddStep(r), ~ReadIndex(r) PROVE CrowdInv'
  <2>1. Busy' \subseteq Busy /\ crowded' = crowded
    BY <1>2 DEF AddStep, NewDevice, TakeIndex, StoreCount, InsertBegin, InsertEnd,
                AssignDevice, Busy, TypeOK
  <2> QED
    BY <2>1 DEF CrowdInv
<1>3. ASSUME UNCHANGED <<add, crowded>> PROVE CrowdInv'
  BY <1>3 DEF CrowdInv, Busy
<1> QED
  BY <1>1, <1>2, <1>3, StepCases DEF LookBegin, LookEnd, vars, addVars

\* What the steps of a handler do to the others: nothing but the counter, the
\* pool and who is in each other's way.
LEMMA AloneStep ==
  ASSUME TypeOK, CrowdInv, AloneInv, [Next]_vars
  PROVE  AloneInv'
<1> USE DEF Taking, Counted
<1>1. ASSUME NEW r \in Request, ReadIndex(r) PROVE AloneInv'
  BY <1>1 DEF ReadIndex, AloneInv, TypeOK, Busy, lookVars
<1>2. ASSUME NEW r \in Request, NewDevice(r) PROVE AloneInv'
  BY <1>2 DEF NewDevice, AloneInv, TypeOK, lookVars
<1>3. ASSUME NEW r \in Request, TakeIndex(r) PROVE AloneInv'
  BY <1>3 DEF TakeIndex, AloneInv, TypeOK, lookVars
<1>4. ASSUME NEW r \in Request, StoreCount(r) PROVE AloneInv'
  <2> SUFFICES ASSUME NEW p \in Request \ crowded
               PROVE  /\ add'[p] = "read" => curIdx'[p] = m_numsMySql'
                      /\ add'[p] = "made" =>
                           curIdx'[p] = m_numsMySql' /\ connId'[p] = m_numsMySql'
                      /\ add'[p] \in Taking \cup {"done"} =>
                           curIdx'[p] = slot'[p] /\ connId'[p] = slot'[p]
                      /\ add'[p] = "taken" => slot'[p] = m_numsMySql'
                      /\ add'[p] \in Counted => m_numsMySql' = slot'[p] + 1
                      /\ add'[p] = "done" =>
                           /\ m_numsMySql' > slot'[p]
                           /\ \A q \in Request :
                                add'[q] \in Taking => slot'[q] > slot'[p]
    BY <1>4 DEF StoreCount, AloneInv
  <2>1. CASE p = r
    BY <1>4, <2>1 DEF StoreCount, AloneInv, TypeOK
  <2>2. CASE p # r /\ add[p] \in {"new", "done"}
    BY <1>4, <2>2 DEF StoreCount, AloneInv, TypeOK
  <2>3. CASE p # r /\ add[p] \notin {"new", "done"}
    BY <1>4, <2>3 DEF StoreCount, CrowdInv, Busy
  <2> QED
    BY <2>1, <2>2, <2>3
<1>5. ASSUME NEW r \in Request, InsertBegin(r) PROVE AloneInv'
  BY <1>5 DEF InsertBegin, AloneInv, TypeOK, lookVars
<1>6. ASSUME NEW r \in Request, InsertEnd(r) PROVE AloneInv'
  BY <1>6 DEF InsertEnd, AloneInv, TypeOK, lookVars
<1>7. ASSUME NEW r \in Request, AssignDevice(r) PROVE AloneInv'
  <2>1. r \notin crowded => \A q \in Request : add'[q] \notin Taking
    BY <1>7 DEF AssignDevice, CrowdInv, Busy, TypeOK
  <2> QED
    BY <1>7, <2>1 DEF AssignDevice, AloneInv, TypeOK, lookVars
<1>8. ASSUME UNCHANGED <<m_numsMySql, addVars, crowded>> PROVE AloneInv'
  BY <1>8 DEF AloneInv, addVars
<1> QED
  BY <1>1, <1>2, <1>3, <1>4, <1>5, <1>6, <1>7, <1>8, StepCases
     DEF AddStep, LookBegin, LookEnd, vars

LEMMA PoolStep ==
  ASSUME TypeOK, CrowdInv, AloneInv, PoolInv, [Next]_vars
  PROVE  PoolInv'
<1>1. ASSUME NEW r \in Request, AddStep(r), ~InsertBegin(r), ~InsertEnd(r),
             ~AssignDevice(r)
      PROVE  PoolInv'
  <2>1. /\ UNCHANGED <<mapRaced, m_mySqlPool>>
        /\ crowded \subseteq crowded'
        /\ \A q \in Request : add'[q] \in {"inserted", "done"} =>
                              add'[q] = add[q] /\ slot'[q] = slot[q]
    BY <1>1 DEF AddStep, ReadIndex, NewDevice, TakeIndex, StoreCount, TypeOK
  <2> QED
    BY <2>1 DEF PoolInv
<1>2. ASSUME NEW r \in Request, InsertBegin(r) PROVE PoolInv'
  BY <1>2 DEF InsertBegin, PoolInv, MapBegin, InMap, TypeOK
<1>3. ASSUME NEW r \in Request, InsertEnd(r) PROVE PoolInv'
  <2>1. slot[r] \in Int /\ MapEnd(slot[r])
    BY <1>3 DEF InsertEnd, TypeOK
  <2>2. /\ slot[r] \in DOMAIN m_mySqlPool'
        /\ mapRaced = {} =>
             /\ DOMAIN m_mySqlPool \subseteq DOMAIN m_mySqlPool'
             /\ \A k \in DOMAIN m_mySqlPool : m_mySqlPool'[k] = m_mySqlPool[k]
    BY <2>1, MapEndFacts
  <2>3. /\ UNCHANGED <<mapRaced, crowded, slot>>
        /\ \A q \in Request \ {r} : add'[q] = add[q]
        /\ add'[r] = "inserted"
    BY <1>3 DEF InsertEnd, TypeOK
  <2> QED
    BY <2>2, <2>3 DEF PoolInv
<1>4. ASSUME NEW r \in Request, AssignDevice(r) PROVE PoolInv'
  <2> SUFFICES ASSUME mapRaced = {}, NEW p \in Request
               PROVE  /\ add'[p] = "inserted" => slot[p] \in DOMAIN m_mySqlPool'
                      /\ add'[p] = "done" /\ p \notin crowded =>
                           /\ slot[p] \in DOMAIN m_mySqlPool'
                           /\ m_mySqlPool'[slot[p]] = p
    BY <1>4 DEF AssignDevice, PoolInv
  <2>1. CASE p = r
    BY <1>4, <2>1 DEF AssignDevice, PoolInv, TypeOK
  <2>2. CASE p # r
    <3>1. add[p] = "done" /\ p \notin crowded => slot[r] # slot[p]
      BY <1>4, <2>2 DEF AssignDevice, AloneInv, Taking, Counted, TypeOK
    <3> QED
      BY <1>4, <2>2, <3>1 DEF AssignDevice, PoolInv, TypeOK
  <2> QED
    BY <2>1, <2>2
<1>5. ASSUME NEW s \in Script, NEW i \in Asked, LookBegin(s, i) PROVE PoolInv'
  BY <1>5 DEF LookBegin, MapBegin, InMap, PoolInv, addVars
<1>6. ASSUME NEW s \in Script, LookEnd(s) PROVE PoolInv'
  <2>1. asked[s] \in Int /\ MapEnd(asked[s])
    BY <1>6 DEF LookEnd, TypeOK
  <2> QED
    BY <1>6, <2>1, MapEndFacts DEF LookEnd, PoolInv, addVars
<1>7. ASSUME UNCHANGED vars PROVE PoolInv'
  BY <1>7 DEF vars, addVars, PoolInv
<1> QED
  BY <1>1, <1>2, <1>3, <1>4, <1>5, <1>6, <1>7, StepCases

LEMMA DenseStep ==
  ASSUME TypeOK, CrowdInv, AloneInv, PoolInv, DenseInv, [Next]_vars
  PROVE  DenseInv'
<1> SUFFICES ASSUME mapRaced' = {}, crowded' = {}
             PROVE  Present' = (0 .. m_numsMySql' - 1) \ Owed'
  BY DEF DenseInv
<1>1. ASSUME NEW r \in Request, AddStep(r), ~StoreCount(r), ~InsertEnd(r),
             ~AssignDevice(r)
      PROVE  Present' = (0 .. m_numsMySql' - 1) \ Owed'
  <2>1. UNCHANGED <<m_numsMySql, m_mySqlPool>> /\ mapRaced = {} /\ crowded = {}
    BY <1>1 DEF AddStep, ReadIndex, NewDevice, TakeIndex, InsertBegin, MapBegin
  <2>2. Owed' = Owed
    BY <1>1 DEF AddStep, ReadIndex, NewDevice, TakeIndex, InsertBegin, Owed,
                Counted, TypeOK
  <2> QED
    BY <2>1, <2>2 DEF DenseInv, Present
<1>2. ASSUME NEW r \in Request, StoreCount(r)
      PROVE  Present' = (0 .. m_numsMySql' - 1) \ Owed'
  <2>1. UNCHANGED <<m_mySqlPool, slot>> /\ mapRaced = {} /\ crowded = {}
    BY <1>2 DEF StoreCount
  <2>2. \A q \in Request : add[q] \notin Counted
    BY <1>2, <2>1 DEF StoreCount, CrowdInv, Busy, Counted
  <2>3. slot[r] = m_numsMySql /\ m_numsMySql' = m_numsMySql + 1 /\ m_numsMySql \in Nat
    BY <1>2, <2>1 DEF StoreCount, AloneInv, TypeOK
  <2>4. {p \in Request : add'[p] \in Counted} = {r}
    BY <1>2, <2>2 DEF StoreCount, Counted, TypeOK
  <2>5. Owed = {} /\ Owed' = {m_numsMySql}
    BY <2>1, <2>2, <2>3, <2>4 DEF Owed
  <2>6. Present' = 0 .. m_numsMySql - 1
    BY <2>1, <2>5 DEF DenseInv, Present
  <2> QED
    BY <2>3, <2>5, <2>6
<1>3. ASSUME NEW r \in Request, InsertEnd(r)
      PROVE  Present' = (0 .. m_numsMySql' - 1) \ Owed'
  <2>1. slot[r] \in Int /\ MapEnd(slot[r])
    BY <1>3 DEF InsertEnd, TypeOK
  <2>2. mapRaced = {} /\ crowded = {} /\ m_numsMySql' = m_numsMySql
    BY <1>3 DEF InsertEnd
  <2>3. Owed' = Owed
    BY <1>3 DEF InsertEnd, Owed, Counted, TypeOK
  <2>4. Present' = Present
    BY <2>1, <2>2, MapEndFacts DEF Present
  <2> QED
    BY <2>2, <2>3, <2>4 DEF DenseInv
<1>4. ASSUME NEW r \in Request, AssignDevice(r)
      PROVE  Present' = (0 .. m_numsMySql' - 1) \ Owed'
  <2>1. mapRaced = {} /\ crowded = {} /\ m_numsMySql' = m_numsMySql /\ slot' = slot
    BY <1>4 DEF AssignDevice
  <2>2. \A q \in Request : q # r => add[q] \notin Counted
    BY <1>4, <2>1 DEF AssignDevice, CrowdInv, Busy, Counted
  <2>3. slot[r] = m_numsMySql - 1 /\ slot[r] \in DOMAIN m_mySqlPool /\ slot[r] \in Nat
    BY <1>4, <2>1 DEF AssignDevice, AloneInv, PoolInv, Counted, TypeOK
  <2>4. {p \in Request : add[p] \in Counted} = {r}
    BY <1>4, <2>2 DEF AssignDevice, Counted
  <2>5. {p \in Request : add'[p] \in Counted} = {}
    BY <1>4, <2>2 DEF AssignDevice, Counted, TypeOK
  <2>6. Owed = {slot[r]} /\ Owed' = {}
    BY <2>1, <2>4, <2>5 DEF Owed
  <2>7. Present' = Present \cup {slot[r]}
    BY <1>4, <2>3, DevicesAssumption DEF AssignDevice, Present
  <2> QED
    BY <2>1, <2>3, <2>6, <2>7 DEF DenseInv, TypeOK
<1>5. ASSUME NEW s \in Script, NEW i \in Asked, LookBegin(s, i)
      PROVE  Present' = (0 .. m_numsMySql' - 1) \ Owed'
  BY <1>5 DEF LookBegin, MapBegin, addVars, DenseInv, Present, Owed
<1>6. ASSUME NEW s \in Script, LookEnd(s)
      PROVE  Present' = (0 .. m_numsMySql' - 1) \ Owed'
  <2>1. asked[s] \in Int /\ MapEnd(asked[s])
    BY <1>6 DEF LookEnd, TypeOK
  <2>2. mapRaced = {} /\ crowded = {} /\ m_numsMySql' = m_numsMySql /\ Owed' = Owed
    BY <1>6 DEF LookEnd, addVars, Owed
  <2>3. Present' = Present
    BY <2>1, <2>2, MapEndFacts DEF Present
  <2> QED
    BY <2>2, <2>3 DEF DenseInv
<1>7. ASSUME UNCHANGED vars PROVE Present' = (0 .. m_numsMySql' - 1) \ Owed'
  BY <1>7 DEF vars, addVars, DenseInv, Present, Owed
<1> QED
  BY <1>1, <1>2, <1>3, <1>4, <1>5, <1>6, <1>7, StepCases

LEMMA Inductive == IInv /\ [Next]_vars => IInv'
  BY TypeStep, CrowdStep, AloneStep, PoolStep, DenseStep DEF IInv

LEMMA SpecIInv == Spec => []IInv
  BY InitIInv, Inductive, PTL DEF Spec

-----------------------------------------------------------------------------
(* Theorems *)

\* Counters, pool and handlers keep their types, whoever runs beside whom
\* (pipeline.cpp, cbVirtualDeviceManager).
THEOREM TypeCorrect == Spec => []TypeOK
  BY SpecIInv, PTL DEF IInv

\* An answered request that met no other request finds its own device under
\* the index it was told, for ever, in any crowd of later requests.
THEOREM DevicesAreNamed == Spec => []AnswerNamesDevice
<1>1. IInv => AnswerNamesDevice
  BY DEF IInv, AnswerNamesDevice, AloneInv, PoolInv, Alone
<1> QED
  BY <1>1, SpecIInv, PTL

\* ... and a script that asks for that index gets that device.
THEOREM ScriptsGetDevices == Spec => ScriptGetsDevice
<1>1. ASSUME IInv, [Next]_vars
      PROVE  [\A s \in Script, r \in Alone :
                LookEnd(s) /\ asked[s] = curIdx[r] /\ mapRaced = {} => found'[s] = r]_vars
  <2> SUFFICES ASSUME NEW s \in Script, NEW r \in Alone, LookEnd(s),
                      asked[s] = curIdx[r], mapRaced = {}
               PROVE  found'[s] = r
    OBVIOUS
  <2>1. r \in Request /\ add[r] = "done" /\ r \notin crowded
    BY DEF Alone
  <2>2. curIdx[r] = slot[r] /\ slot[r] \in DOMAIN m_mySqlPool /\ m_mySqlPool[slot[r]] = r
    BY <2>1, <1>1 DEF IInv, AloneInv, PoolInv
  <2>3. asked[s] \in Int /\ MapEnd(asked[s])
    BY <1>1 DEF LookEnd, IInv, TypeOK
  <2>4. m_mySqlPool'[asked[s]] = r
    BY <1>1, <2>2, <2>3, MapEndFacts DEF IInv
  <2>5. found'[s] = m_mySqlPool'[asked[s]]
    BY <1>1 DEF LookEnd, IInv, TypeOK
  <2> QED
    BY <2>4, <2>5
<1> QED
  BY <1>1, SpecIInv, PTL DEF Spec, ScriptGetsDevice

\* Requests that come one at a time are given the indices 0, 1, 2, ... and
\* between two of them no device is missing below the counter.
THEOREM PoolIsDense == Spec => []IndicesAreDense
<1>1. IInv => IndicesAreDense
  <2> SUFFICES ASSUME IInv, mapRaced = {}, crowded = {}, Busy = {}
               PROVE  Present = 0 .. m_numsMySql - 1
    BY DEF IndicesAreDense, Present
  <2>1. Owed = {}
    BY DEF Busy, Owed, Counted
  <2> QED
    BY <2>1 DEF IInv, DenseInv
<1> QED
  BY <1>1, SpecIInv, PTL
=============================================================================
