------------------------------- MODULE Devices -------------------------------
(***************************************************************************)
(* The virtual devices: cbVirtualDeviceManager and who uses it.            *)
(*                                                                         *)
(* A request of /add_device makes a MySQL device, puts it into the pool    *)
(* under an index taken from a static counter and answers with an index;   *)
(* a script of /add_graph creates leaves by index.  Both are HTTP handlers *)
(* and run on several threads; nothing is locked.  The handler reads the   *)
(* counter for its answer, again for the connection, and a third time, to  *)
(* increment it, for the place in the pool.                                *)
(*                                                                         *)
(* The pool is a std::map.  Both its users go through operator[], which    *)
(* inserts an empty entry for an index it does not find; two of them at    *)
(* once, one inserting, corrupt the tree.                                  *)
(***************************************************************************)
EXTENDS Integers, FiniteSets

CONSTANTS
  Request,   \* requests of /add_device, each named like the device it makes
  Script,    \* calls of createVirtualDeviceNode in scripts of /add_graph
  Asked,     \* the indices the scripts ask for
  nullptr    \* the pointer in an empty entry

ASSUME DevicesAssumption ==
  /\ Request \cap Script = {}
  /\ nullptr \notin Request
  /\ Asked \subseteq Int

VARIABLES
  m_numsMySql,   \* the static counter
  m_mySqlPool,   \* index -> device; an entry whose visibility is false is nullptr
  add,           \* where the handler of each request is
  curIdx,        \* the counter as read for the answer
  connId,        \* the counter as read for the device's connection
  slot,          \* the counter as read for the place in the pool
  look,          \* where each call of a script is
  asked,         \* the index it asks for
  found,         \* the device it gets
  crowded,       \* history: requests whose handlers overlapped each other
  mapRaced       \* history: who was in operator[] at the same time as another

addVars == <<add, curIdx, connId, slot>>
lookVars == <<look, asked, found>>
vars == <<m_numsMySql, m_mySqlPool, addVars, lookVars, crowded, mapRaced>>

AddStages == {"new", "read", "made", "taken", "counted", "insert", "inserted",
              "done"}

TypeOK ==
  /\ m_numsMySql \in Nat
  /\ DOMAIN m_mySqlPool \subseteq Int
  /\ m_mySqlPool \in [DOMAIN m_mySqlPool -> Request \cup {nullptr}]
  /\ add \in [Request -> AddStages]
  /\ curIdx \in [Request -> Nat]
  /\ connId \in [Request -> Nat]
  /\ slot \in [Request -> Nat]
  /\ look \in [Script -> {"new", "insert", "done"}]
  /\ asked \in [Script -> Int]
  /\ found \in [Script -> Request \cup {nullptr}]
  /\ crowded \in SUBSET Request
  /\ mapRaced \in SUBSET (Request \cup Script)

Init ==
  /\ m_numsMySql = 0
  /\ m_mySqlPool = [i \in {} |-> nullptr]
  /\ add = [r \in Request |-> "new"]
  /\ curIdx = [r \in Request |-> 0]
  /\ connId = [r \in Request |-> 0]
  /\ slot = [r \in Request |-> 0]
  /\ look = [s \in Script |-> "new"]
  /\ asked = [s \in Script |-> 0]
  /\ found = [s \in Script |-> nullptr]
  /\ crowded = {}
  /\ mapRaced = {}

-----------------------------------------------------------------------------
\* The handlers between their first and their last access.
Busy == {r \in Request : add[r] \notin {"new", "done"}}

\* Those in the middle of operator[].
InMap == {r \in Request : add[r] = "insert"} \cup {s \in Script : look[s] = "insert"}

MapBegin(x) ==
  mapRaced' = IF InMap = {} THEN mapRaced ELSE mapRaced \cup InMap \cup {x}

\* What operator[] leaves of the pool: an entry for the index, an empty one if
\* there was none.  In a tree that two threads have been in, any entry may
\* have been cut off.
Found(pool, i) ==
  [j \in DOMAIN pool \cup {i} |-> IF j \in DOMAIN pool THEN pool[j] ELSE nullptr]
MapEnd(i) ==
  \E kept \in SUBSET DOMAIN m_mySqlPool :
    /\ mapRaced = {} => kept = DOMAIN m_mySqlPool
    /\ m_mySqlPool' = Found([j \in kept |-> m_mySqlPool[j]], i)

-----------------------------------------------------------------------------
(* The handler of /add_device *)

\* Mutant: the answer is what /num counts.
Mut_LessOne(r) ==
  /\ add[r] = "new"
  /\ add' = [add EXCEPT ![r] = "read"]
  /\ curIdx' = [curIdx EXCEPT ![r] = m_numsMySql - 1]
  /\ crowded' = IF Busy = {} THEN crowded ELSE crowded \cup Busy \cup {r}
  /\ UNCHANGED <<m_numsMySql, m_mySqlPool, connId, slot, lookVars, mapRaced>>
\* int32_t curIdx = m_numsMySql
ReadIndex(r) ==
  /\ add[r] = "new"
  /\ add' = [add EXCEPT ![r] = "read"]
  /\ curIdx' = [curIdx EXCEPT ![r] = m_numsMySql]
  /\ crowded' = IF Busy = {} THEN crowded ELSE crowded \cup Busy \cup {r}
  /\ UNCHANGED <<m_numsMySql, m_mySqlPool, connId, slot, lookVars, mapRaced>>

\* new cbMySqlDevice(m_numsMySql, ...): its connection gets that number.
NewDevice(r) ==
  /\ add[r] = "read"
  /\ add' = [add EXCEPT ![r] = "made"]
  /\ connId' = [connId EXCEPT ![r] = m_numsMySql]
  /\ UNCHANGED <<m_numsMySql, m_mySqlPool, curIdx, slot, lookVars, crowded, mapRaced>>

\* Mutant: the device is put one place further.
Mut_NextPlace(r) ==
  /\ add[r] = "made"
  /\ add' = [add EXCEPT ![r] = "taken"]
  /\ slot' = [slot EXCEPT ![r] = m_numsMySql + 1]
  /\ UNCHANGED <<m_numsMySql, m_mySqlPool, curIdx, connId, lookVars, crowded, mapRaced>>
\* m_numsMySql++ reads ...
TakeIndex(r) ==
  /\ add[r] = "made"
  /\ add' = [add EXCEPT ![r] = "taken"]
  /\ slot' = [slot EXCEPT ![r] = m_numsMySql]
  /\ UNCHANGED <<m_numsMySql, m_mySqlPool, curIdx, connId, lookVars, crowded, mapRaced>>

\* Mutant: the counter is incremented by whoever made the device, too.
Mut_CountTwice(r) ==
  /\ add[r] = "taken"
  /\ add' = [add EXCEPT ![r] = "counted"]
  /\ m_numsMySql' = slot[r] + 2
  /\ UNCHANGED <<m_mySqlPool, curIdx, connId, slot, lookVars, crowded, mapRaced>>
\* ... and writes: another handler's increment in between is lost, or undone.
StoreCount(r) ==
  /\ add[r] = "taken"
  /\ add' = [add EXCEPT ![r] = "counted"]
  /\ m_numsMySql' = slot[r] + 1
  /\ UNCHANGED <<m_mySqlPool, curIdx, connId, slot, lookVars, crowded, mapRaced>>

\* m_mySqlPool[...]
InsertBegin(r) ==
  /\ add[r] = "counted"
  /\ add' = [add EXCEPT ![r] = "insert"]
  /\ MapBegin(r)
  /\ UNCHANGED <<m_numsMySql, m_mySqlPool, curIdx, connId, slot, lookVars, crowded>>

InsertEnd(r) ==
  /\ add[r] = "insert"
  /\ add' = [add EXCEPT ![r] = "inserted"]
  /\ MapEnd(slot[r])
  /\ UNCHANGED <<m_numsMySql, curIdx, connId, slot, lookVars, crowded, mapRaced>>

\* ... = {vd, true}; then the answer is curIdx.  An entry that was cut off
\* from the tree meanwhile takes the device along.
AssignDevice(r) ==
  /\ add[r] = "inserted"
  /\ add' = [add EXCEPT ![r] = "done"]
  /\ m_mySqlPool' = [j \in DOMAIN m_mySqlPool |->
                       IF j = slot[r] THEN r ELSE m_mySqlPool[j]]
  /\ UNCHANGED <<m_numsMySql, curIdx, connId, slot, lookVars, crowded, mapRaced>>

-----------------------------------------------------------------------------
(* createVirtualDeviceNode in a script: getMySqlDevice *)

LookBegin(s, i) ==
  /\ look[s] = "new"
  /\ look' = [look EXCEPT ![s] = "insert"]
  /\ asked' = [asked EXCEPT ![s] = i]
  /\ MapBegin(s)
  /\ UNCHANGED <<m_numsMySql, m_mySqlPool, addVars, found, crowded>>

\* Mutant: scripts count devices from 1.
Mut_FromOne(s) ==
  /\ look[s] = "insert"
  /\ look' = [look EXCEPT ![s] = "done"]
  /\ MapEnd(asked[s] + 1)
  /\ found' = [found EXCEPT ![s] = m_mySqlPool'[asked[s] + 1]]
  /\ UNCHANGED <<m_numsMySql, addVars, asked, crowded, mapRaced>>
\* A device that is not there, or not yet visible, is nullptr: a leaf made of
\* it has no device (GraphBuild).
LookEnd(s) ==
  /\ look[s] = "insert"
  /\ look' = [look EXCEPT ![s] = "done"]
  /\ MapEnd(asked[s])
  /\ found' = [found EXCEPT ![s] = m_mySqlPool'[asked[s]]]
  /\ UNCHANGED <<m_numsMySql, addVars, asked, crowded, mapRaced>>

AddStep(r) ==
  \/ ReadIndex(r) \/ NewDevice(r) \/ TakeIndex(r) \/ StoreCount(r)
  \/ InsertBegin(r) \/ InsertEnd(r) \/ AssignDevice(r)

Next ==
  \/ \E r \in Request : AddStep(r)
  \/ \E s \in Script : (\E i \in Asked : LookBegin(s, i)) \/ LookEnd(s)

Spec == Init /\ [][Next]_vars

-----------------------------------------------------------------------------
(* Properties *)

\* The requests that are answered and met no other request on their way.
Alone == {r \in Request : add[r] = "done" /\ r \notin crowded}

\* The index in the answer is the device's: whoever was alone with the counter
\* finds the device of that very request, and no other, under the index it was
\* told, for ever.  Requests that collide later, and make the counter go
\* backwards, take nothing from it.  (Not so if the tree was corrupted.)
AnswerNamesDevice ==
  mapRaced = {} =>
    \A r \in Alone :
      /\ curIdx[r] \in DOMAIN m_mySqlPool
      /\ m_mySqlPool[curIdx[r]] = r
      /\ connId[r] = curIdx[r]

\* A script that uses such an index gets that device: also when it asked for
\* the index before, and left an empty entry there.
ScriptGetsDevice ==
  [][\A s \in Script, r \in Alone :
       LookEnd(s) /\ asked[s] = curIdx[r] /\ mapRaced = {} => found'[s] = r]_vars

\* While requests come one at a time, indices are handed out without holes:
\* between two requests, the devices are those from 0 up to the counter.
\* (What /num answers for devices is the counter less one.)
IndicesAreDense ==
  mapRaced = {} /\ crowded = {} /\ Busy = {} =>
    {i \in DOMAIN m_mySqlPool : m_mySqlPool[i] # nullptr} = 0 .. m_numsMySql - 1
=============================================================================
