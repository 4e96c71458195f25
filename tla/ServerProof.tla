----------------------------- MODULE ServerProof -----------------------------
(***************************************************************************)
(* Proofs about Server, for any requests, any m_loopTime and any bound on  *)
(* the duration of a round; ExitIsClean for rounds shorter than m_loopTime.*)
(***************************************************************************)
EXTENDS ServerProps, TLAPS

\* Before the loop has been started nothing has happened.
StartInv ==
  main = "start" => ub = {} /\ \A r \in Request : handler[r] = "new"

\* The graphs behind the place where an unfinished push_back will write came
\* there while it was under way.
PushInv ==
  /\ \A r, q \in Pushing : r # q => r \in raced
  /\ \A r \in Pushing : \A i \in 1..Len(m_graphs) :
       i > mark[r] => m_graphs[i] \in raced

\* The graphs a loop has still to come to are others than those it started.
ItemsInv == loop = "build" => IsInjective(items) /\ running \cap ToSet(items) = {}

\* When main waits for its timer, the loop will have ended before.
TimeInv ==
  /\ main \in {"terminate", "exit", "ended"} => m_isTerminated
  /\ loop = "build" => elapsed = 0
  /\ loop = "run" => elapsed <= MaxRound
  /\ loop = "wait" => timer <= m_loopTime
  /\ main = "exit" =>
       /\ loop = "enter" => exit > 0
       /\ loop \in {"build", "run"} => MaxRound - elapsed + m_loopTime < exit
       /\ loop = "wait" => timer < exit
  /\ main = "ended" => loop = "off"

-----------------------------------------------------------------------------
(* Types *)

\* Every step keeps the types and what the loop has at hand.
LEMMA TypeStep ==
  ASSUME TypeInv, StartInv, [Next]_vars
  PROVE  TypeInv' /\ StartInv'
<1>1. ASSUME ExecMain PROVE TypeInv' /\ StartInv'
  <2> USE DEF TypeInv, TypeOK, LoopInv, StartInv, Signal, mainVars, loopVars, handlerVars, timers
  <2>1. CASE m_isTerminated /\ loop' = "off" /\ UNCHANGED <<items, stale, elapsed>>
    BY <1>1, <2>1 DEF ExecMain
  <2>2. CASE BeginRound
    BY <1>1, <2>2 DEF ExecMain, BeginRound
  <2>3. QED
    BY <1>1, <2>1, <2>2 DEF ExecMain
<1>2. ASSUME CreateGraphNode PROVE TypeInv' /\ StartInv'
  BY <1>2, ServerAssumption DEF CreateGraphNode, Kind, UBKinds, TypeInv, TypeOK, LoopInv, StartInv, Signal, mainVars, loopVars, handlerVars, timers
<1>3. ASSUME Start PROVE TypeInv' /\ StartInv'
  BY <1>3, ServerAssumption DEF Start, TypeInv, TypeOK, LoopInv, StartInv, Signal, mainVars, loopVars, handlerVars, timers
<1>4. ASSUME StartTimer PROVE TypeInv' /\ StartInv'
  BY <1>4, ServerAssumption DEF StartTimer, TypeInv, TypeOK, LoopInv, StartInv, Signal, mainVars, loopVars, handlerVars, timers
<1>5. ASSUME TimerCallback PROVE TypeInv' /\ StartInv'
  BY <1>5, ServerAssumption DEF TimerCallback, TypeInv, TypeOK, LoopInv, StartInv, Signal, mainVars, loopVars, handlerVars, timers
<1>6. ASSUME NEW g \in Request, GraphOver(g) PROVE TypeInv' /\ StartInv'
  BY <1>6, ServerAssumption DEF GraphOver, TypeInv, TypeOK, LoopInv, StartInv, Signal, mainVars, loopVars, handlerVars, timers
<1>7. ASSUME StartLoop PROVE TypeInv' /\ StartInv'
  BY <1>7, ServerAssumption DEF StartLoop, Goto, BeginRound, TypeInv, TypeOK, LoopInv, StartInv, Signal, mainVars, loopVars, handlerVars, timers
<1>8. ASSUME StartHttp PROVE TypeInv' /\ StartInv'
  BY <1>8, ServerAssumption DEF StartHttp, Goto, TypeInv, TypeOK, LoopInv, StartInv, Signal, mainVars, loopVars, handlerVars, timers
<1>9. ASSUME StartWeb PROVE TypeInv' /\ StartInv'
  BY <1>9, ServerAssumption DEF StartWeb, Goto, TypeInv, TypeOK, LoopInv, StartInv, Signal, mainVars, loopVars, handlerVars, timers
<1>10. ASSUME StopHttp PROVE TypeInv' /\ StartInv'
  BY <1>10, ServerAssumption DEF StopHttp, Goto, TypeInv, TypeOK, LoopInv, StartInv, Signal, mainVars, loopVars, handlerVars, timers
<1>11. ASSUME SetTerminated PROVE TypeInv' /\ StartInv'
  BY <1>11, ServerAssumption DEF SetTerminated, Goto, TypeInv, TypeOK, LoopInv, StartInv, Signal, mainVars, loopVars, handlerVars, timers
<1>12. ASSUME StartExitTimer PROVE TypeInv' /\ StartInv'
  BY <1>12, ServerAssumption DEF StartExitTimer, Goto, TypeInv, TypeOK, LoopInv, StartInv, Signal, mainVars, loopVars, handlerVars, timers
<1>13. ASSUME Return PROVE TypeInv' /\ StartInv'
  BY <1>13, ServerAssumption DEF Return, Goto, TypeInv, TypeOK, LoopInv, StartInv, Signal, mainVars, loopVars, handlerVars, timers
<1>14. ASSUME Tick PROVE TypeInv' /\ StartInv'
  BY <1>14, ServerAssumption DEF Tick, Less, Due, TypeInv, TypeOK, LoopInv, StartInv, Signal, mainVars, loopVars, handlerVars, timers
<1>15. ASSUME Crash PROVE TypeInv' /\ StartInv'
  BY <1>15, ServerAssumption DEF Crash, Goto, TypeInv, TypeOK, LoopInv, StartInv, Signal, mainVars, loopVars, handlerVars, timers
<1>16. ASSUME NEW r \in Request, AddGraph(r) PROVE TypeInv' /\ StartInv'
  BY <1>16, ServerAssumption DEF AddGraph, TypeInv, TypeOK, LoopInv, StartInv, Signal, mainVars, loopVars, handlerVars, timers
<1>17. ASSUME NEW r \in Request, PushBegin(r) PROVE TypeInv' /\ StartInv'
  BY <1>17, ServerAssumption DEF PushBegin, Pushing, Kind, UBKinds, TypeInv, TypeOK, LoopInv, StartInv, Signal, mainVars, loopVars, handlerVars, timers
<1>18. ASSUME NEW r \in Request, PushEnd(r) PROVE TypeInv' /\ StartInv'
  <2>1. m_graphs' \in Seq(Request) /\ capacity' \in Nat
    <3>1. /\ m_graphs \in Seq(Request) /\ capacity \in Nat /\ mark[r] \in Nat
      BY DEF TypeInv, TypeOK
    <3>2. /\ m_graphs' = Append(SubSeq(m_graphs, 1, Kept(r)), r)
          /\ capacity' = IF Kept(r) < capacity THEN capacity
                         ELSE IF capacity = 0 THEN 1 ELSE 2 * capacity
      BY <1>18 DEF PushEnd, Grow
    <3>3. Kept(r) \in 0..Len(m_graphs)
      BY <3>1 DEF Kept
    <3> QED
      BY <3>1, <3>2, <3>3
  <2>2. /\ UNCHANGED <<mainVars, loopVars, timers, raced, hasOut, ub>>
        /\ handler[r] = "pushing"
        /\ handler' = [handler EXCEPT ![r] = "done"]
        /\ mark' = [mark EXCEPT ![r] = 0]
        /\ stale' \in BOOLEAN
    BY <1>18 DEF PushEnd, TypeInv, TypeOK
  <2> QED
    BY <2>1, <2>2 DEF TypeInv, TypeOK, LoopInv, StartInv, mainVars, loopVars, timers
<1>19. ASSUME NEW r \in Request, TableAtGraph(r) PROVE TypeInv' /\ StartInv'
  BY <1>19, ServerAssumption DEF TableAtGraph, Kind, UBKinds, Pushing, Kept, TypeInv, TypeOK, LoopInv, StartInv, Signal, mainVars, loopVars, handlerVars, timers
<1>20. ASSUME NEW r \in Request, SetOutStruct(r) PROVE TypeInv' /\ StartInv'
  BY <1>20, ServerAssumption DEF SetOutStruct, TypeInv, TypeOK, LoopInv, StartInv, Signal, mainVars, loopVars, handlerVars, timers
<1>21. ASSUME NEW signo \in Signal, Receive(signo) PROVE TypeInv' /\ StartInv'
  BY <1>21, ServerAssumption DEF Receive, TypeInv, TypeOK, LoopInv, StartInv, Signal, mainVars, loopVars, handlerVars, timers
<1>22. CASE UNCHANGED vars
  BY <1>22 DEF vars, TypeInv, TypeOK, LoopInv, StartInv, Signal, mainVars, loopVars, handlerVars, timers
<1>23. QED
  BY <1>1, <1>2, <1>3, <1>4, <1>5, <1>6, <1>7, <1>8, <1>9, <1>10, <1>11, <1>12, <1>13, <1>14, <1>15, <1>16, <1>17, <1>18, <1>19, <1>20, <1>21, <1>22 DEF Next, Loop, Main, Handler

\* Spec => []TypeInv: whatever the order of callbacks, requests and signals,
\* every variable has its type and the loop only waits when no graph is left
\* running (pipeline.cpp:43-46).
THEOREM TypesAndStart == Spec => [](TypeInv /\ StartInv)
<1>1. Init => TypeInv /\ StartInv
  <2> SUFFICES ASSUME Init PROVE TypeInv /\ StartInv
    OBVIOUS
  <2>1. TypeOK
    <3>1. /\ main \in {"start", "http", "web", "wait", "stop", "terminate",
                      "exit", "ended", "crashed"}
          /\ onSignal \in [Signal -> {"sig_handler", "signal_kill"}]
          /\ loop \in {"off", "enter", "build", "run", "wait"}
      BY DEF Init
    <3>2. m_graphs \in Seq(Request) /\ items \in Seq(Request)
      BY DEF Init
    <3>3. /\ handler \in [Request -> {"new", "script", "pushing", "done"}]
          /\ mark \in [Request -> Nat]
      BY DEF Init
    <3>4. QED
      BY <3>1, <3>2, <3>3 DEF Init, TypeOK
  <2>2. LoopInv /\ StartInv
    BY DEF Init, LoopInv, StartInv
  <2>3. QED
    BY <2>1, <2>2 DEF TypeInv
<1>2. TypeInv /\ StartInv /\ [Next]_vars => (TypeInv /\ StartInv)'
  BY TypeStep
<1>3. QED
  BY <1>1, <1>2, PTL DEF Spec

THEOREM TypeCorrect == Spec => []TypeInv
BY TypesAndStart, PTL

-----------------------------------------------------------------------------
(* Graphs are kept *)

KeptInv == AcknowledgedIsKept /\ PushInv

\* Only the steps of a handler touch m_graphs.
LEMMA KeptStep ==
  ASSUME TypeInv, KeptInv, [Next]_vars
  PROVE  KeptInv'
<1>1. CASE UNCHANGED handlerVars
  BY <1>1 DEF KeptInv, AcknowledgedIsKept, PushInv, Pushing, handlerVars
<1>2. ASSUME NEW r \in Request, AddGraph(r) PROVE KeptInv'
  BY <1>2 DEF AddGraph, KeptInv, AcknowledgedIsKept, PushInv, Pushing, TypeInv, TypeOK
<1>3. ASSUME NEW r \in Request, PushBegin(r) PROVE KeptInv'
  <2>1. /\ Pushing' = Pushing \cup {r} /\ r \notin Pushing
        /\ raced \subseteq raced'
        /\ m_graphs' = m_graphs /\ mark'[r] = Len(m_graphs)
        /\ \A q \in Pushing : mark'[q] = mark[q]
    BY <1>3 DEF PushBegin, Pushing, TypeInv, TypeOK
  <2>2. Pushing # {} => Pushing \cup {r} \subseteq raced'
    BY <1>3 DEF PushBegin
  <2>3. AcknowledgedIsKept'
    BY <1>3, <2>1 DEF PushBegin, KeptInv, AcknowledgedIsKept, TypeInv, TypeOK
  <2>4. \A p, q \in Pushing' : p # q => p \in raced'
    BY <2>1, <2>2
  <2>5. Len(m_graphs) \in Nat
    BY DEF TypeInv, TypeOK
  <2>6. \A q \in Pushing' : \A i \in 1..Len(m_graphs') :
          i > mark'[q] => m_graphs'[i] \in raced'
    BY <2>1, <2>5 DEF KeptInv, PushInv
  <2>7. QED
    BY <2>3, <2>4, <2>6 DEF KeptInv, PushInv
<1>4. ASSUME NEW r \in Request, PushEnd(r) PROVE KeptInv'
  <2> DEFINE K == Kept(r)
  <2>1. /\ m_graphs \in Seq(Request) /\ Len(m_graphs) \in Nat /\ mark[r] \in Nat
        /\ handler \in [Request -> {"new", "script", "pushing", "done"}]
        /\ mark \in [Request -> Nat]
    BY DEF TypeInv, TypeOK
  <2>2. K \in 0..Len(m_graphs) /\ K <= mark[r] /\ (K = Len(m_graphs) \/ K = mark[r])
    BY <2>1 DEF Kept
  <2>3. m_graphs' = Append(SubSeq(m_graphs, 1, K), r)
    BY <1>4 DEF PushEnd, Grow
  <2> HIDE DEF K
  <2>4. /\ Len(m_graphs') = K + 1
        /\ \A i \in 1..K : m_graphs'[i] = m_graphs[i]
        /\ m_graphs'[K + 1] = r
    BY <2>1, <2>2, <2>3
  <2>5. /\ handler' = [handler EXCEPT ![r] = "done"]
        /\ handler[r] = "pushing" /\ raced' = raced
        /\ mark' = [mark EXCEPT ![r] = 0]
    BY <1>4 DEF PushEnd
  <2>6. \A i \in 1..Len(m_graphs) : handler[m_graphs[i]] = "done"
    BY <2>1 DEF KeptInv, AcknowledgedIsKept, ToSet
  <2>7. \A i \in 1..Len(m_graphs) : m_graphs[i] # r
    BY <2>5, <2>6
  <2>8. \A q \in Request : handler'[q] = "done" => q \in ToSet(m_graphs') \cup raced'
    <3> SUFFICES ASSUME NEW q \in Request, handler'[q] = "done", q \notin raced
                 PROVE  q \in ToSet(m_graphs')
      BY <2>5
    <3>0. DOMAIN m_graphs' = 1..(K + 1)
      BY <2>1, <2>2, <2>3
    <3>1. CASE q = r
      BY <3>0, <3>1, <2>2, <2>4 DEF ToSet
    <3>2. CASE q # r
      <4>1. handler[q] = "done"
        BY <3>2, <2>1, <2>5
      <4>2. PICK i \in 1..Len(m_graphs) : m_graphs[i] = q
        BY <4>1, <2>1 DEF KeptInv, AcknowledgedIsKept, ToSet
      <4>3. ~(i > mark[r])
        BY <4>2, <2>5 DEF KeptInv, PushInv, Pushing
      <4>4. i \in 1..K
        BY <4>3, <2>1, <2>2
      <4>5. QED
        BY <3>0, <4>2, <4>4, <2>2, <2>4 DEF ToSet
    <3>3. QED
      BY <3>1, <3>2
  <2>9. \A g \in ToSet(m_graphs') : handler'[g] = "done"
    <3> SUFFICES ASSUME NEW i \in 1..(K + 1) PROVE handler'[m_graphs'[i]] = "done"
      BY <2>1, <2>2, <2>3, <2>4 DEF ToSet
    <3>1. CASE i = K + 1
      BY <3>1, <2>1, <2>4, <2>5
    <3>2. CASE i \in 1..K
      <4>1. m_graphs'[i] = m_graphs[i] /\ i \in 1..Len(m_graphs)
        BY <3>2, <2>1, <2>2, <2>4
      <4>2. m_graphs[i] \in Request
        BY <4>1, <2>1
      <4>3. QED
        BY <4>1, <4>2, <2>1, <2>5, <2>6
    <3>3. QED
      BY <3>1, <3>2, <2>1, <2>2
  <2>10. IsInjective(m_graphs')
    <3>1. \A i, j \in 1..Len(m_graphs) : m_graphs[i] = m_graphs[j] => i = j
      BY <2>1 DEF KeptInv, AcknowledgedIsKept, IsInjective
    <3>2. DOMAIN m_graphs' = 1..(K + 1)
      BY <2>1, <2>2, <2>3
    <3>3. \A i, j \in 1..(K + 1) : m_graphs'[i] = m_graphs'[j] => i = j
      BY <3>1, <2>1, <2>2, <2>4, <2>7
    <3>4. QED
      BY <3>2, <3>3 DEF IsInjective
  <2>11. Pushing' = Pushing \ {r} /\ r \in Pushing
    BY <2>1, <2>5 DEF Pushing
  <2>12. ASSUME NEW q \in Pushing', NEW i \in 1..Len(m_graphs'), i > mark'[q]
         PROVE  m_graphs'[i] \in raced'
    <3>1. q \in Pushing /\ q # r /\ mark'[q] = mark[q]
      BY <2>1, <2>5, <2>11 DEF Pushing
    <3>2. CASE i = K + 1
      BY <3>1, <3>2, <2>4, <2>5, <2>11 DEF KeptInv, PushInv
    <3>3. CASE i \in 1..K
      <4>1. m_graphs'[i] = m_graphs[i] /\ i \in 1..Len(m_graphs) /\ i > mark[q]
        BY <3>1, <3>3, <2>1, <2>2, <2>4, <2>12
      <4>2. QED
        BY <3>1, <4>1, <2>5 DEF KeptInv, PushInv
    <3>4. QED
      BY <3>2, <3>3, <2>2, <2>4
  <2>13. PushInv'
    BY <2>5, <2>11, <2>12 DEF KeptInv, PushInv
  <2>14. QED
    BY <2>8, <2>9, <2>10, <2>13 DEF KeptInv, AcknowledgedIsKept
<1>5. QED
  BY <1>1, <1>2, <1>3, <1>4 DEF Next, Loop, Main, Handler, vars, handlerVars,
       ExecMain, CreateGraphNode, Start, StartTimer, TimerCallback,
       GraphOver, StartLoop, StartHttp, StartWeb, StopHttp,
       SetTerminated, StartExitTimer, Return, Tick, Crash,
       TableAtGraph, SetOutStruct, Receive

\* Spec => []AcknowledgedIsKept: however handlers interleave, a graph whose
\* request is answered stays in m_graphs unless its push_back overlapped
\* another one (pipeline.cpp:97).
THEOREM GraphsAreKept == Spec => []AcknowledgedIsKept
<1>1. Init => KeptInv
  BY DEF Init, KeptInv, AcknowledgedIsKept, PushInv, Pushing, ToSet, IsInjective
<1>2. TypeInv /\ KeptInv /\ [Next]_vars => KeptInv'
  BY KeptStep
<1>3. KeptInv => AcknowledgedIsKept
  BY DEF KeptInv
<1>4. QED
  BY <1>1, <1>2, <1>3, TypeCorrect, PTL DEF Spec

-----------------------------------------------------------------------------
(* Rounds do not overlap *)

\* The items of a loop are distinct, as the graphs of m_graphs are, and none
\* of them has been started in this round.
LEMMA ItemsStep ==
  ASSUME TypeInv, AcknowledgedIsKept, ItemsInv, [Next]_vars
  PROVE  ItemsInv'
<1>1. CASE UNCHANGED loopVars
  BY <1>1 DEF ItemsInv, loopVars
<1>2. CASE loop' # "build"
  BY <1>2 DEF ItemsInv
<1>3. CASE BeginRound /\ loop \in {"off", "enter"} /\ UNCHANGED running
  <2>1. items' = m_graphs /\ running' = {}
    BY <1>3 DEF BeginRound, TypeInv, LoopInv
  <2>2. IsInjective(items')
    BY <2>1 DEF AcknowledgedIsKept
  <2>3. QED
    BY <2>1, <2>2 DEF ItemsInv
<1>4. CASE CreateGraphNode
  <2>1. /\ loop = "build" /\ items # <<>> /\ items \in Seq(Request)
        /\ items' = Tail(items)
        /\ running' = running \cup ({Head(items)} \ Refused)
    BY <1>4 DEF CreateGraphNode, TypeInv, TypeOK
  <2>2. /\ Len(items) \in Nat \ {0} /\ DOMAIN items = 1..Len(items)
        /\ DOMAIN items' = 1..(Len(items) - 1)
        /\ \A i \in 1..(Len(items) - 1) : items'[i] = items[i + 1]
        /\ Head(items) = items[1]
    BY <2>1
  <2>3. \A i, j \in 1..Len(items) : items[i] = items[j] => i = j
    BY <2>1, <2>2 DEF ItemsInv, IsInjective
  <2>4. IsInjective(items')
    <3>1. \A i, j \in 1..(Len(items) - 1) : items'[i] = items'[j] => i = j
      BY <2>2, <2>3
    <3>2. QED
      BY <3>1, <2>2 DEF IsInjective
  <2>5. ASSUME NEW i \in 1..(Len(items) - 1) PROVE items'[i] \notin running'
    <3>1. items'[i] = items[i + 1] /\ i + 1 \in 1..Len(items) /\ 1 \in 1..Len(items)
      BY <2>2
    <3>2. items[i + 1] # items[1]
      BY <3>1, <2>3
    <3>3. items[i + 1] \notin running
      BY <3>1, <2>1, <2>2 DEF ItemsInv, ToSet
    <3>4. QED
      BY <3>1, <3>2, <3>3, <2>1, <2>2
  <2>6. running' \cap ToSet(items') = {}
    BY <2>2, <2>5 DEF ToSet
  <2>7. QED
    BY <2>4, <2>6 DEF ItemsInv
<1>5. QED
  BY <1>1, <1>2, <1>3, <1>4 DEF Next, Loop, Main, Handler, vars, loopVars, Goto,
       TypeInv, LoopInv,
       ExecMain, Start, StartTimer, TimerCallback, GraphOver,
       StartLoop, StartHttp, StartWeb, StopHttp, SetTerminated,
       StartExitTimer, Return, Tick, Crash, AddGraph,
       PushBegin, PushEnd, TableAtGraph, SetOutStruct, Receive

\* Spec => RoundsDoNotOverlap: a graph is generated again only when its task
\* of the round before is over (pipeline.cpp:43-46).
THEOREM NoOverlap == Spec => RoundsDoNotOverlap
<1>1. Init => ItemsInv
  BY DEF Init, ItemsInv
<1>2. TypeInv /\ AcknowledgedIsKept /\ ItemsInv /\ [Next]_vars => ItemsInv'
  BY ItemsStep
<1>3. TypeInv /\ ItemsInv /\ [Next]_vars =>
        [\A g \in Request : CreateGraphNode /\ Head(items) = g => g \notin running]_vars
  <2> SUFFICES ASSUME TypeInv, ItemsInv, NEW g \in Request, CreateGraphNode,
                      Head(items) = g
               PROVE  g \notin running
    OBVIOUS
  <2>1. loop = "build" /\ items # <<>> /\ items \in Seq(Request)
    BY DEF CreateGraphNode, TypeInv, TypeOK
  <2>2. Head(items) \in ToSet(items)
    BY <2>1 DEF ToSet
  <2>3. QED
    BY <2>1, <2>2 DEF ItemsInv
<1>4. QED
  BY <1>1, <1>2, <1>3, TypeCorrect, GraphsAreKept, PTL DEF Spec, RoundsDoNotOverlap

-----------------------------------------------------------------------------
(* The exit *)

\* While main waits for its timer, every state of the loop leaves it the time
\* to end: a round at its beginning needs MaxRound + m_loopTime seconds.
LEMMA TimeStep ==
  ASSUME TypeInv, TimeInv, [Next]_vars, MaxRound < m_loopTime
  PROVE  TimeInv'
<1> USE ServerAssumption DEF TimeInv
<1>0. /\ timer \in Nat /\ exit \in Nat /\ elapsed \in Nat
      /\ m_isTerminated \in BOOLEAN
  BY DEF TypeInv, TypeOK
<1>1. CASE UNCHANGED <<main, m_isTerminated, loop, timer, exit, elapsed>>
  BY <1>1
<1>2. ASSUME ExecMain PROVE TimeInv'
  BY <1>0, <1>2 DEF ExecMain, BeginRound, mainVars, loopVars, timers
<1>3. ASSUME Start PROVE TimeInv'
  BY <1>0, <1>3 DEF Start, mainVars, loopVars, timers
<1>4. ASSUME StartTimer PROVE TimeInv'
  BY <1>0, <1>4 DEF StartTimer, mainVars, loopVars, timers
<1>5. ASSUME TimerCallback PROVE TimeInv'
  BY <1>0, <1>5 DEF TimerCallback, mainVars, loopVars, timers
<1>6. ASSUME StartLoop PROVE TimeInv'
  BY <1>0, <1>6 DEF StartLoop, Goto, BeginRound, mainVars, loopVars, timers, TypeInv, TypeOK, LoopInv
<1>7. ASSUME StartHttp PROVE TimeInv'
  BY <1>0, <1>7 DEF StartHttp, Goto, mainVars, loopVars, timers
<1>8. ASSUME StartWeb PROVE TimeInv'
  BY <1>0, <1>8 DEF StartWeb, Goto, mainVars, loopVars, timers
<1>9. ASSUME StopHttp PROVE TimeInv'
  BY <1>0, <1>9 DEF StopHttp, Goto, mainVars, loopVars, timers
<1>10. ASSUME SetTerminated PROVE TimeInv'
  BY <1>0, <1>10 DEF SetTerminated, Goto, mainVars, loopVars, timers
<1>11. ASSUME StartExitTimer PROVE TimeInv'
  BY <1>0, <1>11 DEF StartExitTimer, Goto, mainVars, loopVars, timers
<1>12. ASSUME Return PROVE TimeInv'
  BY <1>0, <1>12 DEF Return, Goto, mainVars, loopVars, timers, TypeInv, TypeOK, LoopInv
<1>13. ASSUME Tick PROVE TimeInv'
  BY <1>0, <1>13 DEF Tick, Less, Due, mainVars, loopVars, timers, TypeInv, TypeOK, LoopInv
<1>14. ASSUME Crash PROVE TimeInv'
  BY <1>0, <1>14 DEF Crash, Goto, mainVars, loopVars, timers
<1>15. QED
  BY <1>1, <1>2, <1>3, <1>4, <1>5, <1>6, <1>7, <1>8, <1>9, <1>10, <1>11, <1>12, <1>13, <1>14 DEF Next, Loop, Main, Handler, vars, mainVars, loopVars, timers,
       CreateGraphNode, GraphOver, AddGraph, PushBegin, PushEnd,
       TableAtGraph, SetOutStruct, Receive

\* Spec => []ExitIsClean for rounds shorter than m_loopTime: the time main
\* waits, twice m_loopTime (main.cpp:79), is enough for a round that had just
\* begun, and for the timer behind it.
THEOREM MainExitsCleanly ==
  ASSUME MaxRound < m_loopTime
  PROVE  Spec => []ExitIsClean
<1>1. Init => TimeInv
  BY ServerAssumption DEF Init, TimeInv
<1>2. TypeInv /\ TimeInv /\ [Next]_vars => TimeInv'
  BY TimeStep
<1>3. TypeInv /\ TimeInv => ExitIsClean
  BY DEF TypeInv, LoopInv, TimeInv, ExitIsClean
<1>4. QED
  BY <1>1, <1>2, <1>3, TypeCorrect, PTL DEF Spec
=============================================================================
