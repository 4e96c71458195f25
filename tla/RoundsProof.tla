----------------------------- MODULE RoundsProof -----------------------------
(***************************************************************************)
(* More theorems about ComputeGraph, for every accepted graph: where its   *)
(* races are, what they and failing tasks can do to a round, that a round  *)
(* without either ends with a new output, and what there is of the end of  *)
(* every round that is not a matter of fairness: it never stalls, and it   *)
(* takes a bounded number of steps.                                        *)
(***************************************************************************)
EXTENDS ComputeGraphProof, FiniteSetTheorems

\* What ComputeGraphProof has shown.
Base == TypeOK /\ StageInv /\ FlowInv /\ InputsInv

LEMMA BaseHolds == Spec => []Base
BY TypesAndStages, FlowCorrect, InputsCorrect, PTL DEF Base

-----------------------------------------------------------------------------
(* Races *)

\* The nodes whose task or callback is under way.
Active(n) == pc[n] \notin {"wait", "done"}

\* A node waits as long as one on a path to it is not done: the nodes that
\* wait, with one that is not done, are closed under NextNode.
LEMMA PathsWait ==
  ASSUME FlowInv, NEW m \in Node, NEW n \in Node, m # n, <<m, n>> \in Path,
         pc[m] # "done"
  PROVE  pc[n] = "wait"
<1> DEFINE S == {m} \cup {s \in Node : pc[s] = "wait"}
<1>1. ASSUME NEW s \in S
      PROVE  NextNode[s] \in S \cup {nullptr}
  <2>1. s \in Node /\ pc[s] # "done"
    OBVIOUS
  <2>2. CASE NextNode[s] \in Node
    BY <2>1, <2>2 DEF FlowInv, Pred
  <2> QED
    BY <2>1, <2>2, NextFacts
<1>2. S \in SUBSET Node /\ m \in S
  OBVIOUS
<1> HIDE DEF S
<1>3. n \in S
  BY <1>1, <1>2 DEF Path
<1> QED
  BY <1>3 DEF S

LEMMA ActiveAreUnrelated ==
  ASSUME FlowInv, NEW m \in Node, NEW n \in Node, m # n, Active(m), Active(n)
  PROVE  Unrelated(m, n)
BY PathsWait DEF Active, Unrelated

\* What a step of a node adds to what has raced and failed.
LEMMA NodeStepRaced ==
  ASSUME TypeOK, StageInv, NEW n \in Node, NodeStep(n)
  PROVE  /\ failed \subseteq failed' /\ ub \subseteq ub'
         /\ \A t \in Vector :
              \/ raced'[t] = raced[t]
              \/ /\ raced'[t] = raced[t] \cup Pushing(t) \cup {n}
                 /\ Pushing(t) # {} /\ n \notin Pushing(t) /\ Active(n)
<1> USE DEF TypeOK, At
<1>1. CASE ShareBegin(n) \/ PassBegin(n)
  <2>1. PICK t \in Vector : PushBegin(n, t)
    BY <1>1, NextFacts DEF ShareBegin, PassBegin, StageInv, Vector
  <2>2. pc[n] \in {"share", "pass"}
    BY <1>1 DEF ShareBegin, PassBegin
  <2>3. \A u \in Vector : n \notin Pushing(u)
    BY <2>2 DEF Pushing
  <2> QED
    BY <1>1, <2>1, <2>2, <2>3 DEF PushBegin, Active, ShareBegin, PassBegin
<1>2. CASE ~(ShareBegin(n) \/ PassBegin(n))
  BY <1>2 DEF NodeStep, LeafFail, LeafReply, LeafNoRows, ShareEnd, OpFail, OpStart,
              OpRun, OpRefuse, OpRaise, PassEnd, SetOutStruct, SetResult
<1> QED
  BY <1>1, <1>2

RacedInv == \A t \in Vector : raced[t] # {} => \E m, n \in raced[t] : Unrelated(m, n)

LEMMA RacedStep ==
  ASSUME Base, RacedInv, [Next]_vars
  PROVE  RacedInv'
<1> USE DEF Base
<1>1. CASE GenerateGraphTask
  BY <1>1 DEF GenerateGraphTask, RacedInv
<1>2. ASSUME NEW n \in Node, NodeStep(n)
      PROVE  RacedInv'
  <2> SUFFICES ASSUME NEW t \in Vector, raced'[t] # {}
               PROVE  \E a, b \in raced'[t] : Unrelated(a, b)
    BY DEF RacedInv, Unrelated
  <2>1. CASE raced'[t] = raced[t]
    BY <2>1 DEF RacedInv
  <2>2. CASE raced'[t] # raced[t]
    <3>1. /\ raced'[t] = raced[t] \cup Pushing(t) \cup {n}
          /\ Pushing(t) # {} /\ n \notin Pushing(t) /\ Active(n)
      BY <1>2, <2>2, NodeStepRaced
    <3>2. PICK m \in Pushing(t) : TRUE
      BY <3>1
    <3>3. m \in Node /\ m # n /\ Active(m)
      BY <3>1, <3>2 DEF Pushing, Pred, Active
    <3>4. Unrelated(m, n)
      BY <3>1, <3>3, ActiveAreUnrelated
    <3> QED
      BY <3>1, <3>2, <3>4
  <2> QED
    BY <2>1, <2>2
<1>3. CASE GraphCallback \/ Crash \/ UNCHANGED vars
  BY <1>3 DEF GraphCallback, Crash, vars, RacedInv
<1> QED
  BY <1>1, <1>2, <1>3 DEF Next

\* In every accepted graph, whatever fails: two nodes that collide, on a
\* vector, in the Lua state or in the output, have no path between them
\* (the edges of cbComputeGraph.cpp:569 order all others).
THEOREM OnlyParallelNodesRace == Spec => []RacesNeedParallelNodes
<1>1. Init => RacedInv
  BY DEF Init, RacedInv
<1>2. Base /\ RacedInv /\ [Next]_vars => RacedInv'
  BY RacedStep
<1>3. Base /\ RacedInv => RacesNeedParallelNodes
  <2> SUFFICES ASSUME Base, RacedInv
               PROVE  RacesNeedParallelNodes
    OBVIOUS
  <2>1. ASSUME NEW m \in Node, NEW n \in Node, m # n,
               \/ pc[m] = "exec" /\ pc[n] = "exec"
               \/ Publishing(m) /\ Publishing(n)
        PROVE  Unrelated(m, n)
    BY <2>1, ActiveAreUnrelated DEF Base, Active, Publishing
  <2> QED
    BY <2>1 DEF RacesNeedParallelNodes, RacedInv
<1> QED
  BY <1>1, <1>2, <1>3, BaseHolds, PTL DEF Spec

-----------------------------------------------------------------------------
(* Lost tables *)

\* Node p is behind its push_back on vector t.
Handed(t, p) ==
  IF t = m_dataFromDevice THEN p \in Leaf /\ Shared(p) ELSE NextNode[p] = t /\ Passed(p)

\* Why nothing is lost without a trace: a node alone on a vector writes at its
\* end, and what has been appended behind the mark of another collided with it.
KeptInv ==
  phase = "running" =>
    \A t \in Vector :
      /\ \A p \in Node : Handed(t, p) => p \in Sources(t) \cup failed \cup raced[t]
      /\ \A p \in Pushing(t) :
           /\ p \notin raced[t] => Pushing(t) = {p} /\ mark[p] = Len(vec[t])
           /\ \A i \in 1..Len(vec[t]) : i > mark[p] => vec[t][i].src \in raced[t]

\* The steps of a node that begin a push_back,
LEMMA BeginMoves ==
  ASSUME TypeOK, StageInv, NEW n \in Node, ShareBegin(n) \/ PassBegin(n)
  PROVE  \E t \in Vector :
           /\ PushBegin(n, t) /\ vec' = vec /\ failed' = failed
           /\ n \notin Pushing(t) /\ Pushing(t)' = Pushing(t) \cup {n}
           /\ \A u \in Vector \ {t} : Pushing(u)' = Pushing(u) /\ n \notin Pushing(u)
           /\ \A u \in Vector, p \in Node : Handed(u, p)' => Handed(u, p)
<1> USE NodesAssumption DEF TypeOK, At, Goto, Pushing, Pred, Handed, Shared, Passed, Node, Vector
<1>1. CASE ShareBegin(n)
  <2>1. /\ PushBegin(n, m_dataFromDevice) /\ vec' = vec /\ failed' = failed
        /\ pc[n] = "share" /\ pc' = [pc EXCEPT ![n] = "sharing"] /\ n \in Leaf
    BY <1>1 DEF ShareBegin, StageInv
  <2>2. /\ n \notin Pushing(m_dataFromDevice)
        /\ Pushing(m_dataFromDevice)' = Pushing(m_dataFromDevice) \cup {n}
    BY <2>1
  <2>3. \A u \in Vector \ {m_dataFromDevice} : Pushing(u)' = Pushing(u) /\ n \notin Pushing(u)
    BY <2>1
  <2>4. \A u \in Vector, p \in Node : Handed(u, p)' => Handed(u, p)
    BY <2>1
  <2> QED
    BY <2>1, <2>2, <2>3, <2>4
<1>2. CASE PassBegin(n)
  <2> DEFINE t == NextNode[n]
  <2>1. /\ PushBegin(n, t) /\ vec' = vec /\ failed' = failed
        /\ pc[n] = "pass" /\ pc' = [pc EXCEPT ![n] = "passing"]
        /\ t \in Node /\ t \in Vector
    BY <1>2, NextFacts DEF PassBegin, StageInv
  <2>2. n \notin Pushing(t) /\ Pushing(t)' = Pushing(t) \cup {n}
    BY <2>1
  <2>3. \A u \in Vector \ {t} : Pushing(u)' = Pushing(u) /\ n \notin Pushing(u)
    BY <2>1
  <2>4. \A u \in Vector, p \in Node : Handed(u, p)' => Handed(u, p)
    BY <2>1
  <2> QED
    BY <2>1, <2>2, <2>3, <2>4
<1> QED
  BY <1>1, <1>2

\* ... that end one,
LEMMA EndMoves ==
  ASSUME TypeOK, StageInv, NEW n \in Node, ShareEnd(n) \/ PassEnd(n)
  PROVE  \E t \in Vector :
           /\ PushEnd(n, t) /\ raced' = raced /\ failed' = failed
           /\ n \in Pushing(t) /\ Pushing(t)' = Pushing(t) \ {n}
           /\ \A u \in Vector \ {t} : Pushing(u)' = Pushing(u) /\ n \notin Pushing(u)
           /\ \A u \in Vector, p \in Node :
                Handed(u, p)' => Handed(u, p) \/ (u = t /\ p = n)
<1> USE NodesAssumption DEF TypeOK, At, Goto, Pushing, Pred, Handed, Shared, Passed, Node, Vector
<1>1. CASE ShareEnd(n)
  <2>1. /\ PushEnd(n, m_dataFromDevice) /\ raced' = raced /\ failed' = failed
        /\ pc[n] = "sharing" /\ n \in Leaf
        /\ pc' = [pc EXCEPT ![n] = AfterShare(n)]
    BY <1>1 DEF ShareEnd, StageInv
  <2>2. /\ pc'[n] \in {"pass", "struct", "done"}
        /\ pc'[n] # "pass" => NextNode[n] = nullptr
        /\ \A p \in Node \ {n} : pc'[p] = pc[p]
    BY <2>1 DEF AfterShare, AfterPass, HasNext
  <2>3. /\ n \in Pushing(m_dataFromDevice)
        /\ Pushing(m_dataFromDevice)' = Pushing(m_dataFromDevice) \ {n}
    BY <2>1, <2>2
  <2>4. \A u \in Vector \ {m_dataFromDevice} : Pushing(u)' = Pushing(u) /\ n \notin Pushing(u)
    BY <2>1, <2>2
  <2>5. \A u \in Vector, p \in Node :
          Handed(u, p)' => Handed(u, p) \/ (u = m_dataFromDevice /\ p = n)
    BY <2>1, <2>2
  <2> QED
    BY <2>1, <2>3, <2>4, <2>5
<1>2. CASE PassEnd(n)
  <2> DEFINE t == NextNode[n]
  <2>1. /\ PushEnd(n, t) /\ raced' = raced /\ failed' = failed
        /\ pc[n] = "passing" /\ t \in Node /\ t \in Vector
        /\ pc' = [pc EXCEPT ![n] = IF n \in Leaf THEN AfterPass(n) ELSE "done"]
    BY <1>2, NextFacts DEF PassEnd, StageInv
  <2>2. /\ pc'[n] \in {"struct", "done"}
        /\ \A p \in Node \ {n} : pc'[p] = pc[p]
    BY <2>1 DEF AfterPass
  <2>3. n \in Pushing(t) /\ Pushing(t)' = Pushing(t) \ {n}
    BY <2>1, <2>2
  <2>4. ASSUME NEW u \in Vector, u # t
        PROVE  Pushing(u)' = Pushing(u) /\ n \notin Pushing(u)
    <3>1. CASE u = m_dataFromDevice
      BY <2>1, <2>2, <3>1
    <3>2. CASE u # m_dataFromDevice
      BY <2>1, <2>2, <2>4, <3>2
    <3> QED
      BY <3>1, <3>2
  <2>5. \A u \in Vector, p \in Node : Handed(u, p)' => Handed(u, p) \/ (u = t /\ p = n)
    BY <2>1, <2>2
  <2> HIDE DEF t, Pushing, Handed, Shared, Passed
  <2> QED
    BY <2>1, <2>3, <2>4, <2>5
<1> QED
  BY <1>1, <1>2

\* ... and all others.
LEMMA OtherMoves ==
  ASSUME TypeOK, StageInv, NEW n \in Node, NodeStep(n),
         ~(ShareBegin(n) \/ PassBegin(n) \/ ShareEnd(n) \/ PassEnd(n))
  PROVE  /\ vec' = vec /\ mark' = mark /\ raced' = raced /\ failed \subseteq failed'
         /\ \A u \in Vector : Pushing(u)' = Pushing(u)
         /\ \A u \in Vector, p \in Node : Handed(u, p)' => Handed(u, p) \/ p \in failed'
<1> USE NodesAssumption DEF TypeOK, At, Goto, Ready
<1>1. /\ vec' = vec /\ mark' = mark /\ raced' = raced /\ failed \subseteq failed'
      /\ \A p \in Node \ {n} : pc'[p] = pc[p]
      /\ pc[n] \notin {"sharing", "passing"} /\ pc'[n] \notin {"sharing", "passing"}
  BY DEF NodeStep, LeafFail, LeafReply, LeafNoRows, OpFail, OpStart, OpRun, OpRefuse,
         OpRaise, SetOutStruct, SetResult, AfterExec, AfterPublish
<1>2. \A u \in Vector : Pushing(u)' = Pushing(u)
  BY <1>1 DEF Pushing, Pred
<1>3. \/ n \in failed'
      \/ pc'[n] = "share"
      \/ n \in Operator /\ (pc'[n] # "done" \/ ~HasNext(n))
      \/ n \in Leaf /\ pc[n] \in {"struct", "result"}
  BY DEF NodeStep, LeafFail, LeafReply, LeafNoRows, OpFail, OpStart, OpRun, OpRefuse,
         OpRaise, SetOutStruct, SetResult, AfterExec, AfterPublish, Node
<1>4. ASSUME NEW u \in Vector, Handed(u, n)'
      PROVE  Handed(u, n) \/ n \in failed'
  BY <1>3, <1>4, NextFacts DEF Handed, Shared, Passed, HasNext, Vector
<1>5. \A u \in Vector, p \in Node \ {n} : Handed(u, p)' => Handed(u, p)
  BY <1>1 DEF Handed, Shared, Passed
<1> QED
  BY <1>1, <1>2, <1>4, <1>5

\* The end of a push_back keeps KeptInv of its vector.
LEMMA KeptPushEnd ==
  ASSUME Base, KeptInv, phase = "running", NEW n \in Node, NEW t \in Vector,
         PushEnd(n, t), raced' = raced, failed' = failed,
         n \in Pushing(t), Pushing(t)' = Pushing(t) \ {n},
         \A p \in Node : Handed(t, p)' => Handed(t, p) \/ p = n
  PROVE  /\ \A p \in Node : Handed(t, p)' => p \in Sources(t)' \cup failed' \cup raced'[t]
         /\ \A p \in Pushing(t)' :
              /\ p \notin raced'[t] => Pushing(t)' = {p} /\ mark'[p] = Len(vec'[t])
              /\ \A i \in 1..Len(vec'[t]) : i > mark'[p] => vec'[t][i].src \in raced'[t]
<1> DEFINE K == Kept(n, t)
<1> USE DEF Base
<1>1. /\ K \in 0..Len(vec[t])
      /\ Len(vec'[t]) = K + 1
      /\ \A i \in 1..K : vec'[t][i] = vec[t][i]
      /\ vec'[t][K + 1] = out[n]
  BY PushEndVec
<1>2. out[n].src = n
  BY DEF InputsInv
<1>3. /\ Len(vec[t]) \in Nat /\ mark[n] \in Nat
      /\ \A p \in Node \ {n} : mark'[p] = mark[p] /\ mark[p] \in Nat
      /\ Pushing(t) \subseteq Node
  BY DEF TypeOK, PushEnd, Pushing, Pred
<1>4. K = IF mark[n] < Len(vec[t]) THEN mark[n] ELSE Len(vec[t])
  BY DEF Kept
<1>5. /\ \A p \in Node : Handed(t, p) => p \in Sources(t) \cup failed \cup raced[t]
      /\ \A p \in Pushing(t) :
           /\ p \notin raced[t] => Pushing(t) = {p} /\ mark[p] = Len(vec[t])
           /\ \A i \in 1..Len(vec[t]) : i > mark[p] => vec[t][i].src \in raced[t]
  BY DEF KeptInv
<1> HIDE DEF K
<1>6. n \in Sources(t)'
  <2>1. K + 1 \in 1..Len(vec'[t])
    BY <1>1, <1>3
  <2> QED
    BY <1>1, <1>2, <2>1 DEF Sources
<1>7. ASSUME NEW i \in 1..Len(vec[t])
      PROVE  vec[t][i].src \in Sources(t)' \cup raced[t]
  <2>1. CASE i <= K
    <3>1. i \in 1..K /\ i \in 1..Len(vec'[t])
      BY <1>1, <1>3, <2>1
    <3> QED
      BY <1>1, <3>1 DEF Sources
  <2>2. CASE ~(i <= K)
    <3>1. i > mark[n] /\ mark[n] # Len(vec[t])
      BY <1>1, <1>3, <1>4, <2>2
    <3> QED
      BY <1>5, <3>1
  <2> QED
    BY <2>1, <2>2
<1>8. ASSUME NEW p \in Node, Handed(t, p)'
      PROVE  p \in Sources(t)' \cup failed' \cup raced'[t]
  <2>1. CASE p = n
    BY <1>6, <2>1
  <2>2. CASE p # n
    <3>1. p \in Sources(t) \cup failed \cup raced[t]
      BY <1>5, <1>8, <2>2
    <3>2. p \in Sources(t) => p \in Sources(t)' \cup raced[t]
      BY <1>7 DEF Sources
    <3> QED
      BY <3>1, <3>2
  <2> QED
    BY <2>1, <2>2
<1>9. ASSUME NEW p \in Pushing(t)'
      PROVE  /\ p \in raced[t]
             /\ \A i \in 1..Len(vec'[t]) : i > mark'[p] => vec'[t][i].src \in raced[t]
  <2>1. p \in Pushing(t) /\ p # n /\ p \in Node /\ mark'[p] = mark[p] /\ mark[p] \in Nat
    BY <1>3, <1>9
  <2>2. p \in raced[t] /\ n \in raced[t]
    BY <1>5, <2>1
  <2>3. ASSUME NEW i \in 1..Len(vec'[t]), i > mark'[p]
        PROVE  vec'[t][i].src \in raced[t]
    <3>1. CASE i = K + 1
      BY <1>1, <1>2, <2>2, <3>1
    <3>2. CASE i # K + 1
      <4>1. i \in 1..K /\ i \in 1..Len(vec[t])
        BY <1>1, <1>3, <3>2
      <4> QED
        BY <1>1, <1>5, <2>1, <2>3, <4>1
    <3> QED
      BY <3>1, <3>2
  <2> QED
    BY <2>2, <2>3
<1> QED
  BY <1>8, <1>9

LEMMA KeptNodeStep ==
  ASSUME Base, KeptInv, NEW n \in Node, NodeStep(n)
  PROVE  KeptInv'
<1> USE DEF Base
<1>0. phase = "running" /\ phase' = "running"
  BY NodeStepMoves
<1> DEFINE Fine(t) ==
      /\ \A p \in Node : Handed(t, p) => p \in Sources(t) \cup failed \cup raced[t]
      /\ \A p \in Pushing(t) :
           /\ p \notin raced[t] => Pushing(t) = {p} /\ mark[p] = Len(vec[t])
           /\ \A i \in 1..Len(vec[t]) : i > mark[p] => vec[t][i].src \in raced[t]
<1>1. \A t \in Vector : Fine(t)
  BY <1>0 DEF KeptInv
<1> SUFFICES ASSUME NEW u \in Vector
             PROVE  Fine(u)'
  BY DEF KeptInv
<1>2. Pushing(u) \subseteq Node
  BY DEF Pushing, Pred
<1>3. CASE ShareBegin(n) \/ PassBegin(n)
  <2>1. PICK t \in Vector :
          /\ PushBegin(n, t) /\ vec' = vec /\ failed' = failed
          /\ n \notin Pushing(t) /\ Pushing(t)' = Pushing(t) \cup {n}
          /\ \A v \in Vector \ {t} : Pushing(v)' = Pushing(v) /\ n \notin Pushing(v)
          /\ \A v \in Vector, p \in Node : Handed(v, p)' => Handed(v, p)
    BY <1>3, BeginMoves
  <2>2. Sources(u)' = Sources(u)
    BY <2>1 DEF Sources
  <2>3. /\ mark' = [mark EXCEPT ![n] = Len(vec[t])]
        /\ \A p \in Node \ {n} : mark'[p] = mark[p]
        /\ mark'[n] = Len(vec[t]) /\ Len(vec[t]) \in Nat
        /\ raced[u] \subseteq raced'[u]
        /\ u # t => raced'[u] = raced[u]
        /\ Pushing(t) # {} => raced'[t] = raced[t] \cup Pushing(t) \cup {n}
    BY <2>1 DEF PushBegin, TypeOK
  <2>4. CASE u # t
    BY <1>1, <1>2, <2>1, <2>2, <2>3, <2>4
  <2>5. CASE u = t
    <3>1. \A p \in Node : Handed(u, p)' => p \in Sources(u)' \cup failed' \cup raced'[u]
      BY <1>1, <2>1, <2>2, <2>3
    <3>2. ASSUME NEW p \in Pushing(u)'
          PROVE  p \notin raced'[u] => Pushing(u)' = {p} /\ mark'[p] = Len(vec'[u])
      BY <2>1, <2>3, <2>5, <3>2
    <3>3. ASSUME NEW p \in Pushing(u)', NEW i \in 1..Len(vec'[u]), i > mark'[p]
          PROVE  vec'[u][i].src \in raced'[u]
      <4>1. p # n
        BY <2>1, <2>3, <2>5, <3>3
      <4> QED
        BY <1>1, <1>2, <2>1, <2>3, <2>5, <3>3, <4>1
    <3> QED
      BY <3>1, <3>2, <3>3
  <2> QED
    BY <2>4, <2>5
<1>4. CASE ShareEnd(n) \/ PassEnd(n)
  <2>1. PICK t \in Vector :
          /\ PushEnd(n, t) /\ raced' = raced /\ failed' = failed
          /\ n \in Pushing(t) /\ Pushing(t)' = Pushing(t) \ {n}
          /\ \A v \in Vector \ {t} : Pushing(v)' = Pushing(v) /\ n \notin Pushing(v)
          /\ \A v \in Vector, p \in Node :
               Handed(v, p)' => Handed(v, p) \/ (v = t /\ p = n)
    BY <1>4, EndMoves
  <2>2. CASE u = t
    BY <1>0, <2>1, <2>2, KeptPushEnd
  <2>3. CASE u # t
    <3>1. vec'[u] = vec[u] /\ Sources(u)' = Sources(u)
      BY <2>1, <2>3 DEF PushEnd, TypeOK, Sources
    <3>2. \A p \in Node \ {n} : mark'[p] = mark[p]
      BY <2>1 DEF PushEnd, TypeOK
    <3> QED
      BY <1>1, <1>2, <2>1, <2>3, <3>1, <3>2
  <2> QED
    BY <2>2, <2>3
<1>5. CASE ~(ShareBegin(n) \/ PassBegin(n) \/ ShareEnd(n) \/ PassEnd(n))
  <2>1. /\ vec' = vec /\ mark' = mark /\ raced' = raced /\ failed \subseteq failed'
        /\ Pushing(u)' = Pushing(u)
        /\ \A p \in Node : Handed(u, p)' => Handed(u, p) \/ p \in failed'
    BY <1>5, OtherMoves
  <2>2. Sources(u)' = Sources(u)
    BY <2>1 DEF Sources
  <2> QED
    BY <1>1, <2>1, <2>2
<1> QED
  BY <1>3, <1>4, <1>5

LEMMA KeptHolds == Spec => []KeptInv
<1>1. Init => KeptInv
  BY DEF Init, KeptInv
<1>2. Base /\ KeptInv /\ [Next]_vars => KeptInv'
  <2> SUFFICES ASSUME Base, KeptInv, [Next]_vars
               PROVE  KeptInv'
    OBVIOUS
  <2>1. CASE GenerateGraphTask
    <3>1. \A n \in Node : pc'[n] = "wait"
      BY <2>1 DEF GenerateGraphTask
    <3>2. \A t \in Vector : Pushing(t)' = {} /\ \A p \in Node : ~Handed(t, p)'
      BY <3>1 DEF Pushing, Pred, Handed, Shared, Passed
    <3> QED
      BY <3>2 DEF KeptInv
  <2>2. ASSUME NEW n \in Node, NodeStep(n)
        PROVE  KeptInv'
    BY <2>2, KeptNodeStep
  <2>3. CASE GraphCallback \/ Crash
    BY <2>3 DEF GraphCallback, Crash, KeptInv
  <2>4. CASE UNCHANGED vars
    BY <2>4 DEF vars, KeptInv, Handed, Shared, Passed, Sources, Pushing, Pred
  <2> QED
    BY <2>1, <2>2, <2>3, <2>4 DEF Next
<1> QED
  BY <1>1, <1>2, BaseHolds, PTL DEF Spec

\* In every accepted graph: a table that does not reach the inputs of its
\* node's successor, or the vector of shared tables, is of a task that failed
\* or was in a collision (the push_backs of cbComputeGraph.cpp:105, 109, 163).
THEOREM LossHasCause == Spec => []LostOnlyByCollision
<1>1. KeptInv => LostOnlyByCollision
  <2> SUFFICES ASSUME KeptInv, phase = "running"
               PROVE  LostOnlyByCollision
    BY DEF LostOnlyByCollision
  <2>1. \A t \in Vector, p \in Node : Handed(t, p) => p \in Sources(t) \cup failed \cup raced[t]
    BY DEF KeptInv
  <2>2. ASSUME NEW n \in Node, NEW p \in Node, NextNode[p] = n, Passed(p)
        PROVE  p \in Sources(n) \cup failed \cup raced[n]
    BY <2>1, <2>2, NodesAssumption DEF Handed, Vector
  <2>3. ASSUME NEW p \in Leaf, Shared(p)
        PROVE  p \in Sources(m_dataFromDevice) \cup failed \cup raced[m_dataFromDevice]
    BY <2>1, <2>3 DEF Handed, Vector, Node
  <2> QED
    BY <2>2, <2>3 DEF LostOnlyByCollision
<1> QED
  BY <1>1, KeptHolds, PTL

-----------------------------------------------------------------------------
(* The output *)

\* Between its two assignments a node's table is the structure's, and before
\* and after them structure and cells agree.
OutputInv ==
  /\ phase = "idle" => AllDone
  /\ "struct" \notin ub =>
       /\ \A n \in Node : pc[n] = "result" => outStruct = out[n]
       /\ (\A n \in Node : pc[n] # "result") => outStruct = graphO

\* Only the two assignments change the output, each in its stage.
LEMMA NodeStepOutput ==
  ASSUME TypeOK, StageInv, NEW n \in Node, NodeStep(n)
  PROVE  \/ SetOutStruct(n)
         \/ SetResult(n)
         \/ /\ outStruct' = outStruct /\ graphO' = graphO
            /\ pc[n] \notin {"struct", "result"} /\ pc'[n] # "result"
<1> USE DEF TypeOK, At, Goto, Ready
<1>1. CASE SetOutStruct(n) \/ SetResult(n)
  BY <1>1
<1>2. CASE ~(SetOutStruct(n) \/ SetResult(n))
  BY <1>2
  DEF NodeStep, LeafFail, LeafReply, LeafNoRows, ShareBegin, ShareEnd, OpFail, OpStart,
      OpRun, OpRefuse, OpRaise, PassBegin, PassEnd, AfterPass, AfterShare, AfterExec,
      AfterPublish
<1> QED
  BY <1>1, <1>2

LEMMA OutputStep ==
  ASSUME Base, OutputInv, [Next]_vars
  PROVE  OutputInv'
<1> USE DEF Base
<1>1. CASE GenerateGraphTask
  <2>1. \A n \in Node : pc[n] # "result" /\ pc'[n] # "result"
    BY <1>1 DEF GenerateGraphTask, OutputInv, AllDone
  <2> QED
    BY <1>1, <2>1 DEF GenerateGraphTask, OutputInv
<1>2. ASSUME NEW n \in Node, NodeStep(n), "struct" \notin ub'
      PROVE  /\ \A m \in Node : pc'[m] = "result" => outStruct' = out'[m]
             /\ (\A m \in Node : pc'[m] # "result") => outStruct' = graphO'
  <2>1. /\ "struct" \notin ub
        /\ \A m \in Node \ {n} : pc'[m] = pc[m] /\ out'[m] = out[m]
    BY <1>2, NodeStepRaced, NodeStepMoves, NodeStepOut
  <2>2. /\ \A m \in Node : pc[m] = "result" => outStruct = out[m]
        /\ (\A m \in Node : pc[m] # "result") => outStruct = graphO
    BY <2>1 DEF OutputInv
  <2>3. CASE SetOutStruct(n)
    <3>1. /\ \A m \in Node \ {n} : pc[m] # "result"
          /\ pc'[n] = "result" /\ outStruct' = out[n] /\ out' = out
      BY <1>2, <2>3 DEF SetOutStruct, Kind, Publishing, Goto, TypeOK
    <3> QED
      BY <2>1, <3>1
  <2>4. CASE SetResult(n)
    <3>1. /\ \A m \in Node \ {n} : pc[m] # "result"
          /\ pc[n] = "result" /\ graphO' = out[n] /\ outStruct' = outStruct
          /\ pc'[n] # "result"
      BY <1>2, <2>4 DEF SetResult, Kind, Publishing, At, Goto, TypeOK, AfterPublish
    <3> QED
      BY <2>1, <2>2, <3>1
  <2>5. CASE ~(SetOutStruct(n) \/ SetResult(n))
    BY <1>2, <2>1, <2>2, <2>5, NodeStepOutput
  <2> QED
    BY <2>3, <2>4, <2>5
<1>3. CASE GraphCallback
  <2>1. /\ ub \subseteq ub' /\ AllDone /\ pc' = pc
        /\ outStruct' = Freed(outStruct) /\ graphO' = Freed(graphO)
    BY <1>3 DEF GraphCallback, ClearMemory
  <2>2. AllDone' /\ \A n \in Node : pc[n] # "result"
    BY <2>1 DEF AllDone
  <2> QED
    BY <2>1, <2>2 DEF OutputInv
<1>4. CASE Crash \/ UNCHANGED vars
  BY <1>4 DEF Crash, vars, OutputInv, AllDone
<1>5. ASSUME NEW n \in Node, NodeStep(n)
      PROVE  OutputInv'
  BY <1>2, <1>5, NodeStepMoves DEF OutputInv
<1> QED
  BY <1>1, <1>3, <1>4, <1>5 DEF Next

LEMMA OutputHolds == Spec => []OutputInv
<1>1. Init => OutputInv
  BY DEF Init, OutputInv, AllDone
<1>2. Base /\ OutputInv /\ [Next]_vars => OutputInv'
  BY OutputStep
<1> QED
  BY <1>1, <1>2, BaseHolds, PTL DEF Spec

\* In every accepted graph, whatever failed in the rounds before: as long as no
\* two nodes published at once, structure and cells of the output are of one
\* table whenever nobody is between the two assignments
\* (cbComputeGraph.cpp:159-160).
THEOREM StructAgrees == Spec => []StructMatchesResult
<1>1. OutputInv => StructMatchesResult
  BY DEF OutputInv, StructMatchesResult
<1> QED
  BY <1>1, OutputHolds, PTL

-----------------------------------------------------------------------------
(* Rounds in which nothing fails *)

\* All inputs are there: the tables on the vector of a node whose predecessors
\* are done count its predecessors.
LEMMA AllInputs ==
  ASSUME Base, KeptInv, phase = "running", Clean, NEW n \in Node,
         \A p \in Pred(n) : pc[p] = "done"
  PROVE  Len(vec[n]) = Cardinality(Pred(n))
<1> DEFINE L == Len(vec[n])
           f == [i \in 1..L |-> vec[n][i].src]
<1> USE DEF Base
<1>1. L \in Nat
  BY DEF TypeOK, Vector
<1>2. \A i \in 1..L : vec[n][i].src \in Pred(n)
  BY DEF InputsInv, InputsAreThisRounds
<1>3. \A i, j \in 1..L : vec[n][i].src = vec[n][j].src => i = j
  BY DEF InputsInv, InputsAreThisRounds
<1>4. ASSUME NEW p \in Pred(n)
      PROVE  \E i \in 1..L : vec[n][i].src = p
  <2>1. p \in Node /\ NextNode[p] = n /\ pc[p] = "done" /\ n \in Vector /\ n # m_dataFromDevice
    BY NodesAssumption DEF Pred, Vector
  <2>2. Handed(n, p)
    BY <2>1 DEF Handed, Passed, Node
  <2>3. p \in Sources(n) \cup failed \cup raced[n]
    BY <2>1, <2>2 DEF KeptInv
  <2> QED
    BY <2>1, <2>3 DEF Clean, Sources
<1> HIDE DEF L
<1>5. f \in [1..L -> Pred(n)]
  BY <1>2
<1>6. f \in Bijection(1..L, Pred(n))
  BY <1>3, <1>4, <1>5 DEF Bijection, Injection, Surjection, IsInjective
<1>7. ExistsBijection(1..L, Pred(n))
  BY <1>6 DEF ExistsBijection
<1>8. Cardinality(Pred(n)) = L
  BY <1>1, <1>7, FS_CountingElements
<1> QED
  BY <1>8 DEF L

\* In such a round the tables made so far are whole and of this round, and the
\* sink publishes its own.
FreshInv ==
  phase = "running" /\ WellLinked /\ Clean =>
    /\ \A n \in Node :
         pc[n] \notin {"wait", "exec"} => out[n] = [src |-> n, mem |-> "live"]
    /\ pc[Sink] = "result" => outStruct = out[Sink]
    /\ pc[Sink] = "done" => outStruct = out[Sink] /\ graphO = out[Sink]

LEMMA FreshNodeStep ==
  ASSUME Base, KeptInv, FreshInv, NEW n \in Node, NodeStep(n), WellLinked, Clean'
  PROVE  /\ Clean
         /\ \A m \in Node :
              pc'[m] \notin {"wait", "exec"} => out'[m] = [src |-> m, mem |-> "live"]
         /\ pc'[Sink] = "result" => outStruct' = out'[Sink]
         /\ pc'[Sink] = "done" => outStruct' = out'[Sink] /\ graphO' = out'[Sink]
<1> USE DEF Base
<1>1. Clean
  BY NodeStepRaced DEF Clean
<1>2. phase = "running" /\ pc[n] # "done" /\ \A m \in Node \ {n} : pc'[m] = pc[m] /\ out'[m] = out[m]
  BY NodeStepMoves, NodeStepOut
<1>3. /\ \A m \in Node :
           pc[m] \notin {"wait", "exec"} => out[m] = [src |-> m, mem |-> "live"]
      /\ pc[Sink] = "result" => outStruct = out[Sink]
      /\ pc[Sink] = "done" => outStruct = out[Sink] /\ graphO = out[Sink]
  BY <1>1, <1>2 DEF FreshInv
<1>4. failed' = {}
  BY DEF Clean
<1>5. ~(LeafFail(n) \/ LeafNoRows(n) \/ OpFail(n) \/ OpRaise(n))
  BY <1>4 DEF LeafFail, LeafNoRows, OpFail, OpRaise
<1>6. ~OpRefuse(n)
  <2>1. ASSUME OpRefuse(n)
        PROVE  Len(vec[n]) = Cardinality(Pred(n)) /\ n \in Operator /\ Len(vec[n]) # Arity[n]
    <3>1. pc[n] = "exec" /\ n \in Operator /\ Len(vec[n]) # Arity[n]
      BY <2>1 DEF OpRefuse, At
    <3>2. \A p \in Pred(n) : pc[p] = "done"
      BY <3>1 DEF FlowInv
    <3> QED
      BY <1>1, <1>2, <3>1, <3>2, AllInputs
  <2> QED
    BY <2>1 DEF WellLinked
<1>7. ASSUME pc'[n] \notin {"wait", "exec"}
      PROVE  out'[n] = [src |-> n, mem |-> "live"]
  <2>1. CASE LeafReply(n) \/ OpRun(n)
    BY <2>1 DEF LeafReply, OpRun, TypeOK
  <2>2. CASE ~(LeafReply(n) \/ OpRun(n))
    <3>1. out' = out /\ pc[n] \notin {"wait", "exec"}
      BY <1>5, <1>6, <1>7, <2>2
      DEF NodeStep, ShareBegin, ShareEnd, OpStart, PassBegin, PassEnd, SetOutStruct,
          SetResult, At, Goto, TypeOK
    <3> QED
      BY <1>3, <3>1
  <2> QED
    BY <2>1, <2>2
<1>8. /\ pc'[Sink] = "result" => outStruct' = out'[Sink]
      /\ pc'[Sink] = "done" => outStruct' = out'[Sink] /\ graphO' = out'[Sink]
  <2>1. CASE n # Sink
    <3>1. pc'[Sink] = pc[Sink] /\ out'[Sink] = out[Sink]
      BY <1>2, <2>1, SinkFacts
    <3>2. pc[Sink] = "wait"
      BY <1>2, <2>1, SinkLast
    <3> QED
      BY <3>1, <3>2
  <2>2. CASE n = Sink
    <3>1. CASE SetOutStruct(n)
      BY <2>2, <3>1 DEF SetOutStruct, Goto, TypeOK
    <3>2. CASE SetResult(n)
      BY <1>3, <2>2, <3>2 DEF SetResult, At, Goto, TypeOK, AfterPublish
    <3>3. CASE ~(SetOutStruct(n) \/ SetResult(n))
      <4>1. Sink \in Final /\ ~HasNext(Sink)
        BY SinkFacts DEF Final, HasNext
      <4>2. pc'[n] \notin {"result", "done"}
        BY <1>5, <1>6, <2>2, <3>3, <4>1, NodesAssumption
        DEF NodeStep, LeafReply, ShareBegin, ShareEnd, OpStart, OpRun, PassBegin,
            PassEnd, At, Goto, TypeOK, StageInv, AfterShare, AfterPass, AfterExec, Node
      <4> QED
        BY <2>2, <4>2
    <3> QED
      BY <3>1, <3>2, <3>3
  <2> QED
    BY <2>1, <2>2
<1> QED
  BY <1>1, <1>2, <1>3, <1>7, <1>8

LEMMA FreshHolds == Spec => []FreshInv
<1>1. Init => FreshInv
  BY DEF Init, FreshInv
<1>2. Base /\ KeptInv /\ FreshInv /\ [Next]_vars => FreshInv'
  <2> SUFFICES ASSUME Base, KeptInv, FreshInv, [Next]_vars
               PROVE  FreshInv'
    OBVIOUS
  <2>1. CASE GenerateGraphTask
    BY <2>1, SinkFacts DEF GenerateGraphTask, FreshInv
  <2>2. ASSUME NEW n \in Node, NodeStep(n)
        PROVE  FreshInv'
    BY <2>2, FreshNodeStep DEF FreshInv, WellLinked
  <2>3. CASE GraphCallback \/ Crash
    BY <2>3 DEF GraphCallback, Crash, FreshInv
  <2>4. CASE UNCHANGED vars
    BY <2>4 DEF vars, FreshInv, Clean, WellLinked
  <2> QED
    BY <2>1, <2>2, <2>3, <2>4 DEF Next
<1> QED
  BY <1>1, <1>2, BaseHolds, KeptHolds, PTL DEF Spec

\* In every accepted, well-linked graph, whatever went wrong in rounds before: a
\* round without a failed task or a collision ends with the sink's new table
\* as the output (the callbacks of cbComputeGraph.cpp:82-172).
THEOREM CleanRoundsPublish == Spec => []CleanRoundIsFresh
<1>1. FreshInv => CleanRoundIsFresh
  BY SinkFacts DEF FreshInv, CleanRoundIsFresh, AllDone
<1> QED
  BY <1>1, FreshHolds, PTL

\* In every accepted, well-linked graph: what is undefined behaviour comes of
\* a task that failed in this round or of nodes that collide in it, never of
\* deleted cells that a round before has left behind (clear() at
\* cbComputeGraph.cpp:545 leaves io.O and the output as they are).
THEOREM UBHasItsCause == Spec => UBHasCause
<1> DEFINE Cause ==
      ub' # ub /\ WellLinked =>
        \/ failed' # {}
        \/ \E t \in Vector : raced'[t] # {}
        \/ \E m, n \in Node : m # n /\ pc'[m] = "exec" /\ pc'[n] = "exec"
        \/ \E m, n \in Node : m # n /\ Publishing(m) /\ Publishing(n)
<1>1. ASSUME Base, KeptInv, FreshInv, [Next]_vars
      PROVE  Cause
  <2> USE <1>1 DEF Base
  <2> SUFFICES ASSUME ub' # ub, WellLinked, Clean',
                      ~\E m, n \in Node : m # n /\ pc'[m] = "exec" /\ pc'[n] = "exec",
                      ~\E m, n \in Node : m # n /\ Publishing(m) /\ Publishing(n)
               PROVE  FALSE
    BY DEF Clean
  <2>1. ASSUME NEW n \in Node, NodeStep(n)
        PROVE  FALSE
    <3>1. Clean /\ phase = "running"
      BY <2>1, FreshNodeStep, NodeStepMoves
    <3>2. \A m \in Node :
            pc[m] \notin {"wait", "exec"} => out[m].mem = "live"
      <4>1. \A m \in Node :
              pc[m] \notin {"wait", "exec"} => out[m] = [src |-> m, mem |-> "live"]
        BY <3>1 DEF FreshInv
      <4>2. ASSUME NEW m \in Node, pc[m] \notin {"wait", "exec"}
            PROVE  out[m].mem = "live"
        <5>1. out[m] = [src |-> m, mem |-> "live"]
          BY <4>1, <4>2
        <5> QED
          BY <5>1
      <4> QED
        BY <4>2
    <3>3. CASE OpRun(n)
      <4>1. pc[n] = "exec"
        BY <3>3 DEF OpRun, At
      <4>2. \A p \in Pred(n) : out[p].mem = "live"
        BY <3>2, <4>1 DEF FlowInv, Pred
      <4>3. \A t \in Inputs(n) : t.mem = "live"
        BY <4>2 DEF Inputs, InputsInv, InputsAreThisRounds
      <4> QED
        BY <3>3, <4>3 DEF OpRun, Reads, Kind
    <3>4. CASE SetOutStruct(n)
      <4>1. out[n].mem = "live"
        BY <3>2, <3>4 DEF SetOutStruct, At
      <4>2. Publishing(n)
        BY <3>4 DEF SetOutStruct, At, Publishing
      <4> QED
        BY <3>4, <4>1, <4>2 DEF SetOutStruct, Reads, Kind
    <3>5. CASE SetResult(n)
      BY <3>5 DEF SetResult, At, Publishing, Kind
    <3>6. CASE OpStart(n)
      <4>1. /\ pc'[n] = "exec"
            /\ \A m \in Node \ {n} : pc'[m] = pc[m]
        BY <3>6 DEF OpStart, Goto, TypeOK
      <4>2. PICK m \in Operator \ {n} : pc[m] = "exec"
        BY <3>6 DEF OpStart, Kind
      <4> QED
        BY <4>1, <4>2 DEF Node
    <3>7. CASE ShareBegin(n) \/ PassBegin(n)
      <4>1. PICK t \in Vector : PushBegin(n, t)
        BY <3>7, BeginMoves
      <4>2. raced'[t] # {}
        BY <4>1 DEF PushBegin, TypeOK
      <4> QED
        BY <4>2 DEF Clean
    <3>8. CASE LeafNoRows(n) \/ OpRaise(n)
      BY <3>8 DEF LeafNoRows, OpRaise, Clean
    <3> QED
      BY <2>1, <3>3, <3>4, <3>5, <3>6, <3>7, <3>8
      DEF NodeStep, LeafFail, LeafReply, ShareEnd, OpFail, OpRefuse, PassEnd
  <2>2. CASE GraphCallback
    <3>1. Clean /\ phase = "running" /\ AllDone
      BY <2>2 DEF GraphCallback, Clean
    <3>2. graphO = [src |-> Sink, mem |-> "live"]
      BY <3>1, SinkFacts DEF FreshInv, AllDone
    <3>3. graphO.mem = "live"
      BY <3>2
    <3> QED
      BY <2>2, <3>3 DEF GraphCallback, Caching, Reads, Kind
  <2>3. CASE GenerateGraphTask \/ Crash \/ UNCHANGED vars
    BY <2>3 DEF GenerateGraphTask, Crash, vars
  <2> QED
    BY <2>1, <2>2, <2>3 DEF Next
<1>2. Base /\ KeptInv /\ FreshInv /\ [Next]_vars => [Cause]_vars
  BY <1>1
<1> HIDE DEF Cause
<1>3. Spec => [][Cause]_vars
  BY <1>2, BaseHolds, KeptHolds, FreshHolds, PTL DEF Spec
<1> QED
  BY <1>3 DEF UBHasCause, Cause

-----------------------------------------------------------------------------
(* The way through a round *)

\* A step of a node brings it forward.
LEMMA NodeStepAdvances ==
  ASSUME TypeOK, StageInv, NEW n \in Node, NodeStep(n)
  PROVE  /\ pc[n] \in Stages /\ pc'[n] \in Stages
         /\ Rank(n, pc[n]) < Rank(n, pc'[n])
         /\ \A m \in Node \ {n} : pc'[m] = pc[m]
<1>1. /\ pc[n] \in Stages /\ pc'[n] \in Stages
      /\ \A m \in Node \ {n} : pc'[m] = pc[m]
  BY NodeStepMoves DEF TypeOK
<1>2. n \in Leaf <=> n \notin Operator
  BY NodesAssumption DEF Node
<1> DEFINE a == pc[n]
           b == pc'[n]
<1>3. \/ a = "wait" /\ b \in {"done", "share", "exec"}
      \/ a = "share" /\ b = "sharing"
      \/ a = "sharing" /\ n \in Leaf /\ b \in {"pass", "struct", "done"}
      \/ a = "exec" /\ n \in Operator /\ b \in {"struct", "pass", "done"}
      \/ a = "pass" /\ b = "passing"
      \/ a = "passing" /\ n \in Leaf /\ b \in {"struct", "done"}
      \/ a = "passing" /\ n \in Operator /\ b = "done"
      \/ a = "struct" /\ b = "result"
      \/ a = "result" /\ n \in Leaf /\ b = "done"
      \/ a = "result" /\ n \in Operator /\ b \in {"pass", "done"}
  <2> USE DEF TypeOK, At, Goto, Ready
  <2>1. CASE LeafFail(n) \/ LeafReply(n) \/ LeafNoRows(n) \/ OpFail(n) \/ OpStart(n)
    BY <2>1 DEF LeafFail, LeafReply, LeafNoRows, OpFail, OpStart
  <2>2. CASE ShareBegin(n) \/ PassBegin(n) \/ SetOutStruct(n)
    BY <2>2 DEF ShareBegin, PassBegin, SetOutStruct
  <2>3. CASE ShareEnd(n)
    BY <2>3 DEF ShareEnd, AfterShare, AfterPass, StageInv
  <2>4. CASE OpRun(n) \/ OpRefuse(n) \/ OpRaise(n)
    BY <2>4 DEF OpRun, OpRefuse, OpRaise, AfterExec, AfterPublish
  <2>5. CASE PassEnd(n)
    BY <1>2, <2>5 DEF PassEnd, AfterPass
  <2>6. CASE SetResult(n)
    BY <1>2, <2>6 DEF SetResult, AfterPublish
  <2> QED
    BY <2>1, <2>2, <2>3, <2>4, <2>5, <2>6 DEF NodeStep
<1>4. Rank(n, a) < Rank(n, b)
  <2> HIDE DEF a, b
  <2> QED
    BY <1>2, <1>3 DEF Rank
<1> QED
  BY <1>1, <1>4

\* The stages ahead are finitely many, at most eight for each node.
LEMMA StagesAheadFinite ==
  ASSUME TypeOK
  PROVE  /\ IsFiniteSet(StagesAhead)
         /\ Cardinality(StagesAhead) \in 0..8 * Cardinality(Node)
<1> DEFINE H == Stages \ {"wait"}
           f == [i \in 1..8 |->
                   CASE i = 1 -> "share"  [] i = 2 -> "sharing" [] i = 3 -> "pass"
                     [] i = 4 -> "passing" [] i = 5 -> "exec"   [] i = 6 -> "struct"
                     [] i = 7 -> "result" [] i = 8 -> "done"]
<1>1. IsFiniteSet(H) /\ Cardinality(H) \in 0..8
  <2>1. f \in Surjection(1..8, H)
    <3>1. \A i \in 1..8 : f[i] \in H
      BY DEF Stages
    <3>2. /\ f[1] = "share" /\ f[2] = "sharing" /\ f[3] = "pass" /\ f[4] = "passing"
          /\ f[5] = "exec" /\ f[6] = "struct" /\ f[7] = "result" /\ f[8] = "done"
      OBVIOUS
    <3> HIDE DEF f
    <3>3. \A h \in H : \E i \in 1..8 : f[i] = h
      BY <3>2 DEF Stages
    <3> QED
      BY <3>1, <3>3 DEF Surjection, f
  <2>2. IsFiniteSet(1..8) /\ Cardinality(1..8) = 8
    <3>1. ASSUME NEW n \in Nat PROVE IsFiniteSet(1..n) /\ Cardinality(1..n) = n
      BY FS_Interval
    <3> QED
      BY ONLY <3>1, 8 \in Nat, Zenon
  <2>3. IsFiniteSet(H) /\ Cardinality(H) <= Cardinality(1..8)
    BY <2>1, <2>2, FS_Surjection
  <2> QED
    BY <2>2, <2>3, FS_CardinalityType
<1> HIDE DEF f
<1>2. StagesAhead \subseteq Node \X H
  <2>1. \A n \in Node, s \in Stages : Rank(n, "wait") = 0 /\ Rank(n, s) \in Nat
    BY DEF Rank, Stages
  <2>2. \A p \in StagesAhead : p[1] \in Node /\ p[2] \in Stages /\ p[2] # "wait"
                               /\ p = <<p[1], p[2]>>
    BY <2>1 DEF StagesAhead, TypeOK
  <2> QED
    BY <2>2
<1> HIDE DEF H
<1>3. /\ IsFiniteSet(Node \X H)
      /\ Cardinality(Node \X H) = Cardinality(Node) * Cardinality(H)
      /\ Cardinality(Node) \in Nat /\ Cardinality(H) \in Nat
  BY <1>1, FiniteAssumption, FS_Product, FS_CardinalityType
<1>4. /\ IsFiniteSet(StagesAhead)
      /\ Cardinality(StagesAhead) <= Cardinality(Node \X H)
      /\ Cardinality(StagesAhead) \in Nat
  BY <1>2, <1>3, FS_Subset, FS_CardinalityType
<1>5. ASSUME NEW k \in Nat, NEW g \in Nat, g <= 8
      PROVE  k * g <= 8 * k /\ k * g \in Nat /\ 8 * k \in Nat
  BY <1>5, SMT
<1> QED
  BY <1>1, <1>3, <1>4, <1>5

\* A step inside of a round takes something off what is ahead.
LEMMA RoundStep ==
  ASSUME TypeOK, StageInv, Next, phase = "running", phase' = "running"
  PROVE  /\ StagesAhead' \subseteq StagesAhead
         /\ Cardinality(StagesAhead) \in 1..8 * Cardinality(Node)
         /\ Cardinality(StagesAhead') < Cardinality(StagesAhead)
<1>1. PICK n \in Node : NodeStep(n)
  BY DEF Next, GenerateGraphTask, GraphCallback, Crash
<1>2. /\ pc[n] \in Stages /\ pc'[n] \in Stages
      /\ Rank(n, pc[n]) < Rank(n, pc'[n])
      /\ \A m \in Node \ {n} : pc'[m] = pc[m]
  BY <1>1, NodeStepAdvances
<1>3. \A m \in Node, s \in Stages : Rank(m, s) \in Nat
  BY DEF Rank, Stages
<1> DEFINE p == <<n, pc'[n]>>
           L == StagesAhead
           M == StagesAhead'
<1>4. p \in L /\ p \notin M
  <2>1. p \in Node \X Stages /\ p[1] = n /\ p[2] = pc'[n]
    BY <1>2
  <2> QED
    BY <1>2, <1>3, <2>1 DEF StagesAhead
<1>5. M \subseteq L
  <2> SUFFICES ASSUME NEW q \in M
               PROVE  q \in L
    OBVIOUS
  <2>1. q \in Node \X Stages /\ Rank(q[1], pc'[q[1]]) < Rank(q[1], q[2])
    BY DEF StagesAhead
  <2>2. q[1] \in Node /\ q[2] \in Stages
    BY <2>1
  <2>3. Rank(q[1], pc[q[1]]) < Rank(q[1], q[2])
    <3>1. CASE q[1] = n
      BY <1>2, <1>3, <2>1, <2>2, <3>1
    <3>2. CASE q[1] # n
      BY <1>2, <2>1, <2>2, <3>2
    <3> QED
      BY <3>1, <3>2
  <2> QED
    BY <2>1, <2>3 DEF StagesAhead
<1>6. IsFiniteSet(L) /\ Cardinality(L) \in 0..8 * Cardinality(Node)
  BY StagesAheadFinite
<1> HIDE DEF L, M, p
<1>7. M \subseteq L \ {p}
  BY <1>4, <1>5
<1>8. IsFiniteSet(L \ {p}) /\ Cardinality(L \ {p}) = Cardinality(L) - 1
  BY <1>4, <1>6, FS_RemoveElement
<1>9. IsFiniteSet(M) /\ Cardinality(M) <= Cardinality(L) - 1 /\ Cardinality(M) \in Nat
  BY <1>7, <1>8, FS_Subset, FS_CardinalityType
<1>10. Cardinality(Node) \in Nat
  BY FiniteAssumption, FS_CardinalityType
<1>11. Cardinality(L) \in 1..8 * Cardinality(Node) /\ Cardinality(M) < Cardinality(L)
  BY <1>6, <1>9, <1>10
<1> QED
  BY <1>5, <1>11 DEF L, M

\* In a set of nodes there is one that no other of the set points to: if each
\* had a predecessor in the set, NextNode would map the set onto itself, for
\* it is finite, and the set were a cycle.
LEMMA FirstNode ==
  ASSUME NEW C \in SUBSET Node, C # {}
  PROVE  \E c \in C : Pred(c) \cap C = {}
<1> SUFFICES ASSUME \A c \in C : \E p \in C : NextNode[p] = c
             PROVE  FALSE
  BY DEF Pred
<1> DEFINE f == [x \in C |-> NextNode[x]]
           T == {NextNode[x] : x \in C}
<1>1. IsFiniteSet(C)
  BY FiniteAssumption, FS_Subset
<1>2. f \in Surjection(C, T)
  BY DEF Surjection
<1> HIDE DEF f
<1>3. C \subseteq T
  BY DEF T
<1> HIDE DEF T
<1>4. IsFiniteSet(T) /\ Cardinality(T) <= Cardinality(C)
  BY <1>1, <1>2, FS_Surjection
<1>5. Cardinality(C) <= Cardinality(T) /\ (Cardinality(T) = Cardinality(C) => T = C)
  BY <1>3, <1>4, FS_Subset
<1>6. Cardinality(C) \in Nat /\ Cardinality(T) \in Nat
  BY <1>1, <1>4, FS_CardinalityType
<1>7. T = C
  BY <1>4, <1>5, <1>6
<1>8. \A c \in C : NextNode[c] \in C
  BY <1>7 DEF T
<1> QED
  BY <1>8, AcceptedAssumption

\* A node that failed, refused its inputs or lost its table keeps no other
\* node waiting: there is always one that can go on until all are done.
LEMMA SomeNodeGoesOn == TypeOK => RoundCanGoOn
<1> SUFFICES ASSUME TypeOK, phase = "running", ~AllDone,
                    \A n \in Node : pc[n] \in {"wait", "done"}
             PROVE  \E n \in Node : Ready(n)
  BY DEF RoundCanGoOn
<1> DEFINE C == {n \in Node : pc[n] = "wait"}
<1>1. C \in SUBSET Node /\ C # {}
  BY DEF AllDone
<1>2. PICK c \in C : Pred(c) \cap C = {}
  BY <1>1, FirstNode
<1>3. \A p \in Pred(c) : pc[p] = "done"
  BY <1>2 DEF Pred
<1> QED
  BY <1>3 DEF Ready

\* Nothing is done twice in a round, the round takes at most eight steps for
\* each node, and it is never stuck, whatever fails.
THEOREM RoundsAdvance == Spec => RoundAdvances
<1>1. TypeOK /\ TypeOK' /\ StageInv /\ [Next]_vars =>
        [/\ phase = "running" /\ phase' = "running" =>
              /\ StagesAhead' \subseteq StagesAhead
              /\ Cardinality(StagesAhead) \in 1..8 * Cardinality(Node)
              /\ Cardinality(StagesAhead') < Cardinality(StagesAhead)
         /\ RoundCanGoOn']_vars
  <2>1. TypeOK' => RoundCanGoOn'
    BY SomeNodeGoesOn, PTL
  <2> QED
    BY <2>1, RoundStep
<1> QED
  BY <1>1, TypesAndStages, PTL DEF Spec, RoundAdvances
=============================================================================
