-------------------------- MODULE ComputeGraphProof --------------------------
(***************************************************************************)
(* Proofs about ComputeGraph, for every accepted graph: any set of nodes,  *)
(* any links with one sink and no cycle, any nodes that fail or are        *)
(* flagged.                                                                *)
(***************************************************************************)
EXTENDS ComputeGraphProps, TLAPS

-----------------------------------------------------------------------------
(* The graph *)

\* The sink is the only node without a successor.
LEMMA SinkFacts ==
  /\ Sink \in Node
  /\ NextNode[Sink] = nullptr
  /\ \A n \in Node : NextNode[n] = nullptr => n = Sink
<1>1. PICK s \in Node : {n \in Node : NextNode[n] = nullptr} = {s}
  BY AcceptedAssumption
<1>2. s \in Node /\ NextNode[s] = nullptr
  BY <1>1
<1>3. Sink \in Node /\ NextNode[Sink] = nullptr
  BY <1>2 DEF Sink
<1> QED
  BY <1>1, <1>3

\* Where the links lead.
LEMMA NextFacts ==
  ASSUME NEW n \in Node
  PROVE  /\ NextNode[n] \in Node \cup {nullptr}
         /\ HasNext(n) => NextNode[n] \in Node /\ n \in Pred(NextNode[n])
         /\ nullptr \notin Node
BY NodesAssumption DEF HasNext, Pred

-----------------------------------------------------------------------------
(* Types *)

\* The stages a node can go to.
LEMMA StagesType ==
  ASSUME NEW n \in Node
  PROVE  {AfterPass(n), AfterShare(n), AfterPublish(n), AfterExec(n)} \subseteq Stages
BY DEF AfterPass, AfterShare, AfterPublish, AfterExec, Stages

\* A table is a table whoever made it.
LEMMA TableType ==
  /\ NoTable \in Table
  /\ \A n \in Node, m \in {"live", "freed", "none"} :
       [src |-> n, mem |-> m] \in Table
  /\ \A t \in Table : Freed(t) \in Table /\ Freed(t).src = t.src
BY DEF Table, NoTable, Freed

\* What is added to ub is of one of the kinds.
LEMMA ReadsType ==
  ASSUME NEW tables
  PROVE  Reads(tables) \subseteq UBKinds
BY DEF Reads, Kind, UBKinds

LEMMA KindType ==
  ASSUME NEW kind \in UBKinds, NEW happens
  PROVE  Kind(kind, happens) \subseteq UBKinds
BY DEF Kind

LEMMA KindsType ==
  {"push", "lua", "struct", "empty", "uninit", "dangling"} \subseteq UBKinds
BY DEF UBKinds

\* The end of a push_back leaves a vector of tables.
LEMMA PushEndType ==
  ASSUME TypeOK, NEW n \in Node, NEW t \in Vector, PushEnd(n, t)
  PROVE  vec' \in [Vector -> Seq(Table)] /\ mark' \in [Node -> Nat]
<1>1. vec[t] \in Seq(Table) /\ out[n] \in Table /\ mark[n] \in Nat
  BY DEF TypeOK
<1>2. Kept(n, t) \in 0..Len(vec[t])
  BY <1>1 DEF Kept
<1>3. SubSeq(vec[t], 1, Kept(n, t)) \in Seq(Table)
  BY <1>1, <1>2
<1>4. Append(SubSeq(vec[t], 1, Kept(n, t)), out[n]) \in Seq(Table)
  BY <1>1, <1>3
<1> QED
  BY <1>4 DEF PushEnd, TypeOK

LEMMA PushBeginType ==
  ASSUME TypeOK, NEW n \in Node, NEW t \in Vector, PushBegin(n, t)
  PROVE  /\ mark' \in [Node -> Nat]
         /\ raced' \in [Vector -> SUBSET Node]
         /\ ub' \in SUBSET UBKinds
<1>1. Len(vec[t]) \in Nat
  BY DEF TypeOK
<1>2. Pushing(t) \in SUBSET Node
  BY DEF Pushing, Pred
<1> QED
  BY <1>1, <1>2 DEF PushBegin, TypeOK, UBKinds

LEMMA NodeStepStage ==
  ASSUME TypeOK, StageInv, NEW n \in Node, NodeStep(n)
  PROVE  StageInv'
<1> USE DEF TypeOK, StageInv, Goto, At
<1>1. PICK s \in Stages : pc' = [pc EXCEPT ![n] = s]
  BY StagesType
  DEF NodeStep, LeafFail, LeafReply, LeafNoRows, ShareBegin, ShareEnd, OpFail,
      OpStart, OpRun, OpRefuse, OpRaise, PassBegin, PassEnd, SetOutStruct,
      SetResult, Stages
<1>2. /\ pc'[n] \in {"share", "sharing"} => n \in Leaf
      /\ pc'[n] = "exec" => n \in Operator
      /\ pc'[n] \in {"pass", "passing"} => HasNext(n)
      /\ pc'[n] \in {"struct", "result"} => n \in Final
  BY DEF NodeStep, LeafFail, LeafReply, LeafNoRows, ShareBegin, ShareEnd,
         OpFail, OpStart, OpRun, OpRefuse, OpRaise, PassBegin, PassEnd,
         SetOutStruct, SetResult, AfterPass, AfterShare, AfterPublish, AfterExec
<1>3. \A m \in Node \ {n} : pc'[m] = pc[m]
  BY <1>1
<1> QED
  BY <1>2, <1>3

\* The step of a node keeps the types.
LEMMA NodeStepType ==
  ASSUME TypeOK, StageInv, NEW n \in Node, NodeStep(n)
  PROVE  TypeOK'
<1> USE DEF TypeOK, Goto, At
<1>0. /\ m_dataFromDevice \in Vector
      /\ pc[n] \in {"pass", "passing"} => NextNode[n] \in Vector
      /\ {"wait", "share", "sharing", "pass", "passing", "exec", "struct",
          "result", "done"} \subseteq Stages
  BY NextFacts DEF Vector, Stages, StageInv
<1>1. CASE LeafFail(n) \/ OpFail(n)
  BY <1>0, <1>1 DEF LeafFail, OpFail
<1>2. CASE LeafReply(n)
  BY <1>0, <1>2, TableType DEF LeafReply
<1>3. CASE LeafNoRows(n)
  BY <1>0, <1>3, TableType, KindsType DEF LeafNoRows
<1>4. CASE ShareBegin(n)
  BY <1>0, <1>4, PushBeginType DEF ShareBegin
<1>5. CASE ShareEnd(n)
  BY <1>0, <1>5, PushEndType, StagesType DEF ShareEnd
<1>6. CASE OpStart(n)
  BY <1>0, <1>6, KindsType, KindType DEF OpStart
<1>7. CASE OpRun(n)
  BY <1>0, <1>7, TableType, StagesType, ReadsType DEF OpRun
<1>8. CASE OpRefuse(n)
  BY <1>0, <1>8, StagesType DEF OpRefuse
<1>9. CASE OpRaise(n)
  <2>1. [out EXCEPT ![n] = [src |-> n, mem |-> "none"]] \in [Node -> Table]
    BY TableType
  <2> QED
    BY <1>0, <1>9, <2>1, StagesType, ReadsType DEF OpRaise
<1>10. CASE PassBegin(n)
  BY <1>0, <1>10, PushBeginType, NextFacts DEF PassBegin
<1>11. CASE PassEnd(n)
  BY <1>0, <1>11, PushEndType, StagesType DEF PassEnd
<1>12. CASE SetOutStruct(n)
  BY <1>0, <1>12, ReadsType, KindsType, KindType DEF SetOutStruct
<1>13. CASE SetResult(n)
  BY <1>0, <1>13, StagesType, KindsType, KindType DEF SetResult
<1> QED
  BY <1>1, <1>2, <1>3, <1>4, <1>5, <1>6, <1>7, <1>8, <1>9, <1>10, <1>11, <1>12,
     <1>13 DEF NodeStep

\* Types and stages hold in every reachable state.
LEMMA TypesAndStages == Spec => [](TypeOK /\ StageInv)
<1>1. Init => TypeOK /\ StageInv
  <2> SUFFICES ASSUME Init
               PROVE  TypeOK /\ StageInv
    OBVIOUS
  <2>1. \A n \in Node : [src |-> n, mem |-> "none"] \in Table
    BY TableType
  <2>2. <<>> \in Seq(Table)
    OBVIOUS
  <2> QED
    BY <2>1, <2>2, TableType DEF Init, TypeOK, StageInv, Stages, UBKinds
<1>2. TypeOK /\ StageInv /\ [Next]_vars => TypeOK' /\ StageInv'
  <2> SUFFICES ASSUME TypeOK, StageInv, [Next]_vars
               PROVE  TypeOK' /\ StageInv'
    OBVIOUS
  <2>1. CASE GenerateGraphTask
    BY <2>1 DEF GenerateGraphTask, TypeOK, StageInv, Stages
  <2>2. ASSUME NEW n \in Node, NodeStep(n)
        PROVE  TypeOK' /\ StageInv'
    BY <2>2, NodeStepType, NodeStepStage
  <2>3. CASE GraphCallback
    <3>1. \A t \in Table : Freed(t) \in Table
      BY TableType
    <3>2. Caching(graphO) \subseteq UBKinds
      BY ReadsType DEF Caching
    <3>3. <<>> \in Seq(Table)
      OBVIOUS
    <3>4. /\ vec' \in [Vector -> Seq(Table)] /\ out' \in [Node -> Table]
          /\ outStruct' \in Table /\ graphO' \in Table
      BY <2>3, <3>1, <3>3 DEF GraphCallback, ClearMemory, TypeOK
    <3>5. ub' \in SUBSET UBKinds
      BY <2>3, <3>2 DEF GraphCallback, TypeOK
    <3> QED
      BY <2>3, <3>4, <3>5 DEF GraphCallback, TypeOK, StageInv
  <2>4. CASE Crash
    BY <2>4 DEF Crash, TypeOK, StageInv
  <2>5. CASE UNCHANGED vars
    BY <2>5 DEF vars, TypeOK, StageInv
  <2> QED
    BY <2>1, <2>2, <2>3, <2>4, <2>5 DEF Next
<1> QED
  BY <1>1, <1>2, PTL DEF Spec

\* Every variable has its type, and no node is at a stage it has no business
\* at: in particular no callback pushes on a successor that does not exist.
THEOREM TypeCorrect == Spec => []TypeInv
<1>1. TypeOK /\ StageInv => TypeInv
  BY DEF TypeInv
<1> QED
  BY <1>1, TypesAndStages, PTL

-----------------------------------------------------------------------------
(* Order *)

\* A node that has started has only predecessors that are done.
FlowInv ==
  \A n \in Node : pc[n] # "wait" => \A p \in Pred(n) : pc[p] = "done"

\* What a step of a node does to the stages: it starts when it is ready or
\* goes on when it is under way, and no other node moves.
LEMMA NodeStepMoves ==
  ASSUME TypeOK, NEW n \in Node, NodeStep(n)
  PROVE  /\ phase = "running" /\ phase' = "running"
         /\ pc[n] # "done" /\ pc'[n] # "wait" /\ pc'[n] \in Stages
         /\ pc[n] = "wait" => Ready(n)
         /\ \A m \in Node \ {n} : pc'[m] = pc[m]
<1> USE DEF TypeOK, Goto, At, Ready
<1>1. PICK s \in Stages \ {"wait"} : pc' = [pc EXCEPT ![n] = s]
  BY DEF NodeStep, LeafFail, LeafReply, LeafNoRows, ShareBegin, ShareEnd, OpFail,
         OpStart, OpRun, OpRefuse, OpRaise, PassBegin, PassEnd, SetOutStruct,
         SetResult, Stages, AfterPass, AfterShare, AfterPublish, AfterExec
<1>2. /\ phase = "running" /\ phase' = "running"
      /\ pc[n] # "done"
      /\ pc[n] = "wait" => Ready(n)
  BY DEF NodeStep, LeafFail, LeafReply, LeafNoRows, ShareBegin, ShareEnd, OpFail,
         OpStart, OpRun, OpRefuse, OpRaise, PassBegin, PassEnd, SetOutStruct,
         SetResult
<1> QED
  BY <1>1, <1>2

LEMMA FlowStep ==
  ASSUME TypeOK, FlowInv, [Next]_vars
  PROVE  FlowInv'
<1>1. CASE GenerateGraphTask
  BY <1>1 DEF GenerateGraphTask, FlowInv
<1>2. ASSUME NEW n \in Node, NodeStep(n)
      PROVE  FlowInv'
  BY <1>2, NodeStepMoves DEF FlowInv, Ready, Pred
<1>3. CASE GraphCallback \/ Crash \/ UNCHANGED vars
  BY <1>3 DEF GraphCallback, Crash, vars, FlowInv
<1> QED
  BY <1>1, <1>2, <1>3 DEF Next

\* When the sink has started, all others are done: the nodes that are not
\* would be closed under NextNode.
LEMMA SinkLast ==
  ASSUME FlowInv, pc[Sink] # "wait"
  PROVE  \A n \in Node \ {Sink} : pc[n] = "done"
<1> DEFINE C == {n \in Node \ {Sink} : pc[n] # "done"}
<1>1. ASSUME NEW c \in C
      PROVE  NextNode[c] \in C
  <2>1. NextNode[c] \in Node /\ c \in Pred(NextNode[c])
    BY SinkFacts, NextFacts DEF HasNext
  <2>2. pc[NextNode[c]] = "wait"
    BY <2>1 DEF FlowInv
  <2> QED
    BY <2>1, <2>2
<1>2. C = {}
  BY <1>1, AcceptedAssumption
<1> QED
  BY <1>2

THEOREM FlowCorrect == Spec => []FlowInv
<1>1. Init => FlowInv
  BY DEF Init, FlowInv, Pred
<1>2. TypeOK /\ FlowInv /\ [Next]_vars => FlowInv'
  BY FlowStep
<1> QED
  BY <1>1, <1>2, TypesAndStages, PTL DEF Spec

\* The sink runs after every other node, in every accepted graph: whatever
\* other nodes are flagged as final, the sink publishes last.
THEOREM SinkRunsLast == Spec => []SinkIsLast
<1>1. FlowInv => SinkIsLast
  BY SinkLast DEF SinkIsLast
<1> QED
  BY <1>1, FlowCorrect, PTL

\* Every round is a run of the nodes in the order of the graph: ComputeGraph
\* implements DagFlow.
THEOREM ImplementsDagFlow == Spec => FollowsDag
<1> DEFINE Done == {n \in Node : pc[n] = "done"}
<1>1. Init => Flow!Init
  BY DEF Init, Flow!Init
<1>2. TypeOK /\ FlowInv /\ [Next]_vars => [Flow!Next]_(Flow!vars)
  <2> SUFFICES ASSUME TypeOK, FlowInv, [Next]_vars
               PROVE  [Flow!Next]_(Flow!vars)
    OBVIOUS
  <2>1. CASE GenerateGraphTask
    BY <2>1 DEF GenerateGraphTask, Flow!Next, Flow!StartRound
  <2>2. ASSUME NEW n \in Node, NodeStep(n)
        PROVE  [Flow!Next]_(Flow!vars)
    <3>1. CASE pc'[n] = "done"
      <4>1. Done' = Done \cup {n} /\ n \notin Done /\ UNCHANGED phase
        BY <2>2, <3>1, NodeStepMoves
      <4>2. Flow!Pred(n) \subseteq Done
        BY <2>2, NodeStepMoves DEF Flow!Pred, Pred, Ready, FlowInv
      <4> QED
        BY <2>2, <4>1, <4>2, NodeStepMoves DEF Flow!Next, Flow!Finish
    <3>2. CASE pc'[n] # "done"
      <4>1. Done' = Done /\ UNCHANGED phase
        BY <2>2, <3>2, NodeStepMoves
      <4> QED
        BY <4>1 DEF Flow!vars
    <3> QED
      BY <3>1, <3>2
  <2>3. CASE GraphCallback
    BY <2>3 DEF GraphCallback, AllDone, Flow!Next, Flow!EndRound
  <2>4. CASE Crash
    BY <2>4 DEF Crash, Flow!Next, Flow!Crash
  <2>5. CASE UNCHANGED vars
    BY <2>5 DEF vars, Flow!vars
  <2> QED
    BY <2>1, <2>2, <2>3, <2>4, <2>5 DEF Next
<1> QED
  BY <1>1, <1>2, TypesAndStages, FlowCorrect, PTL DEF Spec, FollowsDag, Flow!Spec

-----------------------------------------------------------------------------
(* Inputs *)

\* A node's table names the node, and between rounds all vectors are empty.
InputsInv ==
  /\ InputsAreThisRounds
  /\ \A n \in Node : out[n].src = n
  /\ phase = "idle" => \A t \in Vector : vec[t] = <<>>

\* A node changes no table but its own, and not once it has passed it on.
LEMMA NodeStepOut ==
  ASSUME TypeOK, StageInv, NEW n \in Node, NodeStep(n)
  PROVE  /\ \A m \in Node \ {n} : out'[m] = out[m]
         /\ out[n].src = n => out'[n].src = n
         /\ Passed(n) => Passed(n)' /\ out' = out
<1> USE DEF TypeOK, Goto, At
<1>1. /\ \A m \in Node \ {n} : out'[m] = out[m]
      /\ out[n].src = n => out'[n].src = n
  <2>1. \/ out' = out
        \/ out' = [out EXCEPT ![n] = [src |-> n, mem |-> "live"]]
        \/ out' = [out EXCEPT ![n] = [src |-> n, mem |-> "none"]]
    BY DEF NodeStep, LeafFail, LeafReply, LeafNoRows, ShareBegin, ShareEnd,
           OpFail, OpStart, OpRun, OpRefuse, OpRaise, PassBegin, PassEnd,
           SetOutStruct, SetResult
  <2> QED
    BY <2>1
<1>2. ASSUME Passed(n)
      PROVE  Passed(n)' /\ out' = out
  <2>1. SetOutStruct(n) \/ SetResult(n)
    BY <1>2, NodesAssumption
    DEF Passed, StageInv, NodeStep, LeafFail, LeafReply, LeafNoRows, ShareBegin,
        ShareEnd, OpFail, OpStart, OpRun, OpRefuse, OpRaise, PassBegin, PassEnd,
        Ready
  <2>2. n \in Leaf
    BY <1>2, <2>1 DEF Passed, SetOutStruct, SetResult
  <2>3. pc'[n] \in {"result", "done"}
    BY <2>1, <2>2, NodesAssumption DEF SetOutStruct, SetResult, AfterPublish
  <2> QED
    BY <2>1, <2>2, <2>3 DEF Passed, SetOutStruct, SetResult
<1> QED
  BY <1>1, <1>2

\* Only the end of a pass changes an input vector.
LEMMA NodeStepVec ==
  ASSUME TypeOK, NEW n \in Node, NodeStep(n), ~PassEnd(n)
  PROVE  \A t \in Node : vec'[t] = vec[t]
BY NodesAssumption
DEF TypeOK, Vector, NodeStep, LeafFail, LeafReply, LeafNoRows, ShareBegin,
    ShareEnd, PushEnd, OpFail, OpStart, OpRun, OpRefuse, OpRaise, PassBegin,
    SetOutStruct, SetResult

\* What the end of a push_back makes of the vector.
LEMMA PushEndVec ==
  ASSUME TypeOK, NEW n \in Node, NEW t \in Vector, PushEnd(n, t)
  PROVE  /\ Kept(n, t) \in 0..Len(vec[t])
         /\ Len(vec'[t]) = Kept(n, t) + 1
         /\ \A i \in 1..Kept(n, t) : vec'[t][i] = vec[t][i]
         /\ vec'[t][Kept(n, t) + 1] = out[n]
         /\ \A u \in Vector \ {t} : vec'[u] = vec[u]
<1> DEFINE K == Kept(n, t)
           S == SubSeq(vec[t], 1, K)
<1>1. vec[t] \in Seq(Table) /\ out[n] \in Table /\ mark[n] \in Nat
  BY DEF TypeOK
<1>2. K \in 0..Len(vec[t])
  BY <1>1 DEF Kept
<1>3. S \in Seq(Table) /\ Len(S) = K /\ \A i \in 1..K : S[i] = vec[t][i]
  BY <1>1, <1>2
<1>4. vec'[t] = Append(S, out[n]) /\ \A u \in Vector \ {t} : vec'[u] = vec[u]
  BY DEF PushEnd, TypeOK
<1> HIDE DEF S, K
<1>5. /\ Len(vec'[t]) = K + 1
      /\ \A i \in 1..K : vec'[t][i] = S[i]
      /\ vec'[t][K + 1] = out[n]
  BY <1>1, <1>2, <1>3, <1>4
<1> QED
  BY <1>2, <1>3, <1>4, <1>5 DEF K

LEMMA InputsNodeStep ==
  ASSUME TypeOK, StageInv, InputsInv, NEW n \in Node, NodeStep(n)
  PROVE  InputsInv'
<1>0. /\ \A m \in Node : out'[m].src = m
      /\ phase' = "running"
      /\ \A p \in Node : Passed(p) => Passed(p)' /\ out'[p] = out[p]
  BY NodeStepOut, NodeStepMoves DEF InputsInv, Passed
<1>1. CASE ~PassEnd(n)
  BY <1>0, <1>1, NodeStepVec DEF InputsInv, InputsAreThisRounds, Pred
<1>2. CASE PassEnd(n)
  <2> DEFINE t == NextNode[n]
             K == Kept(n, t)
  <2>1. t \in Node /\ t \in Vector /\ n \in Pred(t) /\ ~Passed(n)
    BY <1>2, NextFacts, NodesAssumption DEF PassEnd, At, StageInv, Passed, Vector
  <2>2. /\ K \in 0..Len(vec[t])
        /\ Len(vec'[t]) = K + 1
        /\ \A i \in 1..K : vec'[t][i] = vec[t][i]
        /\ vec'[t][K + 1] = out[n]
        /\ \A u \in Node \ {t} : vec'[u] = vec[u]
    BY <1>2, <2>1, PushEndVec DEF PassEnd, Vector
  <2>3. Passed(n)' /\ out' = out
    BY <1>2 DEF PassEnd, Goto, At, TypeOK, AfterPass, Passed, Node
  <2> HIDE DEF t, K
  <2>4. ASSUME NEW m \in Node
        PROVE  /\ \A i \in 1..Len(vec'[m]) :
                    \E p \in Pred(m) : /\ Passed(p)'
                                       /\ vec'[m][i] = out'[p]
                                       /\ vec'[m][i].src = p
               /\ \A i, j \in 1..Len(vec'[m]) :
                    vec'[m][i].src = vec'[m][j].src => i = j
    <3>1. CASE m # t
      BY <1>0, <2>2, <2>3, <3>1 DEF InputsInv, InputsAreThisRounds, Pred
    <3>2. CASE m = t
      <4>1. \A i \in 1..Len(vec[t]) :
              \E p \in Pred(t) : Passed(p) /\ vec[t][i] = out[p] /\ vec[t][i].src = p
        BY <2>1 DEF InputsInv, InputsAreThisRounds
      <4>2. \A i \in 1..Len(vec[t]) : vec[t][i].src # n
        BY <4>1, <2>1
      <4>3. Len(vec[t]) \in Nat
        BY <2>1 DEF TypeOK
      <4>4. out[n].src = n
        BY DEF InputsInv
      <4>5. \A i \in 1..(K + 1) :
              \E p \in Pred(t) : Passed(p)' /\ vec'[t][i] = out'[p] /\ vec'[t][i].src = p
        <5> SUFFICES ASSUME NEW i \in 1..(K + 1)
                     PROVE  \E p \in Pred(t) : /\ Passed(p)'
                                               /\ vec'[t][i] = out'[p]
                                               /\ vec'[t][i].src = p
          OBVIOUS
        <5>1. CASE i = K + 1
          BY <5>1, <2>1, <2>2, <2>3, <4>4
        <5>2. CASE i # K + 1
          <6>1. i \in 1..K /\ i \in 1..Len(vec[t])
            BY <5>2, <2>2, <4>3
          <6> QED
            BY <6>1, <2>2, <2>3, <4>1, <1>0 DEF Pred
        <5> QED
          BY <5>1, <5>2
      <4>6. \A i, j \in 1..(K + 1) : vec'[t][i].src = vec'[t][j].src => i = j
        <5>1. \A i, j \in 1..Len(vec[t]) : vec[t][i].src = vec[t][j].src => i = j
          BY <2>1 DEF InputsInv, InputsAreThisRounds
        <5>2. \A i \in 1..K : i \in 1..Len(vec[t]) /\ vec'[t][i].src # n
          BY <2>2, <4>2, <4>3
        <5> SUFFICES ASSUME NEW i \in 1..(K + 1), NEW j \in 1..(K + 1),
                            vec'[t][i].src = vec'[t][j].src
                     PROVE  i = j
          OBVIOUS
        <5>3. (i \in 1..K \/ i = K + 1) /\ (j \in 1..K \/ j = K + 1)
          BY <2>2, <4>3
        <5>4. vec'[t][K + 1].src = n
          BY <2>2, <4>4
        <5>5. CASE i \in 1..K /\ j \in 1..K
          <6>1. vec'[t][i] = vec[t][i] /\ vec'[t][j] = vec[t][j]
            BY <5>5, <2>2
          <6>2. i \in 1..Len(vec[t]) /\ j \in 1..Len(vec[t])
            BY <5>5, <5>2
          <6> QED
            BY <6>1, <6>2, <5>1
        <5>6. CASE ~(i \in 1..K /\ j \in 1..K)
          BY <5>6, <5>2, <5>3, <5>4
        <5> QED
          BY <5>5, <5>6
      <4> QED
        BY <3>2, <2>2, <4>5, <4>6
    <3> QED
      BY <3>1, <3>2
  <2> QED
    BY <1>0, <2>4 DEF InputsInv, InputsAreThisRounds
<1> QED
  BY <1>1, <1>2

LEMMA InputsStep ==
  ASSUME TypeOK, StageInv, InputsInv, [Next]_vars
  PROVE  InputsInv'
<1>1. CASE GenerateGraphTask
  <2>1. vec' = vec /\ out' = out /\ phase' = "running" /\ phase = "idle"
    BY <1>1 DEF GenerateGraphTask
  <2>2. \A n \in Node : vec'[n] = <<>>
    BY <2>1 DEF InputsInv, Vector
  <2> QED
    BY <2>1, <2>2 DEF InputsInv, InputsAreThisRounds
<1>2. ASSUME NEW n \in Node, NodeStep(n)
      PROVE  InputsInv'
  BY <1>2, InputsNodeStep
<1>3. CASE GraphCallback
  <2>1. \A t \in Vector : vec'[t] = <<>>
    BY <1>3 DEF GraphCallback, ClearMemory
  <2>2. \A n \in Node : out'[n].src = n
    BY <1>3, TableType DEF GraphCallback, ClearMemory, InputsInv, TypeOK
  <2> QED
    BY <2>1, <2>2 DEF InputsInv, InputsAreThisRounds, Vector
<1>4. CASE Crash
  BY <1>4 DEF Crash, InputsInv, InputsAreThisRounds, Passed
<1>5. CASE UNCHANGED vars
  BY <1>5 DEF vars, InputsInv, InputsAreThisRounds, Passed
<1> QED
  BY <1>1, <1>2, <1>3, <1>4, <1>5 DEF Next

THEOREM InputsCorrect == Spec => []InputsInv
<1>1. Init => InputsInv
  BY DEF Init, InputsInv, InputsAreThisRounds, Vector
<1>2. TypeOK /\ StageInv /\ InputsInv /\ [Next]_vars => InputsInv'
  BY InputsStep
<1> QED
  BY <1>1, <1>2, TypesAndStages, PTL DEF Spec

\* No operator ever finds a table of an earlier round, a table twice, or a
\* table of a node that does not point to it, among its inputs, even when
\* push_backs collide and tasks fail.
THEOREM OnlyThisRoundsInputs == Spec => []InputsAreThisRounds
<1>1. InputsInv => InputsAreThisRounds
  BY DEF InputsInv
<1> QED
  BY <1>1, InputsCorrect, PTL
=============================================================================
