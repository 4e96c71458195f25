--------------------------- MODULE GraphBuildProof ---------------------------
(***************************************************************************)
(* Proofs about GraphBuild, for every number of nodes: the judgement of    *)
(* isDAG is right and an accepted graph can run to its end.                *)
(*                                                                         *)
(* The walk of isDAG knows nothing of paths, and neither does the proof:   *)
(* a cycle is a nonempty set of nodes closed under nextNode (Closed).      *)
(* A walk that starts inside such a set stays inside, so that a walk that  *)
(* reaches the sink has shown its start to be in none; a walk that returns *)
(* to its start has gone through one.                                      *)
(*                                                                         *)
(* How long the walk takes is counted by the nodes it has still to come to *)
(* (ToCome): a step leaves one of them behind unless it is going to come   *)
(* back, and then it has run into a closed set that its start is not in.   *)
(***************************************************************************)
EXTENDS GraphBuild, FiniteSetTheorems, TLAPS

\* Links stay among the registered nodes, and a node that is not registered
\* yet has no successor.
LinksInv ==
  /\ \A n \in Nodes : nextNode[n] \in Nodes \cup {nullptr}
  /\ \A n \in Node \ Nodes : nextNode[n] = nullptr

\* Where the walk is.  All nodes before cur lie in no closed set, a closed
\* set that holds cur holds next, and the nodes between cur and next make a
\* set that is closed but for next.
WalkInv ==
  Judging =>
    /\ SingleSink
    /\ cur \in Nodes
    /\ next \in Nodes
    /\ \A C \in SUBSET Nodes : Closed(C) => C \cap 1..(cur - 1) = {}
    /\ \A C \in SUBSET Nodes : Closed(C) /\ cur \in C => next \in C
    /\ \E P \in SUBSET Nodes :
         /\ cur \in P
         /\ next \in P
         /\ \A p \in P \ {next} : nextNode[p] \in P

\* What an accepted graph remembers of its judgement.
AcceptedInv ==
  /\ Judging \/ caller = "create" => Sinks \subseteq isFinalOutput
  /\ caller = "create" => answer = "yes"
  /\ caller \in {"script", "isDAG"} => outcome = "none"
  /\ outcome = "task" =>
       /\ answer = "yes"
       /\ Sinks \subseteq isFinalOutput
       /\ \A n \in Nodes : HasTask(n)

\* AnswerCorrect with the code's own test for one sink.
AnswerInv == answer # "none" => (answer = "yes" <=> SingleSink /\ Acyclic)

IInv == TypeOK /\ LinksInv /\ AnswerInv /\ WalkInv /\ AcceptedInv

-----------------------------------------------------------------------------
\* The initial state satisfies the invariant: no nodes, no answer.
LEMMA InitInv == Init => IInv
BY NAssumption DEF Init, IInv, TypeOK, LinksInv, AnswerInv, WalkInv,
   AcceptedInv, Node, Nodes, nullptr, ManyQueries, Callers, Judging

\* The sinks are nodes the script may have created.
LEMMA SinksAreNodes ==
  ASSUME IInv
  PROVE  Sinks \subseteq Node
<1>1. size \in 0..N
  BY DEF IInv, TypeOK
<1>2. Nodes \subseteq Node
  BY <1>1, NAssumption DEF Nodes, Node
<1> QED
  BY <1>2 DEF Sinks

\* A walk that stands on the sink has shown its start to be in no closed set.
LEMMA StartOffCycle ==
  ASSUME IInv, Judging, nextNode[next] = nullptr,
         NEW C \in SUBSET Nodes, Closed(C)
  PROVE  cur \notin C
BY DEF IInv, WalkInv, Closed, Nodes, nullptr

\* A walk about to step on its start has gone through a closed set.
LEMMA CycleFound ==
  ASSUME IInv, Judging, nextNode[next] = cur
  PROVE  \E C \in SUBSET Nodes : Closed(C)
<1>1. PICK P \in SUBSET Nodes : /\ cur \in P
                                /\ next \in P
                                /\ \A p \in P \ {next} : nextNode[p] \in P
  BY DEF IInv, WalkInv
<1>2. Closed(P)
  BY <1>1 DEF Closed
<1> QED
  BY <1>2

\* An accepted graph has one sink that every node feeds.
LEMMA AcceptedFeedsSink ==
  ASSUME LinksInv, SingleSink, Acyclic
  PROVE  \E s \in Nodes :
           /\ Sinks = {s}
           /\ \A S \in SUBSET Nodes :
                s \in S /\ (\A n \in Nodes : nextNode[n] \in S => n \in S)
                  => S = Nodes
<1>1. PICK s \in Nodes : Sinks = {s}
  BY DEF SingleSink
<1>2. ASSUME NEW S \in SUBSET Nodes, s \in S,
             \A n \in Nodes : nextNode[n] \in S => n \in S
      PROVE  S = Nodes
  <2> DEFINE C == Nodes \ S
  <2>1. \A c \in C : nextNode[c] \in C
    BY <1>1, <1>2 DEF Sinks, LinksInv
  <2>2. C = {}
    BY <2>1 DEF Acyclic, Closed
  <2> QED
    BY <2>2
<1> QED
  BY <1>1, <1>2

-----------------------------------------------------------------------------
\* Each kind of step preserves the invariant.  Registering a node and linking
\* one forget the answer and happen outside of a judgement.
LEMMA RegisterInv ==
  ASSUME IInv, CreateVirtualDeviceNode \/ CreateOperatorNode
  PROVE  IInv'
<1> USE DEF IInv, CreateVirtualDeviceNode, CreateOperatorNode, RegisterNode,
            Node, Nodes, nullptr, walkVars
<1>1. TypeOK'
  <2>1. /\ size \in 0..N /\ size + 1 \in 1..N
        /\ leaf \in SUBSET (1..N) /\ device \in SUBSET leaf
    BY NAssumption DEF TypeOK
  <2>2. leaf' \in SUBSET Node /\ device' \in SUBSET leaf'
    BY <2>1
  <2>3. size' \in 0..N /\ answer' \in {"none", "yes", "no"}
    BY <2>1, NAssumption
  <2>4. UNCHANGED <<queries, nextNode, isFinalOutput, caller, cur, next, outcome>>
    OBVIOUS
  <2> QED
    BY <2>2, <2>3, <2>4 DEF TypeOK
<1>2. LinksInv'
  <2>1. size \in 0..N /\ size < N /\ size' = size + 1 /\ nextNode' = nextNode
    BY DEF TypeOK
  <2>2. /\ \A n \in 1..size : nextNode[n] \in (1..size) \cup {0}
        /\ \A n \in (1..N) \ (1..size) : nextNode[n] = 0
    BY DEF LinksInv
  <2>3. \A n \in 1..(size + 1) : nextNode[n] \in (1..(size + 1)) \cup {0}
    BY ONLY <2>1, <2>2, NAssumption
  <2>4. \A n \in (1..N) \ (1..(size + 1)) : nextNode[n] = 0
    BY ONLY <2>1, <2>2, NAssumption
  <2> QED
    BY ONLY <2>1, <2>3, <2>4 DEF LinksInv, Node, Nodes, nullptr
<1>3. AnswerInv'
  BY DEF AnswerInv
<1>4. WalkInv' /\ AcceptedInv'
  BY DEF WalkInv, AcceptedInv, Judging
<1> QED
  BY <1>1, <1>2, <1>3, <1>4

LEMMA PointToInv ==
  ASSUME IInv, NEW n \in Node, NEW ptr \in Node \cup {nullptr}, PointTo(n, ptr)
  PROVE  IInv'
<1> USE DEF IInv, PointTo, Node, Nodes, nullptr, walkVars
<1>1. TypeOK'
  BY NAssumption DEF TypeOK
<1>2. LinksInv'
  BY NAssumption DEF TypeOK, LinksInv
<1>3. AnswerInv' /\ WalkInv' /\ AcceptedInv'
  BY DEF AnswerInv, WalkInv, AcceptedInv, Judging
<1> QED
  BY <1>1, <1>2, <1>3

LEMMA AddQueryInv ==
  ASSUME IInv, NEW n \in Node, AddQuery(n)
  PROVE  IInv'
<1> USE DEF IInv, AddQuery, walkVars
<1>1. TypeOK'
  BY NAssumption DEF TypeOK, Node, ManyQueries
<1>2. LinksInv' /\ AnswerInv' /\ WalkInv' /\ AcceptedInv'
  BY DEF LinksInv, AnswerInv, WalkInv, AcceptedInv, Judging, Nodes,
         SingleSink, Sinks, Acyclic, Closed
<1> QED
  BY <1>1, <1>2

\* Steps that leave the links and the registered nodes as they are keep what
\* is said about the links.
LEMMA LinksKept ==
  ASSUME IInv, UNCHANGED scriptVars
  PROVE  /\ LinksInv'
         /\ Nodes' = Nodes
         /\ Sinks' = Sinks
         /\ SingleSink' <=> SingleSink
         /\ Acyclic' <=> Acyclic
         /\ \A C : Closed(C)' <=> Closed(C)
         /\ \A n : HasTask(n)' <=> HasTask(n)
BY DEF IInv, scriptVars, LinksInv, Nodes, Sinks, SingleSink, Acyclic, Closed,
       HasTask

\* A right answer may be returned to either caller.
LEMMA ReturnInv ==
  ASSUME IInv, UNCHANGED scriptVars, NEW ans \in {"yes", "no"}, Return(ans),
         ans = "yes" <=> SingleSink /\ Acyclic,
         Sinks \subseteq isFinalOutput', isFinalOutput' \in SUBSET Node,
         isFinalOutput \subseteq isFinalOutput',
         cur' \in Node, next' \in Node
  PROVE  IInv'
<1>1. TypeOK'
  BY DEF IInv, TypeOK, Return, Callers, scriptVars
<1>2. ~Judging'
  BY DEF Return, Judging
<1>3. AnswerInv' /\ WalkInv'
  BY <1>2, LinksKept DEF Return, AnswerInv, WalkInv
<1>4. AcceptedInv'
  BY <1>2, LinksKept DEF IInv, TypeOK, Callers, Return, AcceptedInv, Judging
<1> QED
  BY <1>1, <1>3, <1>4, LinksKept DEF IInv

LEMMA IsDAGInv ==
  ASSUME IInv, IsDAG
  PROVE  IInv'
<1>0. /\ UNCHANGED scriptVars
      /\ isFinalOutput' \in SUBSET Node
      /\ isFinalOutput \subseteq isFinalOutput'
      /\ Sinks \subseteq isFinalOutput'
  <2>1. Sinks \subseteq Node /\ isFinalOutput \subseteq Node
    BY SinksAreNodes DEF IInv, TypeOK
  <2> QED
    BY <2>1 DEF IsDAG, MarkOutputs
<1>1. CASE ~SingleSink /\ Return("no") /\ UNCHANGED walkVars
  BY <1>0, <1>1, ReturnInv DEF walkVars, IInv, TypeOK
<1>2. CASE /\ SingleSink
           /\ caller' = IF caller = "script" THEN "isDAG" ELSE "generate"
           /\ cur' = 1 /\ next' = 1
           /\ UNCHANGED <<answer, outcome>>
  <2>1. TypeOK'
    BY <1>0, <1>2, NAssumption DEF IInv, TypeOK, Callers, scriptVars, Node
  <2>2. AnswerInv' /\ LinksInv'
    BY <1>0, <1>2, LinksKept DEF IInv, AnswerInv
  <2>3. 1 \in Nodes
    BY <1>2 DEF SingleSink, Nodes, IInv, TypeOK, Node
  <2>4. WalkInv'
    <3>1. \E P \in SUBSET Nodes :
            1 \in P /\ \A p \in P \ {1} : nextNode[p] \in P
      <4>1. {1} \in SUBSET Nodes
        BY <2>3
      <4> QED
        BY <4>1
    <3>2. UNCHANGED nextNode
      BY <1>0 DEF scriptVars
    <3> QED
      BY <1>2, <2>3, <3>1, <3>2, <1>0, LinksKept DEF WalkInv
  <2>5. AcceptedInv'
    BY <1>0, <1>2, LinksKept
    DEF IInv, AcceptedInv, IsDAG, Judging, TypeOK, Callers
  <2> QED
    BY <2>1, <2>2, <2>4, <2>5 DEF IInv
<1> QED
  BY <1>1, <1>2 DEF IsDAG

LEMMA WalkNextInv ==
  ASSUME IInv, WalkNext
  PROVE  IInv'
<1>0. /\ Judging /\ nextNode[next] # nullptr /\ next' = nextNode[next]
      /\ UNCHANGED <<isFinalOutput, cur>> /\ UNCHANGED scriptVars
      /\ Sinks \subseteq isFinalOutput
      /\ isFinalOutput' \in SUBSET Node
      /\ cur' \in Node /\ next' \in Nodes /\ next' \in Node
  BY DEF WalkNext, IInv, WalkInv, LinksInv, AcceptedInv, TypeOK, Nodes, Node
<1>1. CASE nextNode[next] = cur /\ Return("no")
  <2>1. ~Acyclic
    BY <1>0, <1>1, CycleFound DEF Acyclic
  <2> QED
    BY <1>0, <1>1, <2>1, ReturnInv
<1>2. CASE nextNode[next] # cur /\ UNCHANGED <<caller, answer, outcome>>
  <2>1. TypeOK'
    BY <1>0, <1>2 DEF IInv, TypeOK, scriptVars
  <2>2. WalkInv'
    <3>1. \A C \in SUBSET Nodes : Closed(C) /\ cur \in C => next' \in C
      BY <1>0 DEF IInv, WalkInv, Closed
    <3>2. \E P \in SUBSET Nodes :
            /\ cur \in P
            /\ next' \in P
            /\ \A p \in P \ {next'} : nextNode[p] \in P
      <4>1. PICK P \in SUBSET Nodes : /\ cur \in P
                                      /\ next \in P
                                      /\ \A p \in P \ {next} : nextNode[p] \in P
        BY <1>0 DEF IInv, WalkInv
      <4>2. P \cup {next'} \in SUBSET Nodes
        BY <1>0
      <4> QED
        BY <1>0, <4>1, <4>2
    <3>3. UNCHANGED nextNode
      BY <1>0 DEF scriptVars
    <3> QED
      BY <1>0, <3>1, <3>2, <3>3, LinksKept DEF IInv, WalkInv
  <2>3. AnswerInv' /\ AcceptedInv' /\ LinksInv'
    BY <1>0, <1>2, LinksKept DEF IInv, AnswerInv, AcceptedInv, Judging
  <2> QED
    BY <2>1, <2>2, <2>3 DEF IInv
<1> QED
  BY <1>1, <1>2 DEF WalkNext

LEMMA WalkItemInv ==
  ASSUME IInv, WalkItem
  PROVE  IInv'
<1>0. /\ Judging /\ nextNode[next] = nullptr /\ SingleSink /\ cur \in Nodes
      /\ UNCHANGED isFinalOutput /\ UNCHANGED scriptVars
      /\ Sinks \subseteq isFinalOutput
      /\ isFinalOutput' \in SUBSET Node
      /\ size \in 0..N
  BY DEF WalkItem, IInv, WalkInv, AcceptedInv, TypeOK
<1>1. \A C \in SUBSET Nodes : Closed(C) => C \cap 1..cur = {}
  <2> SUFFICES ASSUME NEW C \in SUBSET Nodes, Closed(C)
               PROVE  C \cap 1..cur = {}
    OBVIOUS
  <2>1. cur \notin C
    BY <1>0, StartOffCycle
  <2>2. C \cap 1..(cur - 1) = {}
    BY <1>0 DEF IInv, WalkInv
  <2> QED
    BY <2>1, <2>2, <1>0, NAssumption DEF Nodes
<1>2. CASE /\ cur < size
           /\ cur' = cur + 1 /\ next' = cur + 1
           /\ UNCHANGED <<caller, answer, outcome>>
  <2>1. cur + 1 \in Nodes /\ cur + 1 \in Node /\ (cur + 1) - 1 = cur
    BY <1>0, <1>2, NAssumption DEF Nodes, Node
  <2>2. TypeOK'
    BY <1>0, <1>2, <2>1 DEF IInv, TypeOK, scriptVars
  <2>3. WalkInv'
    <3>1. \E P \in SUBSET Nodes :
            cur + 1 \in P /\ \A p \in P \ {cur + 1} : nextNode[p] \in P
      <4>1. {cur + 1} \in SUBSET Nodes
        BY <2>1
      <4> QED
        BY <4>1
    <3>2. UNCHANGED nextNode
      BY <1>0 DEF scriptVars
    <3> QED
      BY <1>0, <1>1, <1>2, <2>1, <3>1, <3>2, LinksKept DEF WalkInv
  <2>4. AnswerInv' /\ AcceptedInv' /\ LinksInv'
    BY <1>0, <1>2, LinksKept DEF IInv, AnswerInv, AcceptedInv, Judging
  <2> QED
    BY <2>2, <2>3, <2>4 DEF IInv
<1>3. CASE cur = size /\ Return("yes") /\ UNCHANGED walkVars
  <2>1. Acyclic
    BY <1>1, <1>3 DEF Acyclic, Closed, Nodes
  <2> QED
    BY <1>0, <1>3, <2>1, ReturnInv DEF walkVars, IInv, TypeOK
<1> QED
  BY <1>2, <1>3 DEF WalkItem

LEMMA OtherInv ==
  ASSUME IInv, IsSingleOutput \/ EndScript \/ CreateTasks
  PROVE  IInv'
<1>0. UNCHANGED scriptVars /\ UNCHANGED walkVars /\ UNCHANGED answer
  BY DEF IsSingleOutput, EndScript, CreateTasks
<1>1. TypeOK'
  <2>1. isFinalOutput' \in SUBSET Node
    BY SinksAreNodes
    DEF IInv, TypeOK, IsSingleOutput, EndScript, CreateTasks, MarkOutputs
  <2>2. caller' \in Callers /\ outcome' \in {"none", "task", "nullptr"}
    BY DEF IInv, TypeOK, IsSingleOutput, EndScript, CreateTasks, Callers
  <2> QED
    BY <1>0, <2>1, <2>2 DEF IInv, TypeOK, scriptVars, walkVars
<1>2. LinksInv' /\ AnswerInv'
  BY <1>0, LinksKept DEF IInv, AnswerInv
<1>3. WalkInv'
  BY DEF WalkInv, Judging, IsSingleOutput, EndScript, CreateTasks
<1>4. AcceptedInv'
  BY <1>0, LinksKept DEF IInv, AcceptedInv, Judging, IsSingleOutput, EndScript,
              CreateTasks, MarkOutputs
<1> QED
  BY <1>1, <1>2, <1>3, <1>4 DEF IInv

LEMMA StutterInv ==
  ASSUME IInv, UNCHANGED vars
  PROVE  IInv'
<1>0. UNCHANGED scriptVars /\ UNCHANGED <<isFinalOutput, caller, cur, next, answer, outcome>>
  BY DEF vars, walkVars
<1>1. TypeOK'
  BY <1>0 DEF IInv, TypeOK, scriptVars
<1>2. UNCHANGED nextNode
  BY <1>0 DEF scriptVars
<1> QED
  BY <1>0, <1>1, <1>2, LinksKept DEF IInv, AnswerInv, WalkInv, AcceptedInv, Judging

\* The invariant holds in every reachable state.
THEOREM Invariance == Spec => []IInv
<1>1. IInv /\ [Next]_vars => IInv'
  <2> SUFFICES ASSUME IInv, [Next]_vars
               PROVE  IInv'
    OBVIOUS
  <2>1. CASE CreateVirtualDeviceNode \/ CreateOperatorNode
    BY <2>1, RegisterInv
  <2>2. ASSUME NEW n \in Node, AddQuery(n)
        PROVE  IInv'
    BY <2>2, AddQueryInv
  <2>3. ASSUME NEW n \in Node, NEW ptr \in Node \cup {nullptr}, PointTo(n, ptr)
        PROVE  IInv'
    BY <2>3, PointToInv
  <2>4. CASE IsSingleOutput \/ EndScript \/ CreateTasks
    BY <2>4, OtherInv
  <2>5. CASE IsDAG
    BY <2>5, IsDAGInv
  <2>6. CASE WalkNext
    BY <2>6, WalkNextInv
  <2>7. CASE WalkItem
    BY <2>7, WalkItemInv
  <2>8. CASE UNCHANGED vars
    BY <2>8, StutterInv
  <2> QED
    BY <2>1, <2>2, <2>3, <2>4, <2>5, <2>6, <2>7, <2>8 DEF Next
<1> QED
  BY InitInv, <1>1, PTL DEF Spec

\* Every variable has its type, and isDAG's walk never leaves the nodes
\* (isDAG and generateGraphTask, cbComputeGraph.cpp:393-435).
THEOREM TypeCorrect == Spec => []TypeOK
<1>1. IInv => TypeOK
  BY DEF IInv
<1> QED
  BY Invariance, <1>1, PTL

\* isDAG never answers wrongly, whatever the script built and however often
\* it asked before: yes exactly for a graph with one sink and no cycle.
THEOREM AnswerIsCorrect == Spec => []AnswerCorrect
<1>1. IInv => AnswerCorrect
  BY DEF IInv, AnswerInv, AnswerCorrect, SingleSink, OneSink
<1> QED
  BY Invariance, <1>1, PTL

\* A graph that generateGraphTask accepts can run to its end: it has a task
\* for every node, and every node feeds the flagged sink.
THEOREM AcceptedRuns == Spec => []TaskIsRunnable
<1>1. IInv => TaskIsRunnable
  <2> SUFFICES ASSUME IInv, outcome = "task"
               PROVE  TaskIsRunnable
    BY DEF TaskIsRunnable
  <2>1. LinksInv /\ SingleSink /\ Acyclic /\ Sinks \subseteq isFinalOutput
    BY DEF IInv, AcceptedInv, AnswerInv
  <2>2. \A n \in Nodes : HasTask(n)
    BY DEF IInv, AcceptedInv
  <2> QED
    BY <2>1, <2>2, AcceptedFeedsSink DEF TaskIsRunnable
<1> QED
  BY Invariance, <1>1, PTL

-----------------------------------------------------------------------------
(* What ComputeGraph assumes of a graph *)

\* NodesAssumption, FiniteAssumption and AcceptedAssumption of ComputeGraph, as
\* far as they are about the nodes and their links, with Nodes for Node and
\* nextNode for NextNode.
FitForRounds ==
  /\ nullptr \notin Nodes
  /\ \A n \in Nodes : nextNode[n] \in Nodes \cup {nullptr}
  /\ IsFiniteSet(Nodes)
  /\ \E s \in Nodes : {n \in Nodes : nextNode[n] = nullptr} = {s}
  /\ \A C \in SUBSET Nodes : C # {} => \E c \in C : nextNode[c] \notin C

\* The graphs that get a task are those that ComputeGraph is about, and their
\* links stay as they were judged: its assumptions are no more than what
\* generateGraphTask has made sure of (cbComputeGraph.cpp:548-551), and its
\* NextNode is a constant with reason.
THEOREM TasksFitRounds ==
  Spec => /\ [](outcome = "task" => FitForRounds)
          /\ [][outcome = "task" => UNCHANGED scriptVars]_vars
<1>1. IInv => (outcome = "task" => FitForRounds)
  <2> SUFFICES ASSUME IInv, outcome = "task"
               PROVE  FitForRounds
    OBVIOUS
  <2>1. LinksInv /\ SingleSink /\ Acyclic /\ size \in Nat
    BY DEF IInv, AcceptedInv, AnswerInv, TypeOK
  <2>2. nullptr \notin Nodes /\ IsFiniteSet(Nodes)
    BY <2>1, FS_Interval DEF Nodes, nullptr
  <2>3. \E s \in Nodes : {n \in Nodes : nextNode[n] = nullptr} = {s}
    BY <2>1 DEF SingleSink, Sinks
  <2> QED
    BY <2>1, <2>2, <2>3 DEF FitForRounds, LinksInv, Acyclic, Closed
<1>2. IInv /\ [Next]_vars => [outcome = "task" => UNCHANGED scriptVars]_vars
  <2> SUFFICES ASSUME IInv, Next, outcome = "task"
               PROVE  UNCHANGED scriptVars
    OBVIOUS
  <2>1. caller # "script"
    BY DEF IInv, AcceptedInv
  <2> QED
    BY <2>1 DEF Next, CreateVirtualDeviceNode, CreateOperatorNode, RegisterNode,
         AddQuery, PointTo, IsSingleOutput, IsDAG, WalkNext, WalkItem, EndScript,
         CreateTasks
<1> QED
  BY <1>1, <1>2, Invariance, PTL DEF Spec

-----------------------------------------------------------------------------
(* How the walk travels *)

\* The walk has come from cur to next without stepping on cur again, and what
\* holds the successor of cur and is left nowhere holds next.
TravelInv ==
  Judging =>
    /\ \E P \in SUBSET Nodes :
         /\ cur \in P
         /\ next \in P
         /\ \A p \in P \ {next} : nextNode[p] \in P \ {cur}
    /\ \A S \in SUBSET Nodes :
         /\ nextNode[cur] \in S \cup {nullptr}
         /\ \A s \in S : nextNode[s] \in S \cup {nullptr}
         => next = cur \/ next \in S

LEMMA TravelStep ==
  ASSUME IInv, TravelInv, [Next]_vars
  PROVE  TravelInv'
<1> SUFFICES ASSUME Judging' PROVE TravelInv'
  BY DEF TravelInv
<1> USE DEF Judging
<1>1. CASE IsDAG
  <2>1. SingleSink /\ cur' = 1 /\ next' = 1 /\ UNCHANGED scriptVars
    BY <1>1 DEF IsDAG, Return
  <2>2. 1 \in Nodes
    BY <2>1 DEF SingleSink, Nodes, IInv, TypeOK
  <2>3. /\ {1} \in SUBSET Nodes /\ 1 \in {1}
        /\ \A p \in {1} \ {1} : nextNode[p] \in {1} \ {1}
    BY <2>2
  <2>4. \E P \in SUBSET Nodes : 1 \in P /\ \A p \in P \ {1} : nextNode[p] \in P \ {1}
    BY <2>3
  <2> QED
    BY <2>1, <2>4 DEF TravelInv, Nodes, scriptVars
<1>2. CASE WalkItem
  <2>1. cur' \in Nodes /\ next' = cur' /\ UNCHANGED scriptVars
    BY <1>2 DEF WalkItem, Return, IInv, WalkInv, Nodes, TypeOK
  <2>2. \E P \in SUBSET Nodes :
          cur' \in P /\ \A p \in P \ {cur'} : nextNode[p] \in P \ {cur'}
    <3>1. {cur'} \in SUBSET Nodes
      BY <2>1
    <3> QED
      BY <3>1
  <2> QED
    BY <2>1, <2>2 DEF TravelInv, Nodes, scriptVars
<1>3. CASE WalkNext
  <2>1. /\ Judging /\ UNCHANGED cur /\ UNCHANGED scriptVars
        /\ nextNode[next] # nullptr /\ next' = nextNode[next] /\ next' # cur
        /\ next \in Nodes /\ next' \in Nodes
    BY <1>3 DEF WalkNext, Return, IInv, WalkInv, LinksInv
  <2>2. PICK P \in SUBSET Nodes :
          /\ cur \in P /\ next \in P
          /\ \A p \in P \ {next} : nextNode[p] \in P \ {cur}
    BY <2>1 DEF TravelInv
  <2>3. /\ P \cup {next'} \in SUBSET Nodes
        /\ \A p \in (P \cup {next'}) \ {next'} : nextNode[p] \in (P \cup {next'}) \ {cur}
    BY <2>1, <2>2
  <2>4. \E Q \in SUBSET Nodes :
          /\ cur \in Q /\ next' \in Q
          /\ \A p \in Q \ {next'} : nextNode[p] \in Q \ {cur}
    BY <2>2, <2>3
  <2>5. ASSUME NEW S \in SUBSET Nodes, nextNode[cur] \in S \cup {nullptr},
               \A s \in S : nextNode[s] \in S \cup {nullptr}
        PROVE  next' \in S
    BY <2>1, <2>5 DEF TravelInv
  <2> QED
    BY <2>1, <2>4, <2>5 DEF TravelInv, Nodes, scriptVars
<1>4. CASE UNCHANGED vars
  BY <1>4 DEF TravelInv, vars, scriptVars, walkVars, Nodes
<1> QED
  BY <1>1, <1>2, <1>3, <1>4
     DEF Next, CreateVirtualDeviceNode, CreateOperatorNode, RegisterNode, AddQuery,
         PointTo, IsSingleOutput, EndScript, CreateTasks

LEMMA SpecTravel == Spec => [](IInv /\ TravelInv)
<1>1. Init => TravelInv
  BY DEF Init, TravelInv, Judging
<1> QED
  BY <1>1, TravelStep, Invariance, PTL DEF Spec

-----------------------------------------------------------------------------
(* What the walk has still to come to *)

\* ToCome is a set as it describes, and it is the least.
LEMMA ToComeFacts ==
  ASSUME LinksInv, NEW c \in Nodes, NEW n \in Nodes
  PROVE  /\ n \in ToCome(c, n) /\ ToCome(c, n) \in SUBSET Nodes
         /\ \A s \in ToCome(c, n) : nextNode[s] \in ToCome(c, n) \cup {nullptr, c}
         /\ \A S \in SUBSET Nodes :
              n \in S /\ (\A s \in S : nextNode[s] \in S \cup {nullptr, c})
                => ToCome(c, n) \subseteq S
<1>1. n \in ToCome(c, n) /\ ToCome(c, n) \in SUBSET Nodes
  BY DEF ToCome
<1>2. ASSUME NEW s \in ToCome(c, n), nextNode[s] \notin {nullptr, c}
      PROVE  nextNode[s] \in ToCome(c, n)
  BY <1>2 DEF ToCome, LinksInv
<1>3. \A S \in SUBSET Nodes :
        n \in S /\ (\A s \in S : nextNode[s] \in S \cup {nullptr, c})
          => ToCome(c, n) \subseteq S
  BY DEF ToCome
<1> QED
  BY <1>1, <1>2, <1>3

\* A step of the walk leaves one node behind, unless it is going to come back.
LEMMA ToComeShrinks ==
  ASSUME LinksInv, NEW c \in Nodes, NEW n \in Nodes,
         nextNode[n] \notin {nullptr, c}, n \notin ToCome(c, nextNode[n])
  PROVE  ToCome(c, nextNode[n]) \subseteq ToCome(c, n) \ {n}
<1>1. nextNode[n] \in Nodes
  BY DEF LinksInv
<1>2. nextNode[n] \in ToCome(c, n)
  BY ToComeFacts
<1> QED
  BY <1>1, <1>2, ToComeFacts

\* If it is, then what it comes to is a closed set without the start.
LEMMA ToComeClosed ==
  ASSUME LinksInv, NEW c \in Nodes, NEW n \in Nodes,
         nextNode[n] \notin {nullptr, c}, n \in ToCome(c, nextNode[n])
  PROVE  Closed(ToCome(c, nextNode[n])) /\ c \notin ToCome(c, nextNode[n])
<1> DEFINE T == ToCome(c, nextNode[n])
           S == {m \in T : n \in ToCome(c, m)}
<1>1. /\ nextNode[n] \in Nodes /\ nextNode[n] \in T /\ T \in SUBSET Nodes
      /\ \A s \in T : nextNode[s] \in T \cup {nullptr, c}
      /\ \A R \in SUBSET Nodes :
           nextNode[n] \in R /\ (\A s \in R : nextNode[s] \in R \cup {nullptr, c})
             => T \subseteq R
  <2>1. nextNode[n] \in Nodes
    BY DEF LinksInv
  <2> QED
    BY <2>1, ToComeFacts
<1> HIDE DEF T
<1>2. nextNode[n] \in S /\ S \in SUBSET Nodes
  BY <1>1 DEF T
<1>3. ASSUME NEW m \in S PROVE nextNode[m] \in S
  <2>1. CASE m = n
    BY <1>2, <2>1
  <2>2. CASE m # n /\ nextNode[m] \in {nullptr, c}
    <3>1. {m} \in SUBSET Nodes /\ m \in {m}
          /\ \A s \in {m} : nextNode[s] \in {m} \cup {nullptr, c}
      BY <1>2, <1>3, <2>2
    <3>2. ToCome(c, m) \subseteq {m}
      BY <1>2, <1>3, <3>1, ToComeFacts
    <3> QED
      BY <1>3, <2>2, <3>2
  <2>3. CASE m # n /\ nextNode[m] \notin {nullptr, c}
    <3> DEFINE q == nextNode[m]
               R == {m} \cup ToCome(c, q)
    <3>1. q \in T /\ q \in Nodes /\ m \in Nodes
      BY <1>1, <1>3, <2>3
    <3>2. /\ q \in ToCome(c, q) /\ ToCome(c, q) \in SUBSET Nodes
          /\ \A s \in ToCome(c, q) : nextNode[s] \in ToCome(c, q) \cup {nullptr, c}
      BY <3>1, ToComeFacts
    <3>3. /\ R \in SUBSET Nodes /\ m \in R
          /\ \A s \in R : nextNode[s] \in R \cup {nullptr, c}
      BY <3>1, <3>2
    <3> HIDE DEF R
    <3>4. ToCome(c, m) \subseteq R
      BY <3>1, <3>3, ToComeFacts
    <3>5. n \in ToCome(c, q)
      BY <1>3, <2>3, <3>4 DEF R
    <3> QED
      BY <3>1, <3>5
  <2> QED
    BY <2>1, <2>2, <2>3
<1>4. T \subseteq S
  BY <1>1, <1>2, <1>3
<1>5. Closed(T)
  BY <1>1, <1>3, <1>4 DEF Closed
<1>6. c \notin T
  <2> DEFINE R == T \ {c}
  <2>1. /\ R \in SUBSET Nodes /\ nextNode[n] \in R
        /\ \A s \in R : nextNode[s] \in R \cup {nullptr, c}
    BY <1>1
  <2> HIDE DEF R
  <2>2. T \subseteq R
    BY <1>1, <2>1
  <2> QED
    BY <2>2 DEF R
<1> QED
  BY <1>5, <1>6 DEF T

\* The nodes whose walk does not end begin at cur or behind it.
LEMMA LoopingFromCur ==
  ASSUME IInv, Judging, NEW C \in SUBSET Nodes, Closed(C), cur \in C
  PROVE  cur \in Looping /\ \A m \in Looping : cur <= m
<1>1. cur \in Looping
  BY DEF Looping
<1>2. ASSUME NEW m \in Looping PROVE cur <= m
  <2>1. PICK D \in SUBSET Nodes : Closed(D) /\ m \in D
    BY DEF Looping
  <2>2. D \cap 1..(cur - 1) = {}
    BY <2>1 DEF IInv, WalkInv
  <2>3. cur \in Nat /\ m \in Nat \ {0}
    BY <2>1 DEF IInv, TypeOK, Node, Nodes
  <2> QED
    BY <2>1, <2>2, <2>3
<1> QED
  BY <1>1, <1>2

\* Where the first node that does not end lies on a cycle, the walk never
\* comes back to a node without having met its start.
LEMMA NoWayBack ==
  ASSUME IInv, TravelInv, Judging, FirstLoopReturns,
         nextNode[next] \notin {nullptr, cur}
  PROVE  next \notin ToCome(cur, nextNode[next])
<1> SUFFICES ASSUME next \in ToCome(cur, nextNode[next]) PROVE FALSE
  OBVIOUS
<1> DEFINE T == ToCome(cur, nextNode[next])
<1>0. LinksInv /\ cur \in Nodes /\ next \in Nodes /\ nextNode[next] \in Nodes
  BY DEF IInv, WalkInv, LinksInv
<1>1. Closed(T) /\ cur \notin T /\ T \in SUBSET Nodes /\ nextNode[next] \in T
  BY <1>0, ToComeClosed, ToComeFacts
<1> HIDE DEF T
<1>2. PICK P \in SUBSET Nodes :
        /\ cur \in P /\ next \in P
        /\ \A p \in P \ {next} : nextNode[p] \in P \ {cur}
  BY DEF TravelInv
<1>3. P \cup T \in SUBSET Nodes /\ Closed(P \cup T) /\ cur \in P \cup T
  BY <1>1, <1>2 DEF Closed
<1>4. cur \in Looping /\ \A m \in Looping : cur <= m
  BY <1>3, LoopingFromCur
<1>5. cur \in Ahead(cur)
  <2>1. PICK n \in Looping : n \in Ahead(n) /\ \A m \in Looping : n <= m
    BY <1>4 DEF FirstLoopReturns
  <2>2. n \in Nat /\ cur \in Nat
    BY <1>0 DEF Looping, Nodes, IInv, TypeOK
  <2>3. n = cur
    BY <1>4, <2>1, <2>2
  <2> QED
    BY <2>1, <2>3
<1> DEFINE S == (P \ {cur}) \cup T
<1>6. S \in SUBSET Nodes /\ cur \notin S /\ cur # next
  BY <1>1, <1>2 DEF T
<1>7. nextNode[cur] \in S /\ \A s \in S : nextNode[s] \in S
  BY <1>1, <1>2, <1>6 DEF Closed
<1> QED
  BY <1>5, <1>6, <1>7 DEF Ahead

\* There is at least one node to come to, and at most all of them.
LEMMA ToComeCard ==
  ASSUME LinksInv, size \in Nat, NEW c \in Nodes, NEW n \in Nodes
  PROVE  IsFiniteSet(ToCome(c, n)) /\ Cardinality(ToCome(c, n)) \in 1..size
<1> DEFINE T == ToCome(c, n)
<1>1. T \in SUBSET (1..size) /\ n \in T
  BY ToComeFacts DEF Nodes
<1> HIDE DEF T
<1>2. IsFiniteSet(1..size) /\ Cardinality(1..size) = size
  BY FS_Interval
<1>3. IsFiniteSet(T) /\ Cardinality(T) <= size
  BY <1>1, <1>2, FS_Subset
<1>4. Cardinality(T) \in Nat /\ Cardinality(T) # 0
  BY <1>1, <1>3, FS_CardinalityType, FS_EmptySet
<1>5. IsFiniteSet(T) /\ Cardinality(T) \in 1..size
  BY <1>3, <1>4
<1> QED
  BY <1>5 DEF T

\* What is left is counted by numbers from 1 to n^2.
LEMMA StepsLeftFacts ==
  ASSUME IInv, Judging
  PROVE  /\ size \in Nat /\ cur \in 1..size
         /\ IsFiniteSet(ToCome(cur, next))
         /\ Cardinality(ToCome(cur, next)) \in 1..size
         /\ StepsLeft \in 1..size * size
<1>1. LinksInv /\ cur \in Nodes /\ next \in Nodes /\ size \in Nat /\ Nodes = 1..size
  BY DEF IInv, WalkInv, TypeOK, Nodes
<1>2. IsFiniteSet(ToCome(cur, next)) /\ Cardinality(ToCome(cur, next)) \in 1..size
  BY <1>1, ToComeCard
<1>3. ASSUME NEW s \in Nat, NEW c \in 1..s, NEW k \in 1..s
      PROVE  (s - c) * s + k \in 1..s * s
  <2>1. (s - c) * s \in Nat
    BY SMT
  <2>2. (s - c) * s = s * s - c * s /\ c * s \in Nat /\ s * s \in Nat
    BY SMT
  <2>3. c * s >= s
    BY SMT
  <2> QED
    BY <2>1, <2>2, <2>3
<1> QED
  BY <1>1, <1>2, <1>3 DEF StepsLeft

-----------------------------------------------------------------------------
(* Theorems about the walk *)

\* Inside of a judgement there are only steps of the walk.
LEMMA OnlyWalks ==
  ASSUME IInv, Judging, Next
  PROVE  UNCHANGED scriptVars /\ (WalkNext \/ WalkItem)
BY DEF Judging, Next, CreateVirtualDeviceNode, CreateOperatorNode, RegisterNode,
       AddQuery, PointTo, IsSingleOutput, IsDAG, EndScript, CreateTasks, WalkNext,
       WalkItem

LEMMA WalkShrinks ==
  ASSUME IInv, TravelInv, Judging, FirstLoopReturns, Next, Judging'
  PROVE  StepsLeft' < StepsLeft
<1>1. UNCHANGED scriptVars /\ (WalkNext \/ WalkItem) /\ size' = size
  BY OnlyWalks DEF scriptVars
<1>2. StepsLeft' = (size - cur') * size + Cardinality(ToCome(cur', next'))
  BY <1>1 DEF StepsLeft, ToCome, Nodes, scriptVars
<1>3. LinksInv /\ cur \in Nodes /\ next \in Nodes
  BY DEF IInv, WalkInv
<1>4. /\ size \in Nat /\ cur \in 1..size
      /\ IsFiniteSet(ToCome(cur, next)) /\ Cardinality(ToCome(cur, next)) \in 1..size
  BY StepsLeftFacts
<1>5. CASE WalkNext
  <2>1. nextNode[next] \notin {nullptr, cur} /\ next' = nextNode[next] /\ cur' = cur
    BY <1>5 DEF WalkNext, Return, Judging
  <2>2. next \notin ToCome(cur, nextNode[next])
    BY <2>1, NoWayBack
  <2>3. ToCome(cur, next') \subseteq ToCome(cur, next) \ {next}
    BY <1>3, <2>1, <2>2, ToComeShrinks
  <2>4. next \in ToCome(cur, next)
    BY <1>3, ToComeFacts
  <2> DEFINE T == ToCome(cur, next)
             U == ToCome(cur, next')
  <2>5. Cardinality(U) < Cardinality(T) /\ Cardinality(U) \in Nat
    <3> HIDE DEF T, U
    <3>1. IsFiniteSet(T) /\ U \subseteq T \ {next} /\ next \in T /\ Cardinality(T) \in Nat
      BY <1>4, <2>3, <2>4 DEF T, U
    <3>2. IsFiniteSet(T \ {next}) /\ Cardinality(T \ {next}) = Cardinality(T) - 1
      BY <3>1, FS_RemoveElement
    <3>3. IsFiniteSet(U) /\ Cardinality(U) <= Cardinality(T \ {next})
      BY <3>1, <3>2, FS_Subset
    <3> QED
      BY <3>1, <3>2, <3>3, FS_CardinalityType
  <2>6. (size - cur) * size \in Int
    BY <1>4
  <2> QED
    BY <1>2, <1>4, <2>1, <2>5, <2>6 DEF StepsLeft
<1>6. CASE WalkItem
  <2>1. cur' = cur + 1 /\ next' = cur + 1
    BY <1>6 DEF WalkItem, Return, Judging
  <2>2. Cardinality(ToCome(cur', next')) \in 1..size
    <3>1. cur < size /\ cur + 1 \in Nodes
      BY <1>4, <1>6 DEF WalkItem, Return, Judging, Nodes
    <3>2. ToCome(cur', next') = ToCome(cur + 1, cur + 1)
      BY <2>1
    <3> QED
      BY <1>3, <1>4, <3>1, <3>2, ToComeCard
  <2>3. ASSUME NEW s \in Nat, NEW c \in 1..s, NEW k \in 1..s, NEW m \in 1..s
        PROVE  (s - (c + 1)) * s + k < (s - c) * s + m
    <3>1. (s - (c + 1)) * s = (s - c) * s - s /\ (s - c) * s \in Int
      BY SMT
    <3> QED
      BY <3>1
  <2> QED
    BY <1>2, <1>4, <2>1, <2>2, <2>3 DEF StepsLeft
<1> QED
  BY <1>1, <1>5, <1>6

LEMMA WalkEnds ==
  ASSUME IInv, TravelInv, Judging, Next, ~Judging'
  PROVE  FirstLoopReturns
<1>0. LinksInv /\ cur \in Nodes /\ next \in Nodes /\ nullptr \notin Nodes
  BY DEF IInv, WalkInv, Nodes, nullptr
<1>1. CASE WalkNext
  <2>1. nextNode[next] = cur
    BY <1>1 DEF WalkNext, Judging
  <2>2. PICK P \in SUBSET Nodes :
          /\ cur \in P /\ next \in P
          /\ \A p \in P \ {next} : nextNode[p] \in P \ {cur}
    BY DEF TravelInv
  <2>3. Closed(P)
    BY <2>1, <2>2 DEF Closed
  <2>4. cur \in Looping /\ \A m \in Looping : cur <= m
    BY <2>2, <2>3, LoopingFromCur
  <2>5. cur \in Ahead(cur)
    <3> SUFFICES ASSUME NEW S \in SUBSET Nodes, nextNode[cur] \in S \cup {nullptr},
                        \A s \in S : nextNode[s] \in S \cup {nullptr}
                 PROVE  cur \in S
      BY <1>0 DEF Ahead
    <3>1. next = cur \/ next \in S
      BY DEF TravelInv
    <3> QED
      BY <1>0, <2>1, <3>1
  <2> QED
    BY <2>4, <2>5 DEF FirstLoopReturns
<1>2. CASE WalkItem
  <2>1. cur = size /\ nextNode[next] = nullptr /\ size \in Nat
    BY <1>2 DEF WalkItem, Judging, IInv, TypeOK
  <2>2. \A C \in SUBSET Nodes : ~Closed(C)
    <3> SUFFICES ASSUME NEW C \in SUBSET Nodes, Closed(C) PROVE FALSE
      OBVIOUS
    <3>1. cur \notin C
      BY <2>1, StartOffCycle
    <3>2. C \cap 1..(cur - 1) = {}
      BY DEF IInv, WalkInv
    <3>3. PICK x \in C : TRUE
      BY DEF Closed
    <3>4. x \in 1..size /\ x # size
      BY <2>1, <3>1 DEF Nodes
    <3>5. x \in 1..(size - 1)
      BY <2>1, <3>4
    <3> QED
      BY <2>1, <3>2, <3>5
  <2> QED
    BY <2>2 DEF FirstLoopReturns, Looping
<1> QED
  BY <1>1, <1>2, OnlyWalks

\* isDAG takes at most n^2 steps where it returns (cbComputeGraph.cpp:393-419),
\* and it does not return where the first node whose walk does not end only
\* leads into a cycle: the condition of WalkReturns is exact.
THEOREM WalksAreQuadratic == Spec => WalkIsQuadratic
<1>1. IInv /\ TravelInv /\ [Next]_vars =>
        [Judging =>
           IF FirstLoopReturns
           THEN /\ StepsLeft \in 1..size * size
                /\ Judging' => StepsLeft' < StepsLeft
           ELSE Judging']_vars
  BY StepsLeftFacts, WalkShrinks, WalkEnds
<1> QED
  BY <1>1, SpecTravel, PTL DEF Spec, WalkIsQuadratic
=============================================================================
