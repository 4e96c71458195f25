----------------------------- MODULE GraphBuild -----------------------------
(***************************************************************************)
(* Building one compute graph and judging it.                              *)
(*                                                                         *)
(* A Lua script creates the nodes of a graph and links them with PointTo;  *)
(* a node has at most one successor.  When the script is done, every round *)
(* of the server's loop calls generateGraphTask, which asks isDAG whether  *)
(* the graph may run and, if so, makes one workflow task per node.  The    *)
(* script can call isDAG and isSingleOutput too.                           *)
(*                                                                         *)
(* A node is named by its position in m_nodes, so that the order of        *)
(* registration, which the walk of isDAG follows, is the order of Nat.     *)
(* The walk is one step per iteration of its inner loop, because whether   *)
(* it ends at all is one of the questions.                                 *)
(***************************************************************************)
EXTENDS Integers, FiniteSets

CONSTANTS
  N,          \* bound: nodes a script creates
  MaxLeaves   \* bound: how many of them are virtual device nodes

ASSUME NAssumption == N \in Nat \ {0}
ASSUME MaxLeavesAssumption == MaxLeaves \in Nat

Node == 1..N
nullptr == 0        \* no successor; not a member of Node
ManyQueries == 2    \* bound: "two or more queries"

VARIABLES
  size,           \* m_nodes.size()
  leaf,           \* the nodes whose nodeT is Leaf
  device,         \* the leaves whose m_device is not null
  queries,        \* m_queries.size() of each node
  nextNode,       \* the successor of each node, or nullptr
  isFinalOutput,  \* the nodes whose flag isFinalOutput is set
  caller,         \* who runs: the script, isDAG on its behalf, the loop, ...
  cur,            \* isDAG's outer loop variable
  next,           \* isDAG's inner loop variable
  answer,         \* what isDAG last returned for the links as they are
  outcome         \* what generateGraphTask last returned

scriptVars == <<size, leaf, device, queries, nextNode>>
walkVars   == <<cur, next>>
vars == <<scriptVars, isFinalOutput, caller, walkVars, answer, outcome>>

Callers == {"script", "isDAG", "idle", "generate", "create", "crashed"}

TypeOK ==
  /\ size \in 0..N
  /\ leaf \in SUBSET Node
  /\ device \in SUBSET leaf
  /\ queries \in [Node -> 0..ManyQueries]
  /\ nextNode \in [Node -> Node \cup {nullptr}]
  /\ isFinalOutput \in SUBSET Node
  /\ caller \in Callers
  /\ cur \in Node
  /\ next \in Node
  /\ answer \in {"none", "yes", "no"}
  /\ outcome \in {"none", "task", "nullptr"}

Nodes == 1..size
Sinks == {n \in Nodes : nextNode[n] = nullptr}

Init ==
  /\ size = 0
  /\ leaf = {}
  /\ device = {}
  /\ queries = [n \in Node |-> 0]
  /\ nextNode = [n \in Node |-> nullptr]
  /\ isFinalOutput = {}
  /\ caller = "script"
  /\ cur = 1 /\ next = 1
  /\ answer = "none"
  /\ outcome = "none"

-----------------------------------------------------------------------------
(* The script *)

\* Every create function ends with registerNode.  The new node has no
\* successor, so an earlier answer of isDAG is about another graph.
RegisterNode ==
  /\ caller = "script"
  /\ size < N
  /\ size' = size + 1
  /\ answer' = "none"
  /\ UNCHANGED <<queries, nextNode, isFinalOutput, caller, walkVars, outcome>>

\* getMySqlDevice returns null for an index it does not know.
CreateVirtualDeviceNode ==
  /\ Cardinality(leaf) < MaxLeaves
  /\ RegisterNode
  /\ leaf' = leaf \cup {size + 1}
  /\ device' \in {device, device \cup {size + 1}}

CreateOperatorNode ==
  /\ RegisterNode
  /\ UNCHANGED <<leaf, device>>

AddQuery(n) ==
  /\ caller = "script"
  /\ n \in Nodes \cap leaf
  /\ queries[n] < ManyQueries
  /\ queries' = [queries EXCEPT ![n] = @ + 1]
  /\ UNCHANGED <<size, leaf, device, nextNode, isFinalOutput, caller, walkVars,
                 answer, outcome>>

PointTo(n, ptr) ==
  /\ caller = "script"
  /\ n \in Nodes
  /\ ptr \in Nodes \cup {nullptr}
  /\ nextNode' = [nextNode EXCEPT ![n] = ptr]
  /\ answer' = "none"
  /\ UNCHANGED <<size, leaf, device, queries, isFinalOutput, caller, walkVars,
                 outcome>>

-----------------------------------------------------------------------------
(* Judging *)

\* Mutant: at least one sink instead of exactly one.
Mut_SomeSink == Sinks # {}
SingleSink == \E s \in Nodes : Sinks = {s}

\* What isSingleOutput does besides answering: it flags every sink it sees
\* and never takes a flag back.
\* Mutant: it flags the sinks only the first time it is called.
Mut_MarkOnce ==
  isFinalOutput' = IF isFinalOutput = {} THEN Sinks ELSE isFinalOutput
MarkOutputs == isFinalOutput' = isFinalOutput \cup Sinks

\* The script calls isSingleOutput for its answer.
IsSingleOutput ==
  /\ caller = "script"
  /\ MarkOutputs
  /\ UNCHANGED <<scriptVars, caller, walkVars, answer, outcome>>

\* isDAG returns ans to whoever called it.  generateGraphTask then calls
\* isSingleOutput once more, which flags the same sinks again.
Return(ans) ==
  /\ answer' = ans
  /\ \/ /\ caller \in {"script", "isDAG"}
        /\ caller' = "script"
        /\ UNCHANGED outcome
     \/ /\ caller \in {"idle", "generate"}
        /\ ans = "yes" /\ SingleSink
        /\ caller' = "create"
        /\ UNCHANGED outcome
     \/ /\ caller \in {"idle", "generate"}
        /\ ~(ans = "yes" /\ SingleSink)
        /\ caller' = "idle"
        /\ outcome' = "nullptr"

\* The call of isDAG: it flags the sinks, answers no at once when there is
\* not exactly one, and otherwise starts the walk at the first node.
IsDAG ==
  /\ caller \in {"script", "idle"}
  /\ MarkOutputs
  /\ \/ /\ ~SingleSink
        /\ Return("no")
        /\ UNCHANGED walkVars
     \/ /\ SingleSink
        /\ caller' = IF caller = "script" THEN "isDAG" ELSE "generate"
        /\ cur' = 1 /\ next' = 1
        /\ UNCHANGED <<answer, outcome>>
  /\ UNCHANGED scriptVars

Judging == caller \in {"isDAG", "generate"}

\* Mutant: the comparison with the start of the walk is missing.
Mut_WalkBlindly ==
  /\ Judging
  /\ nextNode[next] # nullptr
  /\ next' = nextNode[next]
  /\ UNCHANGED <<scriptVars, isFinalOutput, caller, cur, answer, outcome>>

\* Mutant: a node that points to itself is taken for the start of the walk.
Mut_WalkSeesSelfLoop ==
  /\ Judging
  /\ nextNode[next] # nullptr
  /\ next' = nextNode[next]
  /\ \/ /\ nextNode[next] \in {cur, next}
        /\ Return("no")
     \/ /\ nextNode[next] \notin {cur, next}
        /\ UNCHANGED <<caller, answer, outcome>>
  /\ UNCHANGED <<scriptVars, isFinalOutput, cur>>

\* One iteration of the inner while loop.
WalkNext ==
  /\ Judging
  /\ nextNode[next] # nullptr
  /\ next' = nextNode[next]
  /\ \/ /\ nextNode[next] = cur
        /\ Return("no")
     \/ /\ nextNode[next] # cur
        /\ UNCHANGED <<caller, answer, outcome>>
  /\ UNCHANGED <<scriptVars, isFinalOutput, cur>>

\* Mutant: the outer loop runs one node too far.
Mut_WalkTooFar ==
  /\ Judging
  /\ nextNode[next] = nullptr
  /\ \/ /\ cur <= size
        /\ cur' = cur + 1 /\ next' = cur + 1
        /\ UNCHANGED <<caller, answer, outcome>>
     \/ /\ cur > size
        /\ Return("yes")
        /\ UNCHANGED walkVars
  /\ UNCHANGED <<scriptVars, isFinalOutput>>

\* The inner loop is over: the outer one takes the next node, or ends.
WalkItem ==
  /\ Judging
  /\ nextNode[next] = nullptr
  /\ \/ /\ cur < size
        /\ cur' = cur + 1 /\ next' = cur + 1
        /\ UNCHANGED <<caller, answer, outcome>>
     \/ /\ cur = size
        /\ Return("yes")
        /\ UNCHANGED walkVars
  /\ UNCHANGED <<scriptVars, isFinalOutput>>

-----------------------------------------------------------------------------
(* The loop *)

EndScript ==
  /\ caller = "script"
  /\ caller' = "idle"
  /\ UNCHANGED <<scriptVars, isFinalOutput, walkVars, answer, outcome>>

\* A leaf without exactly one query has no task (nullptr), one without a
\* device cannot ask it for one; either takes the process down when the node
\* is created.
HasTask(n) == n \in leaf => queries[n] = 1 /\ n \in device

CreateTasks ==
  /\ caller = "create"
  /\ \/ /\ \A n \in Nodes : HasTask(n)
        /\ outcome' = "task"
        /\ caller' = "idle"
     \/ /\ \E n \in Nodes : ~HasTask(n)
        /\ caller' = "crashed"
        /\ UNCHANGED outcome
  /\ UNCHANGED <<scriptVars, isFinalOutput, walkVars, answer>>

Next ==
  \/ CreateVirtualDeviceNode
  \/ CreateOperatorNode
  \/ \E n \in Node : AddQuery(n)
  \/ \E n \in Node, ptr \in Node \cup {nullptr} : PointTo(n, ptr)
  \/ IsSingleOutput
  \/ IsDAG
  \/ WalkNext
  \/ WalkItem
  \/ EndScript
  \/ CreateTasks

\* The walk is one uninterrupted call: its thread runs until it returns.
Fairness == WF_vars(WalkNext) /\ WF_vars(WalkItem) /\ WF_vars(CreateTasks)

Spec == Init /\ [][Next]_vars /\ Fairness

-----------------------------------------------------------------------------
(* Properties *)

\* A set of nodes that a walk never leaves: each has its successor inside.
Closed(C) == C # {} /\ \A c \in C : nextNode[c] \in C
Acyclic == \A C \in SUBSET Nodes : ~Closed(C)
OneSink == \E s \in Nodes : Sinks = {s}

\* What isDAG answers is right: yes exactly for a graph with one sink and no
\* cycle.  (isDAG looks for a walk that returns to its start, not for a
\* walk that does not end; that this makes no difference to the answer
\* depends on isSingleOutput and on the walk starting at every node.)
AnswerCorrect ==
  answer # "none" => (answer = "yes" <=> OneSink /\ Acyclic)

\* A graph that generateGraphTask gives a task for can run to its end: every
\* node has a task, every node feeds the sink, directly or through others,
\* and the sink is flagged as the node that publishes the result.  (A set that
\* holds the sink and all that points into the set holds every node.)
TaskIsRunnable ==
  outcome = "task" =>
    \E s \in Nodes :
      /\ Sinks = {s}
      /\ s \in isFinalOutput
      /\ \A n \in Nodes : HasTask(n)
      /\ \A S \in SUBSET Nodes :
           s \in S /\ (\A n \in Nodes : nextNode[n] \in S => n \in S) => S = Nodes

\* Where the walk from n leads: the nodes in every set that holds n's
\* successor and, with a node, the node's successor.
Ahead(n) ==
  {m \in Nodes : \A S \in SUBSET Nodes :
     /\ nextNode[n] \in S \cup {nullptr}
     /\ \A s \in S : nextNode[s] \in S \cup {nullptr}
     => m \in S}

Looping == {n \in Nodes : \E C \in SUBSET Nodes : Closed(C) /\ n \in C}

\* The first registered node whose walk does not end lies on a cycle itself.
FirstLoopReturns ==
  Looping # {} =>
    \E n \in Looping : n \in Ahead(n) /\ \A m \in Looping : n <= m

\* isDAG returns whenever the first node whose walk does not end is on the
\* cycle that the walk runs into; an acyclic graph is a special case.
WalkReturns == Judging /\ FirstLoopReturns ~> ~Judging

\* The nodes the walk of isDAG from c has still to come to when it is at n:
\* those in every set that holds n and is left only by the end of the walk, a
\* node without successor or one that points to c.
ToCome(c, n) ==
  {m \in Nodes : \A S \in SUBSET Nodes :
     n \in S /\ (\A s \in S : nextNode[s] \in S \cup {nullptr, c}) => m \in S}

\* How many steps the walk takes at most from here.
StepsLeft == (size - cur) * size + Cardinality(ToCome(cur, next))

\* "n^2 is ok, the graph is not such big" (cbComputeGraph.cpp:397): isDAG takes
\* at most n^2 steps for a graph of n nodes, on every graph but those that
\* WalkReturns leaves out: every step counts something down that starts at n^2
\* or below.  And those are left out with reason: on each of them isDAG does
\* not return.
WalkIsQuadratic ==
  [][Judging =>
       IF FirstLoopReturns
       THEN /\ StepsLeft \in 1..size * size
            /\ Judging' => StepsLeft' < StepsLeft
       ELSE Judging']_vars

\* "n^2 is ok, the graph is not such big": isDAG is a judgement that takes
\* at most n^2 steps, so it returns.  The code's walk does not return when a
\* node registered before a cycle leads into it.
IsDAGReturns == Judging ~> ~Judging
=============================================================================
