-------------------------- MODULE ComputeGraphProps --------------------------
(***************************************************************************)
(* What should be true of ComputeGraph.                                    *)
(***************************************************************************)
EXTENDS ComputeGraph

\* Which nodes can be at which stage.
StageInv ==
  \A n \in Node :
    /\ pc[n] \in {"share", "sharing"} => n \in Leaf
    /\ pc[n] = "exec" => n \in Operator
    /\ pc[n] \in {"pass", "passing"} => HasNext(n)
    /\ pc[n] \in {"struct", "result"} => n \in Final

\* Every variable has its type, and no callback is where its kind of node
\* never comes: a leaf's table is not published by a node that is not flagged,
\* and nothing is pushed on the inputs of a successor that does not exist.
TypeInv == TypeOK /\ StageInv

\* The nodes that have finished handing on their table in this round.
Shared(n) == n \in Leaf /\ pc[n] \notin {"wait", "share", "sharing"}
Passed(n) ==
  \/ n \in Leaf     /\ pc[n] \in {"struct", "result", "done"}
  \/ n \in Operator /\ pc[n] = "done"

Sources(t) == {vec[t][i].src : i \in 1..Len(vec[t])}

\* An operator works on tables of this round: in io.I of a node there is, for
\* a predecessor that has passed its table on, at most one table, the one
\* that is in io.O of that predecessor now.  Nothing is left over from an
\* earlier round, whose tables point to deleted cells.
InputsAreThisRounds ==
  \A n \in Node :
    /\ \A i \in 1..Len(vec[n]) :
         \E p \in Pred(n) : Passed(p) /\ vec[n][i] = out[p] /\ vec[n][i].src = p
    /\ \A i, j \in 1..Len(vec[n]) : vec[n][i].src = vec[n][j].src => i = j

\* A table can only get lost on its way in two ways: the task failed, or the
\* push_back overlapped another one.  This goes for the input vectors and for
\* m_dataFromDevice, where a lost table is a leak.
LostOnlyByCollision ==
  phase = "running" =>
    /\ \A n \in Node, p \in Node :
         NextNode[p] = n /\ Passed(p) =>
           p \in Sources(n) \cup failed \cup raced[n]
    /\ \A p \in Leaf :
         Shared(p) => p \in Sources(m_dataFromDevice) \cup failed
                              \cup raced[m_dataFromDevice]

\* The sink runs after every other node, so that what the graph publishes at
\* the end of a round is the sink's table even when other nodes are flagged
\* as final too.
SinkIsLast ==
  phase = "running" /\ pc[Sink] # "wait" =>
    \A n \in Node \ {Sink} : pc[n] = "done"

\* The structure of the output (names, shape) and its cells are of the same
\* table whenever nobody is between the two assignments: the caching loop and
\* the readers index the cells by the structure's shape.
StructMatchesResult ==
  (\A n \in Node : pc[n] # "result") /\ "struct" \notin ub => outStruct = graphO

\* Every operator is linked to as many nodes as its function expects.
WellLinked == \A n \in Operator : Arity[n] = Cardinality(Pred(n))

\* Nothing went wrong in this round so far.
Clean == failed = {} /\ \A t \in Vector : raced[t] = {}

\* A round of a well-linked graph in which no task failed and no push_backs
\* collided ends with a new output: the sink's table, of this round's cells,
\* whatever happened in the rounds before.
CleanRoundIsFresh ==
  phase = "running" /\ AllDone /\ WellLinked /\ Clean =>
    /\ graphO = [src |-> Sink, mem |-> "live"]
    /\ outStruct = graphO

\* Undefined behaviour has a cause in its own round: a task that failed, two
\* push_backs at once, two Lua functions at once, or two nodes publishing at
\* once.  So what a round leaves behind (tables whose cells are deleted, the
\* output of the round before) does no harm in the next one by itself.
UBHasCause ==
  [][ub' # ub /\ WellLinked =>
       \/ failed' # {}
       \/ \E t \in Vector : raced'[t] # {}
       \/ \E m, n \in Node : m # n /\ pc'[m] = "exec" /\ pc'[n] = "exec"
       \/ \E m, n \in Node : m # n /\ Publishing(m) /\ Publishing(n)]_vars

\* <<m, n>>: the path from m comes to n.
Path == {p \in Node \X Node :
           \A S \in SUBSET Node :
             p[1] \in S /\ (\A s \in S : NextNode[s] \in S \cup {nullptr}) => p[2] \in S}
Unrelated(m, n) == <<m, n>> \notin Path /\ <<n, m>> \notin Path

\* The order of the graph is all the synchronisation there is, and it is
\* enough where it applies: only nodes without a path between them collide on
\* a vector, in the Lua state or in the output.  A chain has no race.
RacesNeedParallelNodes ==
  /\ \A t \in Vector : raced[t] # {} => \E m, n \in raced[t] : Unrelated(m, n)
  /\ \A m, n \in Node :
       /\ m # n
       /\ \/ pc[m] = "exec" /\ pc[n] = "exec"
          \/ Publishing(m) /\ Publishing(n)
       => Unrelated(m, n)

\* How far a stage is on the way of a node's task and callback.  Leaves and
\* operators come to the publishing stages at different points of it.
Rank(n, stage) ==
  CASE stage = "wait"              -> 0
    [] stage \in {"share", "exec"} -> 1
    [] stage = "sharing"           -> 2
    [] stage = "struct"            -> IF n \in Leaf THEN 7 ELSE 3
    [] stage = "result"            -> IF n \in Leaf THEN 8 ELSE 4
    [] stage = "pass"              -> 5
    [] stage = "passing"           -> 6
    [] stage = "done"              -> 9

StagesAhead ==
  {p \in Node \X Stages : Rank(p[1], pc[p[1]]) < Rank(p[1], p[2])}

\* Until the last node is done there is always one that can go on: a task that
\* is under way, or one that the library can start.
RoundCanGoOn ==
  phase = "running" =>
    AllDone \/ \E n \in Node : Ready(n) \/ pc[n] \notin {"wait", "done"}

\* A round goes on, whatever fails.  Nothing is done twice and nothing goes
\* back: a step inside of a round is one of the stages that were still ahead,
\* at most eight for each node, and so are the steps of a round.  And no step
\* leaves a round that is stuck: a node that failed, refused its inputs or lost
\* its table keeps no other node waiting.
RoundAdvances ==
  [][/\ phase = "running" /\ phase' = "running" =>
          /\ StagesAhead' \subseteq StagesAhead
          /\ Cardinality(StagesAhead) \in 1..8 * Cardinality(Node)
          /\ Cardinality(StagesAhead') < Cardinality(StagesAhead)
     /\ RoundCanGoOn']_vars

\* Every round ends, or the process dies, whatever fails.
RoundEnds == phase = "running" ~> phase # "running"

\* A round is a run of the nodes in the order of the graph.
Flow == INSTANCE DagFlow WITH done <- {n \in Node : pc[n] = "done"}
FollowsDag == Flow!Spec

-----------------------------------------------------------------------------
(* What comments of the code say, and the code does not do *)

\* cbTable.hpp: "cbVirtualTable works as a reference from shared memory."
\* A look into a table whose shared memory is gone is never what goes wrong
\* first.
ReferencesAreValid == ub # {"dangling"}
=============================================================================
