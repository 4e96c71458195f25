---------------------------- MODULE ComputeGraph ----------------------------
(***************************************************************************)
(* The rounds of one compute graph: cbComputeGraph.cpp as it runs.         *)
(*                                                                         *)
(* In every round each node of the graph runs as one task.  A leaf's task  *)
(* queries a database; an operator's task runs a Lua function.  When a     *)
(* task ends, its callback hands the node's table to the node's successor  *)
(* by push_back on the successor's input vector and, on a node flagged as  *)
(* final, makes it the graph's output.  The round ends with the callback   *)
(* of the graph task, which caches the output and deletes all cells.       *)
(*                                                                         *)
(* Nodes that do not depend on one another run on different threads, and   *)
(* nothing is locked.  So an access that may overlap another one takes two *)
(* steps, and what is undefined behaviour in C++ is recorded in ub: from   *)
(* then on the process may crash at any time, or go on.                    *)
(***************************************************************************)
EXTENDS Integers, Sequences, FiniteSets

CONSTANTS
  Leaf, Operator,   \* the nodes: cbVirtualDeviceNode, cbOperatorNode
  nullptr,          \* the successor of the sink; also the producer of no table
  m_dataFromDevice, \* the name of the graph's own vector of shared tables
  NextNode,         \* the successor of each node
  Arity,            \* how many inputs the Lua function of an operator insists on
  Stale,            \* nodes a script's call of isSingleOutput left flagged
  Cached,           \* whether the graph has a Redis cache node
  Failing           \* bound: nodes whose task, query or function may fail

Node == Leaf \cup Operator

ASSUME NodesAssumption ==
  /\ Leaf \cap Operator = {}
  /\ nullptr \notin Node
  /\ m_dataFromDevice \notin Node
  /\ NextNode \in [Node -> Node \cup {nullptr}]
  /\ Arity \in [Operator -> Nat]
  /\ Stale \subseteq Node
  /\ Cached \in BOOLEAN
  /\ Failing \subseteq Node

\* m_nodes is a vector.
ASSUME FiniteAssumption == IsFiniteSet(Node)

\* The graph was accepted by generateGraphTask: one sink, and no set of nodes
\* that is closed under NextNode.  (GraphBuildProof shows it of every graph
\* that GraphBuild gives a task for: TasksFitRounds.)
ASSUME AcceptedAssumption ==
  /\ \E s \in Node : {n \in Node : NextNode[n] = nullptr} = {s}
  /\ \A C \in SUBSET Node : C # {} => \E c \in C : NextNode[c] \notin C

VARIABLES
  phase,      \* "idle" between rounds, "running" or "crashed"
  pc,         \* where the task of each node, or its callback, is
  vec,        \* the vectors: io.I of each node, and m_dataFromDevice
  mark,       \* where an unfinished push_back is going to write
  out,        \* io.O of each leaf; Op->io.O and, when handed on, io.O of
              \* each operator
  outStruct,  \* *m_outStruct: names and shape of the last output
  graphO,     \* graph->io.O: the cells of the last output
  failed,     \* nodes whose task, query or function failed in this round
  raced,      \* for each vector, the nodes whose push_back overlapped another
  ub          \* the kinds of undefined behaviour that have occurred

vars == <<phase, pc, vec, mark, out, outStruct, graphO, failed, raced, ub>>

-----------------------------------------------------------------------------
(* Tables *)

\* A table is named by the node that made it and by what its pointers point
\* to: cells and fields of this round ("live"), of an earlier round, deleted
\* ("freed"), or nothing at all ("none": default-constructed or half-built,
\* with an uninitialised shape or null cells).
Table == [src : Node \cup {nullptr}, mem : {"live", "freed", "none"}]
NoTable == [src |-> nullptr, mem |-> "none"]

\* What the table is when the graph's memory has been cleared.
Freed(t) == [t EXCEPT !.mem = IF @ = "live" THEN "freed" ELSE @]

Vector == Node \cup {m_dataFromDevice}

-----------------------------------------------------------------------------
(* The graph *)

Sink == CHOOSE s \in Node : NextNode[s] = nullptr
Pred(n) == {m \in Node : NextNode[m] = n}
HasNext(n) == NextNode[n] # nullptr

\* Mutant: isSingleOutput counts the sinks but does not flag them.
Mut_NotFlagged == Stale
\* The nodes that publish: isSingleOutput flags the sink before every round.
Final == Stale \cup {Sink}

Stages == {"wait", "share", "sharing", "pass", "passing", "exec", "struct",
           "result", "done"}

\* The order of the stages.  A leaf shares its table, passes it on and then
\* publishes it; an operator publishes first.
AfterPass(n) == IF n \in Leaf \cap Final THEN "struct" ELSE "done"
AfterShare(n) == IF HasNext(n) THEN "pass" ELSE AfterPass(n)
\* Mutant: an operator does not ask whether it has a successor.
Mut_AlwaysPass(n) == IF n \in Operator THEN "pass" ELSE "done"
AfterPublish(n) == IF n \in Operator /\ HasNext(n) THEN "pass" ELSE "done"
AfterExec(n) == IF n \in Final THEN "struct" ELSE AfterPublish(n)

UBKinds == {"push",      \* two push_backs on one vector at once
            "lua",       \* two threads in one Lua state
            "struct",    \* two threads writing the output
            "empty",     \* the first row of a result without rows
            "uninit",    \* a look into a table that was never filled
            "dangling"}  \* a look into a table whose cells are deleted

TypeOK ==
  /\ phase \in {"idle", "running", "crashed"}
  /\ pc \in [Node -> Stages]
  /\ vec \in [Vector -> Seq(Table)]
  /\ mark \in [Node -> Nat]
  /\ out \in [Node -> Table]
  /\ outStruct \in Table
  /\ graphO \in Table
  /\ failed \in SUBSET Node
  /\ raced \in [Vector -> SUBSET Node]
  /\ ub \in SUBSET UBKinds

Init ==
  /\ phase = "idle"
  /\ pc = [n \in Node |-> "done"]
  /\ vec = [t \in Vector |-> <<>>]
  /\ mark = [n \in Node |-> 0]
  /\ out = [n \in Node |-> [src |-> n, mem |-> "none"]]
  /\ outStruct = NoTable    \* m_outStruct = nullptr
  /\ graphO = NoTable
  /\ failed = {}
  /\ raced = [t \in Vector |-> {}]
  /\ ub = {}

-----------------------------------------------------------------------------
(* Helpers of the steps of a round *)

\* Mutant: one finished predecessor is enough.
Mut_ReadyEarly(n) ==
  /\ phase = "running"
  /\ pc[n] = "wait"
  /\ Pred(n) = {} \/ \E p \in Pred(n) : pc[p] = "done"
\* Mutant: only the last node has edges from others.
Mut_OnlySinkWaits(n) ==
  /\ phase = "running"
  /\ pc[n] = "wait"
  /\ n = Sink => \A p \in Node \ {n} : pc[p] = "done"
\* Mutant: a leaf lets its successor go when it has passed its table on.
Mut_ReadyWhenPassed(n) ==
  /\ phase = "running"
  /\ pc[n] = "wait"
  /\ \A p \in Pred(n) :
       \/ pc[p] = "done"
       \/ p \in Leaf /\ pc[p] \in {"struct", "result"}
\* Mutant: a node whose predecessor failed is not started.
Mut_ReadyAfterSuccess(n) ==
  /\ phase = "running"
  /\ pc[n] = "wait"
  /\ \A p \in Pred(n) : pc[p] = "done" /\ p \notin failed
\* The workflow library starts a node's task when the tasks of all nodes with
\* an edge to it are over, callbacks included.
Ready(n) ==
  /\ phase = "running"
  /\ pc[n] = "wait"
  /\ \A p \in Pred(n) : pc[p] = "done"

Goto(n, stage) == pc' = [pc EXCEPT ![n] = stage]
At(n, stage) == phase = "running" /\ pc[n] = stage

\* The kind of undefined behaviour that there is when something happens.
Kind(kind, happens) == IF happens THEN {kind} ELSE {}
\* What is undefined about looking into the tables of a set.
Reads(tables) ==
  Kind("uninit", \E t \in tables : t.mem = "none")
    \cup Kind("dangling", \E t \in tables : t.mem = "freed")

\* The nodes in the middle of a push_back on vector t.
Pushing(t) ==
  IF t = m_dataFromDevice
    THEN {m \in Node : pc[m] = "sharing"}
    ELSE {m \in Pred(t) : pc[m] = "passing"}

\* push_back reads the end of the vector ...
PushBegin(n, t) ==
  /\ mark' = [mark EXCEPT ![n] = Len(vec[t])]
  /\ \/ /\ Pushing(t) = {}
        /\ UNCHANGED <<raced, ub>>
     \/ /\ Pushing(t) # {}
        /\ raced' = [raced EXCEPT ![t] = @ \cup Pushing(t) \cup {n}]
        /\ ub' = ub \cup {"push"}

Kept(n, t) == IF mark[n] < Len(vec[t]) THEN mark[n] ELSE Len(vec[t])

\* Mutant: the vector is assigned instead of extended.
Mut_PushAssigns(n, t) ==
  /\ vec' = [vec EXCEPT ![t] = <<out[n]>>]
  /\ mark' = [mark EXCEPT ![n] = 0]
\* ... and writes there, and moves the end behind what it wrote.  What others
\* appended in between is overwritten or cut off.
PushEnd(n, t) ==
  /\ vec' = [vec EXCEPT ![t] = Append(SubSeq(@, 1, Kept(n, t)), out[n])]
  /\ mark' = [mark EXCEPT ![n] = 0]

-----------------------------------------------------------------------------
(* The loop starts a round *)

GenerateGraphTask ==
  /\ phase = "idle"
  /\ phase' = "running"
  /\ pc' = [n \in Node |-> "wait"]
  /\ failed' = {}
  /\ raced' = [t \in Vector |-> {}]
  /\ UNCHANGED <<vec, mark, out, outStruct, graphO, ub>>

-----------------------------------------------------------------------------
(* Leaf tasks *)

\* The query's task did not succeed: the callback returns at once.
LeafFail(n) ==
  /\ Ready(n) /\ n \in Leaf \cap Failing
  /\ Goto(n, "done")
  /\ failed' = failed \cup {n}
  /\ UNCHANGED <<phase, vec, mark, out, outStruct, graphO, raced, ub>>

\* A result set with rows becomes a shared table, and io.O a table of
\* pointers into it.  (The code shares the table before it maps it to io.O;
\* nobody reads io.O in between.)
LeafReply(n) ==
  /\ Ready(n) /\ n \in Leaf
  /\ Goto(n, "share")
  /\ out' = [out EXCEPT ![n] = [src |-> n, mem |-> "live"]]
  /\ UNCHANGED <<phase, vec, mark, outStruct, graphO, failed, raced, ub>>

\* An error packet is reported and then treated like a result: the shared
\* table keeps its uninitialised shape.  A result set without rows reads the
\* first row of an empty vector.
LeafNoRows(n) ==
  /\ Ready(n) /\ n \in Leaf \cap Failing
  /\ Goto(n, "share")
  /\ out' = [out EXCEPT ![n] = [src |-> n, mem |-> "none"]]
  /\ failed' = failed \cup {n}
  /\ ub' = ub \cup {"empty"}
  /\ UNCHANGED <<phase, vec, mark, outStruct, graphO, raced>>

\* graph->m_sharedMem->push
ShareBegin(n) ==
  /\ At(n, "share")
  /\ PushBegin(n, m_dataFromDevice)
  /\ Goto(n, "sharing")
  /\ UNCHANGED <<phase, vec, out, outStruct, graphO, failed>>

ShareEnd(n) ==
  /\ At(n, "sharing")
  /\ PushEnd(n, m_dataFromDevice)
  /\ Goto(n, AfterShare(n))
  /\ UNCHANGED <<phase, out, outStruct, graphO, failed, raced, ub>>

-----------------------------------------------------------------------------
(* Operator tasks *)

\* The go task did not succeed: the callback prints and returns.
OpFail(n) ==
  /\ Ready(n) /\ n \in Operator \cap Failing
  /\ Goto(n, "done")
  /\ failed' = failed \cup {n}
  /\ UNCHANGED <<phase, vec, mark, out, outStruct, graphO, raced, ub>>

\* The task copies io.I to Op->io.I and calls the Lua function, in the one
\* Lua state of the graph.  (Op->io.I is set here before every use and only
\* read by the function, so it is not kept apart from io.I.)
OpStart(n) ==
  /\ Ready(n) /\ n \in Operator
  /\ Goto(n, "exec")
  /\ ub' = ub \cup Kind("lua", \E m \in Operator \ {n} : pc[m] = "exec")
  /\ UNCHANGED <<phase, vec, mark, out, outStruct, graphO, failed, raced>>

Inputs(n) == {vec[n][i] : i \in 1..Len(vec[n])}

\* The function makes a new table out of the inputs.
OpRun(n) ==
  /\ At(n, "exec") /\ n \in Operator
  /\ Len(vec[n]) = Arity[n]
  /\ Goto(n, AfterExec(n))
  /\ out' = [out EXCEPT ![n] = [src |-> n, mem |-> "live"]]
  /\ ub' = ub \cup Reads(Inputs(n))
  /\ UNCHANGED <<phase, vec, mark, outStruct, graphO, failed, raced>>

\* The function returns early, because the number of inputs is not what it
\* expects.  Op->io.O is the table of an earlier round, or none.
OpRefuse(n) ==
  /\ At(n, "exec") /\ n \in Operator
  /\ Len(vec[n]) # Arity[n]
  /\ Goto(n, AfterExec(n))
  /\ UNCHANGED <<phase, vec, mark, out, outStruct, graphO, failed, raced, ub>>

\* Mutant: a function that raises an error is called again.
Mut_RaiseRetries(n) ==
  /\ At(n, "exec") /\ n \in Operator \cap Failing
  /\ Len(vec[n]) = Arity[n]
  /\ Goto(n, "wait")
  /\ failed' = failed \cup {n}
  /\ UNCHANGED <<phase, vec, mark, out, outStruct, graphO, raced, ub>>
\* The function raises an error, which the protected call swallows, before or
\* after it gave the table a new shape.
OpRaise(n) ==
  /\ At(n, "exec") /\ n \in Operator \cap Failing
  /\ Len(vec[n]) = Arity[n]
  /\ Goto(n, AfterExec(n))
  /\ out' \in {out, [out EXCEPT ![n] = [src |-> n, mem |-> "none"]]}
  /\ failed' = failed \cup {n}
  /\ ub' = ub \cup Reads(Inputs(n))
  /\ UNCHANGED <<phase, vec, mark, outStruct, graphO, raced>>

-----------------------------------------------------------------------------
(* Callbacks of the tasks *)

\* nextNode->io.I.push_back(io.O)
PassBegin(n) ==
  /\ At(n, "pass")
  /\ PushBegin(n, NextNode[n])
  /\ Goto(n, "passing")
  /\ UNCHANGED <<phase, vec, out, outStruct, graphO, failed>>

PassEnd(n) ==
  /\ At(n, "passing")
  /\ PushEnd(n, NextNode[n])
  /\ Goto(n, IF n \in Leaf THEN AfterPass(n) ELSE "done")
  /\ UNCHANGED <<phase, out, outStruct, graphO, failed, raced, ub>>

Publishing(n) == pc[n] \in {"struct", "result"}

\* m_sharedMem->setOutStruct: copies the names and the shape of the output.
SetOutStruct(n) ==
  /\ At(n, "struct")
  /\ Goto(n, "result")
  /\ outStruct' = out[n]
  /\ ub' = ub \cup Reads({out[n]})
              \cup Kind("struct", \E m \in Node \ {n} : Publishing(m))
  /\ UNCHANGED <<phase, vec, mark, out, graphO, failed, raced>>

\* Mutant: the assignment of graph->io.O is missing.
Mut_StructOnly(n) ==
  /\ At(n, "result")
  /\ Goto(n, AfterPublish(n))
  /\ UNCHANGED <<phase, vec, mark, out, outStruct, graphO, failed, raced, ub>>
\* graph->io.O = io.O
SetResult(n) ==
  /\ At(n, "result")
  /\ Goto(n, AfterPublish(n))
  /\ graphO' = out[n]
  /\ ub' = ub \cup Kind("struct", \E m \in Node \ {n} : Publishing(m))
  /\ UNCHANGED <<phase, vec, mark, out, outStruct, failed, raced>>

-----------------------------------------------------------------------------
(* The callback of the graph task *)

AllDone == \A n \in Node : pc[n] = "done"

\* With a cache node and an output structure, every cell of the output is
\* turned into a string and sent to Redis.
Caching(t) == IF Cached /\ outStruct # NoTable THEN Reads({t}) ELSE {}

\* m_sharedMem->clear() deletes the shared tables, cells and fields of the
\* round; io.I of every node is cleared; io.O and the output are left alone.
\* (A shared table that a collision cut off the vector is leaked instead;
\* the model counts it as deleted.)
ClearMemory ==
  /\ vec' = [t \in Vector |-> <<>>]
  /\ out' = [n \in Node |-> Freed(out[n])]
  /\ outStruct' = Freed(outStruct)
  /\ graphO' = Freed(graphO)

\* Mutant: the inputs of the nodes are not cleared.
Mut_KeepInputs ==
  /\ phase = "running" /\ AllDone
  /\ phase' = "idle"
  /\ ub' = ub \cup Caching(graphO)
  /\ vec' = [vec EXCEPT ![m_dataFromDevice] = <<>>]
  /\ out' = [n \in Node |-> Freed(out[n])]
  /\ outStruct' = Freed(outStruct)
  /\ graphO' = Freed(graphO)
  /\ UNCHANGED <<pc, mark, failed, raced>>

\* Mutant: the memory is cleared before the output is cached.
Mut_ClearFirst ==
  /\ phase = "running" /\ AllDone
  /\ phase' = "idle"
  /\ ClearMemory
  /\ ub' = ub \cup Caching(graphO')
  /\ UNCHANGED <<pc, mark, failed, raced>>

\* Mutant: a round with a failed task is not ended.
Mut_WaitForSuccess ==
  /\ phase = "running" /\ AllDone
  /\ failed = {}
  /\ phase' = "idle"
  /\ ub' = ub \cup Caching(graphO)
  /\ ClearMemory
  /\ UNCHANGED <<pc, mark, failed, raced>>

GraphCallback ==
  /\ phase = "running" /\ AllDone
  /\ phase' = "idle"
  /\ ub' = ub \cup Caching(graphO)
  /\ ClearMemory
  /\ UNCHANGED <<pc, mark, failed, raced>>

\* After undefined behaviour the process may die.
Crash ==
  /\ phase # "crashed"
  /\ ub # {}
  /\ phase' = "crashed"
  /\ UNCHANGED <<pc, vec, mark, out, outStruct, graphO, failed, raced, ub>>

-----------------------------------------------------------------------------
NodeStep(n) ==
  \/ LeafFail(n) \/ LeafReply(n) \/ LeafNoRows(n)
  \/ ShareBegin(n) \/ ShareEnd(n)
  \/ OpFail(n) \/ OpStart(n) \/ OpRun(n) \/ OpRefuse(n) \/ OpRaise(n)
  \/ PassBegin(n) \/ PassEnd(n)
  \/ SetOutStruct(n) \/ SetResult(n)

Next ==
  \/ GenerateGraphTask
  \/ \E n \in Node : NodeStep(n)
  \/ GraphCallback
  \/ Crash

\* The library runs every task that is ready, a query ends with an answer or
\* with a timeout, and callbacks do not block.
Fairness == WF_vars(GraphCallback) /\ \A n \in Node : WF_vars(NodeStep(n))

Spec == Init /\ [][Next]_vars /\ Fairness
=============================================================================
