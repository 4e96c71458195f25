----------------------------- MODULE ServerProps -----------------------------
(***************************************************************************)
(* What should be true of Server.                                          *)
(***************************************************************************)
EXTENDS Server

\* What the loop has at hand at each of its places.
LoopInv ==
  /\ loop # "build" => items = <<>>
  /\ loop \in {"off", "enter", "wait"} => running = {}
  /\ running \cap Refused = {}
  /\ main = "start" => loop = "off"
  /\ loop = "off" /\ main # "start" => m_isTerminated

\* Every variable has its type, the loop waits for its timer only when no graph
\* is left running, and it ends only when it has been told to.
TypeInv == TypeOK /\ LoopInv

\* A graph is generated once per round, and only when its task of the round
\* before is over: two tasks of one graph would push on the same vectors, and
\* the first callback would delete the cells of the other (ComputeGraph has
\* one task at a time).
RoundsDoNotOverlap ==
  [][\A g \in Request : CreateGraphNode /\ Head(items) = g => g \notin running]_vars

\* A graph whose request was answered with True is in m_graphs, once, unless
\* its push_back overlapped that of another handler, and nobody else's is.
AcknowledgedIsKept ==
  /\ \A r \in Request : handler[r] = "done" => r \in ToSet(m_graphs) \cup raced
  /\ \A g \in ToSet(m_graphs) : handler[g] = "done"
  /\ IsInjective(m_graphs)

\* "All tasks were done." is what main prints before it returns.  At that
\* moment the loop has ended, so that no callback uses App after main has
\* destroyed it.
ExitIsClean == main = "ended" => loop = "off" /\ running = {}

\* An added graph is run by a later round, unless the server is told to end or
\* something undefined happened before.
GraphIsRun ==
  \A g \in Request \ Refused :
    handler[g] = "done" ~> g \in running \/ m_isTerminated \/ ub # {} \/ ~Alive

\* SIGINT ends the process, whenever it comes and whatever the handlers and
\* the rounds do.
InterruptEnds == "SIGINT" \in sent ~> ~Alive

-----------------------------------------------------------------------------
(* What the code and its documentation say, and is not so *)

\* cbComputeGraph.cpp:583: a task that is nullptr is reported and not used.
RefusedIsHarmless == "null" \notin ub
=============================================================================
