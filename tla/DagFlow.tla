------------------------------- MODULE DagFlow -------------------------------
(***************************************************************************)
(* What a round of a compute graph promises: "All task should be added to  *)
(* graph node in order to execute all task that follows DAG flow"          *)
(* (cbVirtualDevice.hpp).  In a round every node finishes once, after all  *)
(* nodes that point to it, and the round ends when all have finished.      *)
(* The process may die at any time.                                        *)
(***************************************************************************)
CONSTANTS
  Node,
  NextNode    \* the successor of each node; the sink's is not a node

Pred(n) == {m \in Node : NextNode[m] = n}

VARIABLES
  phase,      \* "idle" between rounds, "running", "crashed"
  done        \* the nodes with nothing left to do in the round that runs
              \* or ran last

vars == <<phase, done>>

\* Before the first round nothing is left to do.
Init == phase = "idle" /\ done = Node

StartRound ==
  /\ phase = "idle"
  /\ phase' = "running"
  /\ done' = {}

Finish(n) ==
  /\ phase = "running"
  /\ n \notin done
  /\ Pred(n) \subseteq done
  /\ done' = done \cup {n}
  /\ UNCHANGED phase

EndRound ==
  /\ phase = "running"
  /\ done = Node
  /\ phase' = "idle"
  /\ UNCHANGED done

Crash ==
  /\ phase' = "crashed"
  /\ UNCHANGED done

Next == StartRound \/ (\E n \in Node : Finish(n)) \/ EndRound \/ Crash

Spec == Init /\ [][Next]_vars
=============================================================================
