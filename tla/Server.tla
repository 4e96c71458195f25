-------------------------------- MODULE Server --------------------------------
(***************************************************************************)
(* The server: main.cpp and pipeline.cpp.                                  *)
(*                                                                         *)
(* A loop made of task callbacks starts a round of all graphs, waits until *)
(* all of them are over, waits m_loopTime seconds and starts again.        *)
(* Meanwhile HTTP handlers append graphs to the vector the loop iterates   *)
(* over, and read the output of graphs.  On a signal main stops the        *)
(* servers, tells the loop to end, and leaves a fixed time later.          *)
(*                                                                         *)
(* Nothing is locked.  What is undefined behaviour in C++ is recorded in   *)
(* ub: from then on the process may crash at any time, or go on.           *)
(***************************************************************************)
EXTENDS Integers, SequencesExt

CONSTANTS
  Request,      \* requests of /add_graph, each named like the graph it makes
  Refused,      \* those whose graph generateGraphTask refuses
  m_loopTime,   \* cfg.graphExecSec
  MaxRound      \* bound: the longest time a round of the graphs takes

ASSUME ServerAssumption ==
  /\ Refused \subseteq Request
  /\ m_loopTime \in Nat
  /\ MaxRound \in Nat

Signal == {"SIGINT", "SIGTERM"}

VARIABLES
  main,           \* where the main thread is
  onSignal,       \* the installed handlers
  woken,          \* wait_group is done
  sent,           \* history: the signals the process has received
  m_isTerminated,
  m_graphs,
  capacity,       \* of the vector m_graphs
  loop,           \* where the loop is
  items,          \* the graphs the loop over m_graphs has still to come to
  stale,          \* whether the memory it iterates over was given back
  running,        \* the graphs of this round that are not over
  hasOut,         \* the graphs with an output structure
  handler,        \* where the handler of each request is
  mark,           \* where an unfinished push_back is going to write
  raced,          \* requests whose push_back overlapped another
  timer,          \* seconds until the loop's timer fires
  exit,           \* seconds until main's timer fires
  elapsed,        \* seconds since the round began
  ub              \* the kinds of undefined behaviour that have occurred

mainVars == <<main, onSignal, woken, sent, m_isTerminated>>
loopVars == <<loop, items, running>>
handlerVars == <<m_graphs, capacity, handler, mark, raced>>
timers == <<timer, exit, elapsed>>
vars == <<mainVars, loopVars, handlerVars, timers, stale, hasOut, ub>>

UBKinds == {"push",      \* two push_backs on m_graphs at once
            "iterator",  \* m_graphs was moved while execMain iterates over it
            "reader",    \* m_graphs is moved while getGraph iterates over it
            "null",      \* a node of a workflow graph without a task
            "output"}    \* the output of a graph that has none yet

TypeOK ==
  /\ main \in {"start", "http", "web", "wait", "stop", "terminate", "exit",
               "ended", "crashed"}
  /\ onSignal \in [Signal -> {"sig_handler", "signal_kill"}]
  /\ woken \in BOOLEAN
  /\ sent \in SUBSET Signal
  /\ m_isTerminated \in BOOLEAN
  /\ m_graphs \in Seq(Request)
  /\ capacity \in Nat
  /\ loop \in {"off", "enter", "build", "run", "wait"}
  /\ items \in Seq(Request)
  /\ stale \in BOOLEAN
  /\ running \in SUBSET Request
  /\ hasOut \in SUBSET Request
  /\ handler \in [Request -> {"new", "script", "pushing", "done"}]
  /\ mark \in [Request -> Nat]
  /\ raced \in SUBSET Request
  /\ timer \in Nat /\ exit \in Nat /\ elapsed \in Nat
  /\ ub \in SUBSET UBKinds

Init ==
  /\ main = "start"
  /\ onSignal = [s \in Signal |-> "sig_handler"]
  /\ woken = FALSE
  /\ sent = {}
  /\ m_isTerminated = FALSE
  /\ m_graphs = <<>>
  /\ capacity = 0
  /\ loop = "off"
  /\ items = <<>>
  /\ stale = FALSE
  /\ running = {}
  /\ hasOut = {}
  /\ handler = [r \in Request |-> "new"]
  /\ mark = [r \in Request |-> 0]
  /\ raced = {}
  /\ timer = 0 /\ exit = 0 /\ elapsed = 0
  /\ ub = {}

Alive == main \notin {"ended", "crashed"}
Kind(kind, happens) == IF happens THEN {kind} ELSE {}

-----------------------------------------------------------------------------
(* graphContainer::execMain *)

\* Mutant: the loop ends one graph too early.
Mut_NotTheLast ==
  /\ loop' = "build"
  /\ items' = SubSeq(m_graphs, 1, Len(m_graphs) - 1)
  /\ stale' = FALSE
  /\ elapsed' = 0
\* The range-for reads begin and end of m_graphs once; what is appended later
\* is for the next round.
BeginRound ==
  /\ loop' = "build"
  /\ items' = m_graphs
  /\ stale' = FALSE
  /\ elapsed' = 0

\* Called by the timer's callback, it looks at m_isTerminated again.
ExecMain ==
  /\ loop = "enter"
  /\ \/ /\ m_isTerminated
        /\ loop' = "off"
        /\ UNCHANGED <<items, stale, elapsed>>
     \/ /\ ~m_isTerminated
        /\ BeginRound
  /\ UNCHANGED <<mainVars, handlerVars, running, timer, exit, hasOut, ub>>

\* A graph that is refused yields no task, and a node is made of it all the
\* same.  On an iterator that is stale, *it may be any pointer; that one
\* graph is what a build finds whose memory nobody has used again.
CreateGraphNode ==
  /\ loop = "build" /\ items # <<>>
  /\ items' = Tail(items)
  /\ LET g == Head(items) IN
       /\ running' = running \cup ({g} \ Refused)
       /\ ub' = ub \cup Kind("null", g \in Refused) \cup Kind("iterator", stale)
  /\ UNCHANGED <<mainVars, handlerVars, timers, loop, stale, hasOut>>

Start ==
  /\ loop = "build" /\ items = <<>>
  /\ loop' = "run"
  /\ UNCHANGED <<mainVars, handlerVars, timers, items, running, stale, hasOut, ub>>

\* A node flagged as final sets the output structure (ComputeGraph), or fails.
SetOutStruct(g) ==
  /\ loop = "run" /\ g \in running
  /\ hasOut' = hasOut \cup {g}
  /\ UNCHANGED <<mainVars, handlerVars, loopVars, timers, stale, ub>>

GraphOver(g) ==
  /\ loop = "run" /\ g \in running
  /\ running' = running \ {g}
  /\ UNCHANGED <<mainVars, handlerVars, timers, loop, items, stale, hasOut, ub>>

\* Mutant: the graphs are not linked to the timer.
Mut_TimerAtOnce ==
  /\ loop = "run"
  /\ loop' = "wait"
  /\ timer' = m_loopTime
  /\ UNCHANGED <<mainVars, handlerVars, items, running, exit, elapsed, stale, hasOut, ub>>
\* The timer starts when all graphs are over.
StartTimer ==
  /\ loop = "run" /\ running = {}
  /\ loop' = "wait"
  /\ timer' = m_loopTime
  /\ UNCHANGED <<mainVars, handlerVars, items, running, exit, elapsed, stale, hasOut, ub>>

TimerCallback ==
  /\ loop = "wait" /\ timer = 0
  /\ loop' = IF m_isTerminated THEN "off" ELSE "enter"
  /\ UNCHANGED <<mainVars, handlerVars, timers, items, running, stale, hasOut, ub>>

-----------------------------------------------------------------------------
(* The HTTP handlers *)

Pushing == {r \in Request : handler[r] = "pushing"}
HandlersOver == \A r \in Request : handler[r] \in {"new", "done"}

\* A request arrives, and apiCPP::addGraph runs its script.
AddGraph(r) ==
  /\ main \in {"web", "wait"}
  /\ handler[r] = "new"
  /\ handler' = [handler EXCEPT ![r] = "script"]
  /\ UNCHANGED <<mainVars, loopVars, timers, m_graphs, capacity, mark, raced, stale, hasOut, ub>>

\* m_graphs.push_back(g) reads the end of the vector ...
PushBegin(r) ==
  /\ handler[r] = "script"
  /\ handler' = [handler EXCEPT ![r] = "pushing"]
  /\ mark' = [mark EXCEPT ![r] = Len(m_graphs)]
  /\ raced' = IF Pushing = {} THEN raced ELSE raced \cup Pushing \cup {r}
  /\ ub' = ub \cup Kind("push", Pushing # {})
  /\ UNCHANGED <<mainVars, loopVars, timers, m_graphs, capacity, stale, hasOut>>

Kept(r) == IF mark[r] < Len(m_graphs) THEN mark[r] ELSE Len(m_graphs)

\* Mutant: the new graph takes the place of the last one.
Mut_Replace(r) ==
  /\ m_graphs' = Append(SubSeq(m_graphs, 1, Len(m_graphs) - 1), r)
  /\ capacity' = 1
\* ... and writes there, and moves the end behind what it wrote.  A vector
\* that is full moves to twice the memory.
Grow(r) ==
  /\ m_graphs' = Append(SubSeq(m_graphs, 1, Kept(r)), r)
  /\ capacity' = IF Kept(r) < capacity THEN capacity
                 ELSE IF capacity = 0 THEN 1 ELSE 2 * capacity
PushEnd(r) ==
  /\ handler[r] = "pushing"
  /\ Grow(r)
  /\ handler' = [handler EXCEPT ![r] = "done"]
  /\ mark' = [mark EXCEPT ![r] = 0]
  /\ stale' = (stale \/ (loop = "build" /\ capacity' # capacity))
  /\ UNCHANGED <<mainVars, loopVars, timers, raced, hasOut, ub>>

\* getGraph iterates over m_graphs as well; the first graph that has the id
\* is the one.  Its output structure is used without a look whether it is
\* there.
TableAtGraph(g) ==
  /\ main \in {"web", "wait"}
  /\ g \in ToSet(m_graphs)
  /\ ub' = ub \cup Kind("output", g \notin hasOut)
              \cup Kind("reader", \E r \in Pushing : Kept(r) >= capacity)
  /\ UNCHANGED <<mainVars, loopVars, handlerVars, timers, stale, hasOut>>

-----------------------------------------------------------------------------
(* The main thread and its signals *)

Goto(place) == main' = place

\* m_graphs.execMain(), the first round: there are no graphs yet.
StartLoop ==
  /\ main = "start"
  /\ Goto("http")
  /\ BeginRound
  /\ UNCHANGED <<onSignal, woken, sent, m_isTerminated, handlerVars, running, timer, exit, hasOut, ub>>

StartHttp ==
  /\ main = "http"
  /\ Goto("web")
  /\ UNCHANGED <<onSignal, woken, sent, m_isTerminated, handlerVars, loopVars, timers, stale, hasOut, ub>>

\* Mutant: the web server takes over both signals.
Mut_TakeAll ==
  /\ main = "web"
  /\ Goto("wait")
  /\ onSignal' = [s \in Signal |-> "signal_kill"]
  /\ UNCHANGED <<woken, sent, m_isTerminated, handlerVars, loopVars, timers, stale, hasOut, ub>>
\* m_web.execMain() installs its own handler for SIGTERM, an empty one.
StartWeb ==
  /\ main = "web"
  /\ Goto("wait")
  /\ onSignal' = [onSignal EXCEPT !["SIGTERM"] = "signal_kill"]
  /\ UNCHANGED <<woken, sent, m_isTerminated, handlerVars, loopVars, timers, stale, hasOut, ub>>

Receive(signo) ==
  /\ sent' = sent \cup {signo}
  /\ woken' = (woken \/ onSignal[signo] = "sig_handler")
  /\ UNCHANGED <<main, onSignal, m_isTerminated, handlerVars, loopVars, timers, stale, hasOut, ub>>

\* m_rHttp.stopMain(): no request is accepted any more ...
StopHttp ==
  /\ main = "wait" /\ woken
  /\ Goto("stop")
  /\ UNCHANGED <<onSignal, woken, sent, m_isTerminated, handlerVars, loopVars, timers, stale, hasOut, ub>>

\* ... and those that run are waited for; then the loop is to end.
SetTerminated ==
  /\ main = "stop" /\ HandlersOver
  /\ Goto("terminate")
  /\ m_isTerminated' = TRUE
  /\ UNCHANGED <<onSignal, woken, sent, handlerVars, loopVars, timers, stale, hasOut, ub>>

\* Mutant: main waits as long as its message says.
Mut_ExitSooner ==
  /\ main = "terminate"
  /\ Goto("exit")
  /\ exit' = m_loopTime
  /\ UNCHANGED <<onSignal, woken, sent, m_isTerminated, handlerVars, loopVars, timer, elapsed, stale, hasOut, ub>>
StartExitTimer ==
  /\ main = "terminate"
  /\ Goto("exit")
  /\ exit' = 2 * m_loopTime
  /\ UNCHANGED <<onSignal, woken, sent, m_isTerminated, handlerVars, loopVars, timer, elapsed, stale, hasOut, ub>>

\* wait_group_end is done, main returns and App is destroyed.
Return ==
  /\ main = "exit" /\ exit = 0
  /\ Goto("ended")
  /\ UNCHANGED <<onSignal, woken, sent, m_isTerminated, handlerVars, loopVars, timers, stale, hasOut, ub>>

\* After undefined behaviour the process may die.
Crash ==
  /\ ub # {}
  /\ Goto("crashed")
  /\ UNCHANGED <<onSignal, woken, sent, m_isTerminated, handlerVars, loopVars, timers, stale, hasOut, ub>>

-----------------------------------------------------------------------------
(* Time *)

\* What happens within a second: callbacks, the start of a round.
Due ==
  \/ loop \in {"enter", "build"}
  \/ loop = "run" /\ (running = {} \/ elapsed >= MaxRound)
  \/ loop = "wait" /\ timer = 0
  \/ main = "exit" /\ exit = 0

Less(n) == IF n > 0 THEN n - 1 ELSE 0

\* A second passes.
Tick ==
  /\ ~Due
  /\ loop # "off" \/ main = "exit"
  /\ timer' = Less(timer)
  /\ exit' = Less(exit)
  /\ elapsed' = IF loop = "off" THEN elapsed ELSE elapsed + 1
  /\ UNCHANGED <<mainVars, loopVars, handlerVars, stale, hasOut, ub>>

-----------------------------------------------------------------------------
Loop ==
  \/ ExecMain \/ CreateGraphNode \/ Start \/ StartTimer \/ TimerCallback
  \/ \E g \in Request : GraphOver(g)

Main ==
  \/ StartLoop \/ StartHttp \/ StartWeb
  \/ StopHttp \/ SetTerminated \/ StartExitTimer \/ Return

Handler(r) == AddGraph(r) \/ PushBegin(r) \/ PushEnd(r)

Next ==
  /\ Alive
  /\ \/ Loop \/ Main \/ Tick \/ Crash
     \/ \E r \in Request : Handler(r) \/ TableAtGraph(r) \/ SetOutStruct(r)
     \/ \E signo \in Signal : Receive(signo)

\* The library runs every callback, a handler that has begun runs to its end,
\* main goes on when it can, and time passes.  No request and no signal has
\* to come, and no graph has to yield an output.
Fairness ==
  /\ WF_vars(Alive /\ Loop)
  /\ WF_vars(Alive /\ Main)
  /\ WF_vars(Alive /\ Tick)
  /\ \A r \in Request : WF_vars(Alive /\ (PushBegin(r) \/ PushEnd(r)))

Spec == Init /\ [][Next]_vars /\ Fairness
=============================================================================
