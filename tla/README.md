# CovalentBond: specifications, model checking and proofs

CovalentBond (`src/`) is a server that runs *compute graphs*. A client posts a Lua script to
`/add_graph`; the script creates nodes (database queries and operators) and links them into a
graph. A loop runs all graphs every few seconds: leaf nodes query MySQL devices, operator
nodes combine and filter the tables in Lua, and the last node's table becomes the output of the
graph, is cached in Redis and can be read over HTTP. Tasks run on the threads of the
`workflow` library, and the code has no locks.

This directory holds TLA+ models of that code, the TLC runs that check them on small instances,
and TLAPS proofs of what matters most, for every value of the constants. Paths below are
relative to `src/src/core/` unless they begin with another directory; `PROJECT.json` maps every
definition to the lines it stands for.

## 1. Inventory

| Component | State | Operations | Interacts with |
|---|---|---|---|
| **Graph building and acceptance** `server/task/cbComputeGraph.*`, `server/api.cpp` | `m_nodes`, each node's `nextNode`, `isFinalOutput`, queries and device | create functions, `addQuery`, `PointTo`, `isSingleOutput`, `isDAG`, first half of `generateGraphTask` | called by the script and, before every round, by the loop |
| **Graph execution** `cbComputeGraph.*` | per node `io.I`, `io.O`, `Op->io`; `graph->io.O` | tasks of leaves and operators, their callbacks, the callback of the graph task | starts database and Lua tasks; hands tables from node to node; publishes to the shared memory |
| **Shared memory of a graph** `cbGraphSharedMem` | `m_dataFromDevice`, `m_dataPool`, `m_fields`, `m_outStruct` | `push`, `createCell`, `setOutStruct`, `clear` | owns all cells; tables are pointers into it |
| **Operators** `cbOperator.*`, `scripts/libCB.lua` | `Op->io`, keys, Lua functions | `execMain`, `CombineOp`, `FilterOp` | one Lua state per graph |
| **Tables** `cbTable.*` | shape, rows of cell pointers, column names | `resetShape`, row and column operations, `keyBy` | used by leaves, operators, output |
| **Server loop and containers** `server/pipeline.*` | `m_graphs`, `m_isTerminated` | `addGraph`, `getGraph`, `execMain`, `setTerminated`, HTTP handlers | loop callbacks and handlers share `m_graphs` |
| **Start and exit** `server/main.cpp` | two wait groups, signal handlers | `main`, `sig_handler`, exit timer | starts and stops loop and servers |
| **Virtual devices** `server/trivial/cbVirtualDevice.*` | three pools and three static counters | `add*`, `remove*`, `get*`, query tasks | `/add_device`, scripts of `/add_graph`, leaves, caching |
| **Redis cache of outputs** `cbComputeGraph.cpp`, `cbTable.cpp` | what Redis holds; SET tasks under way | one SET per cell at the end of a round, with retries | reads output and structure, outlives the round |
| **LRU cache** `server/mem/cbLRUCache.hpp` | list of keys, map, counter | `push`, `get` (with `update`, `insertTop`, `eraseTail`) | its test; not yet used by the server |
| **Web server, REST wrapper** `utils/` | a server each | start, stop, one file per request | installs a signal handler |
| Argument parser, HTML view, live thread, status, configuration, reflection, stubs, third party | | | see the notes in `PROJECT.json` |

**What is hard here.** Two leaf queries of one graph are answered on two threads, and both
callbacks append to the input vector of the same successor. Operators run in parallel in one Lua
state. Each round deletes all cells while tables of that round stay behind in nodes and output,
to be met again when a task of the next round fails. HTTP handlers append to the vector the
loop iterates over, read the structure of an output while a round updates it, and read and count up
the index of a new device in three accesses. SETs of one round are still being retried while the
next one sends its own. `CombineOp` walks a hash map as if it were an array. Shutdown is a race of
two timers. None of these is in the repository's tests.
`PROJECT.json` lists each hazard at its line with the properties aimed at it.

**What makes each part correct.**

* Building: `isDAG` answers yes exactly for acyclic graphs with one sink, and where it returns it does so
  within n^2 steps; what is accepted can run.
* Execution: a node starts after its predecessors, its inputs are its predecessors' tables of
  this round, the sink publishes last, a round is never stuck and every round ends, a round without failures and collisions
  publishes a fresh table whatever earlier rounds left behind.
* LRU: list, map and counter agree; the evicted key is the least recently used one.
* Server: added graphs are kept and run; a graph has one task at a time; nothing of the loop runs
  when `main` returns; a signal ends the process.
* Devices: the index in an answer names the device of that request, for ever, also for a script that
  asked for it too early; indices have no holes.
* `CombineOp`: a row holds cells of one key only; what can be joined is joined completely; an error
  leaves the output as it was.
* Output and Redis: an answer of `/table_at_graph` is of one table, the last one; a key in Redis holds
  the text of a cell published under it; an acknowledged SET lasts until a newer one; no cell is forgotten; retries end.

## 2. Modules

| Module | Models | Used by |
|---|---|---|
| `GraphBuild` | building and acceptance; the walk of `isDAG` step by step | runs `graph_build*`, `GraphBuildProof` |
| `DagFlow` | abstract: in a round each node finishes once, after its predecessors | `ComputeGraphProps` |
| `ComputeGraph` | the rounds of one accepted graph | `ComputeGraphProps` |
| `ComputeGraphProps` | its properties, among them that it implements `DagFlow` | `MCComputeGraph`, `ComputeGraphProof` |
| `MCComputeGraph` | two concrete graphs for TLC | runs `graph_rounds`, `graph_dangling` |
| `Combine`, `MCCombine` | `CombineOp`, loop by loop; the tables TLC gives it | runs `combine*`, `CombineProof` |
| `Output`, `MCOutput` | publishing, `/table_at_graph`, the SETs of rounds and their connections | runs `output*`, `OutputProof` |
| `Devices` | `/add_device` and scripts on the pool and the counter of MySQL devices | run `devices`, `DevicesProof` |
| `LRU` | abstract: a map and the order of last uses | `LRUCache` |
| `LRUCache` | the cache as written, and its properties | run `lru_cache`, `LRUCacheProof` |
| `Server` | loop, containers, handlers, start and exit | `ServerProps` |
| `ServerProps` | its properties | runs `server*`, `ServerProof` |
| `RoundsProof`, `*Proof` | the theorems (section 5); `RoundsProof` goes on from `ComputeGraphProof` | |

How they fit: `ComputeGraph` assumes of its graph one sink and no cycle (`AcceptedAssumption`). That
this is what `GraphBuild` lets through is a theorem, `GraphBuildProof!TasksFitRounds`: a graph that
got its tasks satisfies the assumptions of `ComputeGraph`, and its links no longer change.
`ServerProps!RoundsDoNotOverlap` (proved) is why
`ComputeGraph` has one round at a time. `Server` in turn takes of a graph only that it is
running, over, or has published.

Three modules look closer at what another one takes as one thing. `ComputeGraph` knows of an operator
that it makes a table, refuses its inputs or raises an error: `Combine` is that operator.
`ComputeGraph` knows of a publication that it is two assignments: `Output` takes the first of them
apart, for the sake of a reader on another thread, and follows what `GraphCallback` starts.
`GraphBuild` lets a leaf be without a device: `Devices` says when a script gets one
(`LookEnd` with `nullptr`). `Output` relies on `RoundsDoNotOverlap`, too.

### GraphBuild

A node is its position in `m_nodes`; `nextNode` 0 is `nullptr`. `CreateVirtualDeviceNode`,
`CreateOperatorNode`, `AddQuery`, `PointTo` are the calls a script can make, `IsSingleOutput` and
`IsDAG` its questions; after `EndScript` the loop calls `IsDAG` as `generateGraphTask` does.
`WalkNext` is an iteration of the inner `while` of `isDAG`, `WalkItem` the step to the next node
of the outer `for`. Flags set by `isSingleOutput` are never taken back: `isFinalOutput` only
grows. `CreateTasks` makes the tasks, or crashes on a leaf without a device or without exactly one
query.

### ComputeGraph

`pc[n]` says where the task of node n or its callback is: `wait`, then for a leaf `share` (push on
`m_dataFromDevice`), `pass` (push on the successor's `io.I`), `struct` and `result` (publish, on
flagged nodes); for an operator `exec`, `struct`, `result`, `pass`. An access that can overlap
another is two steps: `push_back` reads the end (`PushBegin`) and then writes and moves it
(`PushEnd`), so that overlapping ones lose elements. A table is a producer and whether its cells
are of this round, of a deleted round, or were never filled. `ub` collects the kinds of undefined
behaviour that have occurred; after any of them the process may crash or go on. `Failing` names the
nodes that may fail: a query may fail, return an error or no rows; a Lua task may fail or its
function raise an error. An operator checks the number of its inputs (`OpRefuse`).
`GraphCallback` caches the output, clears the memory and the inputs.
The Lua functions are reduced to what the rounds depend on: they make a table or they do not.

### Combine

One run of `Cb.Op.CombineOp` (`scripts/libCB.lua`): `pc` is the phase, `i` and `j` the counters of its
loops. `Start` takes the keys of the first table; `Grow` looks at one number of `keyBy`'s map of a
later table and appends a row for a key nobody had; `Fill` writes the columns of one table behind
the key of one row; `Output` and `Names` copy the result. `keyBy`, `getCol` and `resetShapeH` are
those of `cbTable.cpp`: `keyBy` maps the hash of a key to its last row, up to the first NULL, and
Lua asks that map for 1, 2, 3, ..; the number of a row no map has is nil, and `End("error")` where
nil is used. An `Int` hashes to itself; every other content (strings, other numbers) is a number no
table has as many rows as. Columns of the result count from 0 as in the code, and a write behind
the end of a row or of the names is `End("ub")`. Cells are `<<table, row, column>>`: tables hold
pointers.

### Output

The nodes of a round are left out: a round publishes one of many tables or fails. `Construct` is
`setOutStruct` the first time (the pointer is set last), `UpdateClear`, `UpdateShape`,
`UpdateNames` its statements every time after. `Read*` are the accesses of the handler of
`/table_at_graph`. `GraphCallback` makes a SET of every cell of the published shape, then
deletes the cells. A SET is in `task`, its attempts are in `wire`: `Answered`, `AnswerLost`,
`RequestLost`, `TryAgain`, `GiveUp` are what a connection with retries can do; an attempt that was given
up may still arrive. Cells are plain values, 0.0, or Null, and after a failed round deleted ones:
the code's conversions make a text, no text, "nan", or anything of them. Redis itself is external: it
carries out a SET with a value and refuses one without.

### Devices

`add[r]` says where the handler of request r is. `ReadIndex`, `NewDevice` and `TakeIndex` are the three
reads of `m_numsMySql` in `pipeline.cpp` and `addMySqlDevice`, `StoreCount` the write of its `++`.
`InsertBegin`/`InsertEnd` and `LookBegin`/`LookEnd` are `operator[]` of the map, which both users go
through and which inserts what it does not find. Two of them at once (`mapRaced`) may cut entries off the
tree. `crowded` remembers the requests that overlapped.

### LRUCache

One action per path through `push` (`PushOld`, `PushNew`, `PushFull`) and `get` (`GetHit`,
`GetMiss`), each with all it calls. `held`, `valid` and `since` follow the pointer the last
`get` returned; `ub` is the erasure of the tail of an empty list (`m_maxSize <= 0`).

### Server

Three parties: the loop (`loop` in `enter`, `build`, `run`, `wait`, `off`), the handlers
(`handler[r]`), and the main thread (`main`). `ExecMain` to `TimerCallback` are
`graphContainer::execMain` and its timer's callback; `items` is what the range-for has still to
come to, `stale` says that the vector moved meanwhile. `m_isTerminated` is looked at twice, in the
callback and in `execMain`. Handlers append with the same two steps as above; `Grow` moves a full
vector. `Receive` delivers a signal at any time. Time passes with `Tick`, one second each, never
past something that is due: callbacks and the start of a round take less than a second,
a round takes at most `MaxRound`. The graph of a request in `Refused` is one that
`generateGraphTask` answers with `nullptr`; graphs on which it hangs or crashes are the business
of `GraphBuild`. A graph is identified with its request, so two graphs with one id, of which
`getGraph` finds the first, are not told apart. The first round is started by `main` itself, when
`m_graphs` is empty.

## 3. Runs

Passing runs.

| Run | Instance | Shows |
|---|---|---|
| `graph_build` | 3 nodes, of which one may be a leaf | every way to link three nodes, asking `isDAG` and `isSingleOutput` in between, with queries and devices missing: `AnswerCorrect`, `TaskIsRunnable`, `WalkIsQuadratic`, liveness `WalkReturns`. Three nodes hold a cycle, a node that leads into it registered before or after it, and a separate sink |
| `graph_rounds` | two leaves, a filter behind each, combine; a leaf and a filter were flagged as final early; a leaf, the other filter and the combine node may fail | `TypeInv`, `InputsAreThisRounds`, `LostOnlyByCollision`, `CleanRoundIsFresh`, `RacesNeedParallelNodes`, `StructMatchesResult`, `SinkIsLast`, `UBHasCause`, `RoundAdvances`, refinement `FollowsDag`, liveness `RoundEnds`. Parallel leaves, parallel operators, operators in a row, inner nodes that publish: the least graph with all of these. Any number of rounds: the state space is finite without a bound |
| `combine` | nearly ten thousand inputs of up to three tables, `MCCombine` | `RowsAreOfOneKey`, `ErrorKeepsOutput`, `OverflowHasCause`, `JoinWhenJoinable`. Keys that count rows and keys that do not, in every order and repeated, NULL, keys of other types, first tables longer and shorter than the second, the key in any column, twice or not at all, a column named like another table's key, cells missing from an earlier join; three tables for what accumulates from table to table |
| `output` | 2 rounds, 2 SETs, one retry, one reader, outputs of one row with headers `<<a>>`, `<<b>>` and `<<a, a>>` | `AnswerIsLatest`, `CachedIsPublished`, `AcknowledgedIsStored`, `MissingHasCause`, liveness `SetsEnd`. Two rounds are an old and a new output; two SETs are one of each, or two at once of columns with the same name; one retry instead of three is one late attempt. More readers do not meet each other. The theorems are for any number of all of these |
| `devices` | 3 requests, a script that may ask for index 0 or 1 | `AnswerNamesDevice`, `IndicesAreDense`, `ScriptGetsDevice`. Three requests: two collide, and a third comes before or after them |
| `lru_cache` | 4 keys, 2 values, size 3 | `Consistent`, `PointerLasts`, and `IsLRU`: it implements `LRU`. Four keys are needed to fill a cache of three and evict; three are the fewest with a middle element to move to the top |
| `server` | 2 requests, one of them refused, 2 s between rounds, rounds up to 1 s | `AcknowledgedIsKept`, `ExitIsClean`, `RoundsDoNotOverlap`, `GraphIsRun`, `InterruptEnds`. Two handlers are the fewest that collide; that a third can be cut off by one that began long before is left to the theorem, which is for any number |

Violations: what a comment, a document or a check elsewhere in the code says and the code does
not do. Each is a finding in `PROJECT.json`, with the line quoted.

| Run | What happens |
|---|---|
| `graph_build_hang` | `isDAG` does not return when a node registered early leads into a cycle it is not on |
| `graph_dangling` | a failed query, an operator that returns early and hands on its table of the round before, a look into deleted cells |
| `server_refused` | one refused graph makes the loop create a node of a null task |
| `combine_lost` | a key only the second table has is not added, because the cell is taken from another row than the one that was compared |
| `output_zero` | a Double that is 0.0 gives a SET without a value: the cell is not cached, and nobody hears of it |

**Further observations** that the models show without a run of their own:

* Two leaves answered at once: the combine node may start with one table (`PushBegin`, `PushEnd`;
  `LostOnlyByCollision` says that this is the only way).
* The inputs of a combine node are in the order of the answers (`cbComputeGraph.cpp:109`), and `CombineOp` pairs
  them with keys by position: a table without its key is then the case of `ErrorKeepsOutput`.
* SIGTERM is ignored from the start of the web server on, whose handler is an empty one
  (`utils/cbWebserver.cpp:89`); `InterruptEnds` is for SIGINT.
* One `/add_graph` while the loop starts a round leaves it with a dangling iterator (`server/pipeline.cpp:44`;
  `stale` in `Server`).
* A SET of an old round that is retried may overwrite the value of a newer round: `AcknowledgedIsStored` leaves
  out the SETs that began while another one of their key was alive.
* Keys of rows that are no longer in the output stay in Redis (`CachedIsPublished` says *an* output).
* Rounds start `execSec` plus their own duration apart, while `src/README.md:22` calls `execSec` the
  "interval between graphs starts" (`StartTimer` waits for all graphs).
* With rounds longer than `execSec`, `ExitIsClean` is false: `main` prints "All tasks were done."
  (`server/main.cpp:80`) while graphs run; the theorem's hypothesis excludes that.
* `/table_at_graph` of a graph that has not published yet dereferences a null pointer (`ReadNull`).

All runs but those with refinement or liveness need no fairness. `CHECK_DEADLOCK FALSE` stands
where the system stops: a process that has ended or crashed, a cache after undefined behaviour,
a script that hangs in `isDAG` or a graph that crashed while its tasks were made, a join that is over,
requests and rounds that are used up (`devices`, `output`).

## 4. Fairness

* `GraphBuild`: `WF` of the walk and of `CreateTasks`: a call runs until it returns. Nothing is
  assumed of the script.
* `ComputeGraph`: `WF` of every node's steps and of `GraphCallback`: the library runs tasks that are
  ready; a query ends with an answer or a timeout; callbacks do not block. A Lua function that
  does not return is excluded by this.
* `Server`: `WF` of the loop, of main, of `Tick`, and of the push of a handler whose script has been
  accepted. No request, signal or output has to come. Weak fairness of the loop as a whole is
  enough, since its steps come one after the other and a graph that is over stays over.

* `Output`: `WF` of "some SET in flight is tried again or given up": connections and answers have a time
  limit. An answer need not come, nothing need be lost, no round need go on. `SetsEnd` holds because
  retries are counted and no round starts SETs without bound.
* `Combine` and `Devices` state safety only and assume none.

## 5. Proofs

All theorems hold for any constants that satisfy the named assumptions.

* **`GraphBuildProof`** (any N, any number of leaves). `TypeCorrect`; `AnswerIsCorrect`: `isDAG` answers yes exactly
  for graphs with one sink and no cycle. The code looks for walks that *return to their start*,
  which is weaker than walks that do not end; the invariant `IInv` says that the nodes the outer loop
  has passed lie in no closed set, and that the sink is unique during a walk. `AcceptedRuns`: what
  gets tasks has one flagged sink that every node feeds. The step from "no cycle" to "feeds the sink"
  takes the complement of a set closed under predecessors, which would be closed under successors.
  `WalksAreQuadratic`: where the first looping node returns to itself, the walk of `isDAG` takes at most
  n^2 steps. The measure is the outer nodes still to come times n plus the nodes the inner loop can
  still come to (`ToCome`); a step takes its node out of `ToCome` unless the walk will come by again, and
  then there is a closed set without the start, which `FirstLoopReturns` rules out. On every other
  graph no step leaves the walk: the condition is exact. `TasksFitRounds` joins this
  module to `ComputeGraph` (section 2).
* **`ComputeGraphProof`** (any accepted graph, any failures). `TypeCorrect` (types, and which kind of
  node can be at which stage); `ImplementsDagFlow` and `SinkRunsLast`, from the invariant that a
  node past `wait` has all predecessors done; `OnlyThisRoundsInputs`: whatever fails or collides, the
  inputs of a node are tables of this round, of predecessors that have passed them on, each at most
  once. The invariant behind it adds that nodes that have not passed anything are not in the vector
  and that the place a `push_back` is going to write is no proof of what is there.
* **`RoundsProof`** (the same graphs). `OnlyParallelNodesRace`: a collision on a vector is one of nodes
  without a path between them. `LossHasCause`: a table that is missing from an input is of a task that
  failed or of a `push_back` that collided; the invariant `KeptInv` says that a node alone on a vector
  writes at its end, and that what stands behind the mark of another has collided with it.
  `StructAgrees`: structure and cells of the output are of one table, unless two nodes published at
  once. `CleanRoundsPublish`: for graphs whose nodes get as many inputs as they expect (`WellLinked`), a
  round without failure and collision ends with the sink's new table, whatever earlier rounds left in
  nodes and output; that no input is missing is a count, `Len(vec[n]) = Cardinality(Pred(n))`, by a
  bijection (`AllInputs`). `UBHasItsCause`: in such graphs undefined behaviour needs, in the same
  round, a failed task, a collision, or two Lua functions or two publishing nodes at once.
  `RoundsAdvance`: each step inside a round lowers the number of stages still ahead, which is at
  most eight for each node, and no step leaves a round that is stuck, whatever failed. If every node that
  has not run waited for another one, `NextNode` would map their set, which is finite, onto itself, and
  there would be a cycle (`FirstNode`; `FiniteAssumption` holds because `m_nodes` is a vector). This
  is the part of `RoundEnds` that needs no fairness.
* **`LRUCacheProof`** (any keys, any `m_maxSize`, also negative). `TypeCorrect`; `CacheIsConsistent`;
  `PointerLastsLong`: a pointer `get` returned stays valid until `m_maxSize` other keys were used. Its
  invariant says that all keys in front of the held one were used since; so when the held key is
  evicted, it is the last of a full list. `ImplementsLRU`, for `m_maxSize > 0`: the cache is an `LRU`; what stands
  behind what in the list is the abstract order of last uses, which `Cons` extends (`ConsBehind`) and
  taking an element out restricts (`WithoutBehind`). For other sizes it is not one: the tail of an
  empty list is erased.
* **`DevicesProof`** (any number of requests and scripts). `TypeCorrect`; `DevicesAreNamed` and
  `ScriptsGetDevices`: whoever met no other request between its first and last access has its own
  device under the index it was told, for ever, whatever later requests do to the counter. Its
  invariant `AloneInv` says where the three reads agree, and that every later index is above those
  of answered requests that were alone, so the counter never comes back to them; `PoolIsDense`.
* **`CombineProof`** (any tables and keys). `TypeCorrect`; `RowsHaveOneKey`; `ErrorsKeepOutput`;
  `OverflowsHaveCauses`, from the invariant that `colPtrHead` is at most one more than the columns of
  the tables before that are counted, while no row was missing from the first table.
  `JoinableAreJoined`: tables whose keys count their rows are joined completely. `JoinInv` says for
  every place of the loops how far each row is filled (`RowUpTo`). It rests on three lemmas about the
  inputs: `KeyByFacts` (`keyBy` finds every key up to the height of such a table, each at its only
  row), `HeightsFall` (a later table is no higher) and `FirstColumnFacts` (the columns of the tables
  stand one behind another in the result, counted by cardinalities).
* **`OutputProof`** (any outputs, rounds, retries, readers). `TypeCorrect`; `AnswersAreLatest`;
  `PublishedIsCached`, since every SET comes `From` a round that published its key; `AcknowledgedStays`,
  from `AckInv`: while a SET is the newest of its key and was alone when it began, none of that key
  comes to life. `MissingCellsHaveCause`: when Redis holds nothing under the key of a published cell,
  its SET is under way, was given up, or had no text; by `CellsInv`, the callback's place in the table
  and the SETs made so far agree, so no cell is passed over.
* **`ServerProof`** (any requests, any `m_loopTime`). `TypeCorrect`; `GraphsAreKept`, from
  `PushInv`: the graphs behind the mark of an unfinished `push_back` came there while it was under
  way, so whoever is cut off has raced; `NoOverlap`, from `ItemsInv` (the graphs still to come are
  distinct and not running), which rests on `GraphsAreKept`; `MainExitsCleanly`, for
  `MaxRound < m_loopTime`: by `TimeInv`, while `main` waits, every place of the loop leaves it time to
  end: `MaxRound - elapsed + m_loopTime < exit` in a round, `timer < exit` behind it. TLC finds
  `ExitIsClean` violated with `MaxRound = 3`, `m_loopTime = 2`: the hypothesis is needed.

**Only model-checked.** Liveness (`WalkReturns`, `RoundEnds`, `GraphIsRun`, `InterruptEnds`, `SetsEnd`) is out of
the prover's reach. For two of these the part that is safety is proved: `WalkReturns` says with fairness
what `WalkIsQuadratic` counts, `RoundEnds` what `RoundAdvances` says of every single step.
Every other property that a passing run checks is stated by a theorem.
The types of `LRUCache` are proved and have no run of their own, since `Consistent` and `IsLRU` say more.

## 6. What is not modelled

* `FilterOp` calls functions of the script on every row; what they do is not modelled, nor SQL, nor the
  formatting of URLs, HTML and JSON. Conversions of cells are modelled where `Output` depends on them.
* `m_dataPool` and `m_fields`: filled by operators, cleared with the round; a race of two operators in
  them is counted as the race in the Lua state that comes with it.
* A sink that fails and hands on a table of an earlier round is in `ComputeGraph`; in `Output` a round either
  publishes new cells or none. Cells that an outer join leaves null are in `Combine`; that caching
  looks at their type and crashes is a certain step, no model of `Output` needs it.
* Who owns arrays of column names and Lua functions, and in which order C++ destroys them: the
  models have values, not objects.
* The `remove*` operations of the devices have no caller; `/add_device` for Redis is a TODO in the code, and
  there is one Redis device, made when the server starts; a graph whose cache node names another one
  calls through a null pointer.
* Memory order: a race on a flag (`m_isTerminated`) reads the old or the new value.
* Requests of the web server for files: each is a sequence of system calls on a buffer of its own, and two
  requests share nothing.
* The scripts of the doxygen pages (`src/docs/doxygen/html`) are generated documentation, not the program.
* The parts without state or concurrency of their own listed as `not_modelled` in `PROJECT.json`.

## 7. What could follow

1. A request of the web server (open, read, reply, close) with an error at each step: sequential, and so of
   less interest than the parts above.
2. The safety part of `GraphIsRun`: a history of the graphs that were there when a round began, and that
   each of them was started in it.
3. `Output` with rounds that publish a table of an earlier round, once caching looks at what is deleted.
4. A graph whose cache node has no device, and `/add_device` for Redis, once the code has it.
