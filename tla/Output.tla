-------------------------------- MODULE Output --------------------------------
(***************************************************************************)
(* What becomes of a graph's output: cbOutputTableStruct, the handler of   *)
(* /table_at_graph and the caching in Redis.                               *)
(*                                                                         *)
(* A round that succeeds publishes a table: setOutStruct copies its shape  *)
(* and its names, in steps once there is a copy to update.  A handler on   *)
(* another thread reads the copy without a lock.  The callback of the      *)
(* round then starts one SET task per cell and forgets it: no round waits  *)
(* for the SETs of the round before.  A SET whose connection breaks or     *)
(* that is not answered in time is sent again, over another connection,    *)
(* and what was sent over the old one may still arrive.                    *)
(*                                                                         *)
(* The graph has a cache node.  How the nodes of a round make the table    *)
(* is the subject of ComputeGraph.                                         *)
(***************************************************************************)
EXTENDS Integers, Sequences, FiniteSets

CONSTANTS
  Name,        \* the column names of outputs, with the table they belong to
  Header,      \* the sequences of column names that outputs have
  MaxCols,     \* bound: columns of an output
  MaxRows,     \* bound: rows of an output
  MaxRounds,   \* bound: rounds of the graph
  MaxSets,     \* bound: SETs of all rounds
  RetryMax,    \* how often a SET is tried again (3 in the code)
  Reader,      \* requests of /table_at_graph
  nullptr,     \* m_outStruct before the first output
  nan,         \* the text of a Null cell: asDouble() is not a number
  garbage,     \* the text of a deleted cell
  nothing      \* no value: in a request, or in Redis

ASSUME OutputAssumption ==
  /\ MaxCols \in Nat /\ MaxRows \in Nat /\ MaxRounds \in Nat
  /\ MaxSets \in Nat /\ RetryMax \in Nat
  /\ Header \subseteq Seq(Name)
  /\ \A h \in Header : Len(h) <= MaxCols

Round == 1..MaxRounds

\* A SET is named like the cell it is for: round, row and column.
Set == Round \X (1..MaxRows) \X (1..MaxCols)
Cells(row, col) == (1..row) \X (1..col)

\* A cell is a Double that is 0.0 ("zero"), Null ("null") or any other value.
Kind == {"plain", "zero", "null"}

\* A key in Redis is "table:row:column".
Key == (1..MaxRows) \X Name

\* The text of a plain cell stands for itself by the name of its SET.
Text == Set \cup {nan, garbage}

Struct == [row : 0..MaxRows, col : 0..MaxCols, info : Seq(Name)]
NoStruct == [row |-> 0, col |-> 0, info |-> <<>>]

ASSUME TextAssumption ==
  /\ {nan, garbage, nothing} \cap Set = {}
  /\ nan # garbage /\ nan # nothing /\ garbage # nothing
  /\ nullptr \notin Struct /\ nothing \notin Key

VARIABLES
  round,       \* rounds begun
  stage,       \* where the round is
  cell,        \* the cells of the last output, io.O of the graph, until its
               \* round ends and they are deleted
  cellRound,   \* the round that made them
  m_outStruct, \* the published copy of shape and names
  task,        \* what each SET task has come to
  tries,       \* how often it was tried again
  key, text,   \* what it asks for
  wire,        \* attempts of SETs on their way: <<SET, number>>
  store,       \* the contents of Redis
  reading,     \* where each reader is
  answer,      \* what it has read
  pub,         \* history: the structure each round published
  seen,        \* history: the last publication when the reader began
  overlapped,  \* history: readers during whose reads an update took a step
  mixed        \* history: SETs that began while another of their key was alive

roundVars == <<round, stage, cell, cellRound, m_outStruct, pub>>
setVars == <<task, tries, key, text, wire, store, mixed>>
readVars == <<reading, answer, seen>>
vars == <<roundVars, setVars, readVars, overlapped>>

TypeOK ==
  /\ round \in 0..MaxRounds
  /\ stage \in {"idle", "cleared", "shaped", "ended"}
  /\ cellRound \in 0..round
  /\ m_outStruct \in Struct \cup {nullptr}
  /\ task \in [Set -> {"new", "flight", "ok", "refused", "failed"}]
  /\ tries \in [Set -> 0..RetryMax]
  /\ key \in [Set -> Key \cup {nothing}]
  /\ text \in [Set -> Text \cup {nothing}]
  /\ wire \in SUBSET (Set \X (0..RetryMax))
  /\ store \in [Key -> Text \cup {nothing}]
  /\ reading \in [Reader -> {"new", "null", "row", "col", "done"}]
  /\ answer \in [Reader -> Struct]
  /\ pub \in [Round -> Struct]
  /\ seen \in [Reader -> 0..round]
  /\ overlapped \in SUBSET Reader
  /\ mixed \in SUBSET Set

Init ==
  /\ round = 0
  /\ stage = "idle"
  /\ cell = <<>>
  /\ cellRound = 0
  /\ m_outStruct = nullptr
  /\ task = [s \in Set |-> "new"]
  /\ tries = [s \in Set |-> 0]
  /\ key = [s \in Set |-> nothing]
  /\ text = [s \in Set |-> nothing]
  /\ wire = {}
  /\ store = [k \in Key |-> nothing]
  /\ reading = [r \in Reader |-> "new"]
  /\ answer = [r \in Reader |-> NoStruct]
  /\ pub = [k \in Round |-> NoStruct]
  /\ seen = [r \in Reader |-> 0]
  /\ overlapped = {}
  /\ mixed = {}

-----------------------------------------------------------------------------
(* The round publishes its output *)

\* The bound: there are SETs left for so many cells.
Room(cells) == Cardinality({s \in Set : task[s] # "new"}) + cells <= MaxSets

BusyReaders == {r \in Reader : reading[r] \in {"row", "col"}}

\* The round of the table with these names, rows and cells gets to its end.
Finish(h, rows, c) ==
  /\ cell' = c
  /\ cellRound' = round'
  /\ stage' = "ended"
  /\ pub' = [pub EXCEPT ![round'] = [row |-> rows, col |-> Len(h), info |-> h]]

\* The first output: the structure is complete before the pointer is set.
Construct(h, rows, c) ==
  /\ stage = "idle" /\ round < MaxRounds /\ Room(rows * Len(h))
  /\ m_outStruct = nullptr
  /\ round' = round + 1
  /\ Finish(h, rows, c)
  /\ m_outStruct' = [row |-> rows, col |-> Len(h), info |-> h]
  /\ UNCHANGED <<setVars, readVars, overlapped>>

\* Every later output is an update: it clears names and shape ...
UpdateClear ==
  /\ stage = "idle" /\ round < MaxRounds
  /\ m_outStruct # nullptr
  /\ round' = round + 1
  /\ stage' = "cleared"
  /\ m_outStruct' = NoStruct
  /\ overlapped' = overlapped \cup BusyReaders
  /\ UNCHANGED <<cell, cellRound, pub, setVars, readVars>>

\* ... takes the shape of the output ...
UpdateShape(rows, col) ==
  /\ stage = "cleared" /\ Room(rows * col)
  /\ stage' = "shaped"
  /\ m_outStruct' = [m_outStruct EXCEPT !.row = rows, !.col = col]
  /\ overlapped' = overlapped \cup BusyReaders
  /\ UNCHANGED <<round, cell, cellRound, pub, setVars, readVars>>

\* ... and appends its names, one for each column.
UpdateNames(h, c) ==
  /\ stage = "shaped"
  /\ UNCHANGED round
  /\ Finish(h, m_outStruct.row, c)
  /\ m_outStruct' = [m_outStruct EXCEPT !.info = @ \o h]
  /\ overlapped' = overlapped \cup BusyReaders
  /\ UNCHANGED <<setVars, readVars>>

\* A round whose last task fails publishes nothing.
RoundFails ==
  /\ stage = "idle" /\ round < MaxRounds
  /\ m_outStruct # nullptr => Room(m_outStruct.row * m_outStruct.col)
  /\ round' = round + 1
  /\ stage' = "ended"
  /\ UNCHANGED <<cell, cellRound, m_outStruct, pub, setVars, readVars, overlapped>>

-----------------------------------------------------------------------------
(* The callback of the round caches the output *)

\* A SET is alive while its task is not over or an attempt is on its way.
Alive(s) == task[s] = "flight" \/ \E a \in 0..RetryMax : <<s, a>> \in wire

\* genKey4Redis
GenKey(row, col) == <<row, m_outStruct.info[col]>>

\* What a cell of this round becomes.  A Double is only converted if its value
\* counts as true: 0.0 gives no text at all, Null gives "nan".
ToText(s) ==
  CASE cell[<<s[2], s[3]>>] = "plain" -> s
    [] cell[<<s[2], s[3]>>] = "null" -> nan
    [] cell[<<s[2], s[3]>>] = "zero" -> nothing

\* The cells of an earlier round are deleted: they may look like anything.
Texts(S) ==
  IF cellRound = round
    THEN {[s \in S |-> ToText(s)]}
    ELSE [S -> {garbage, nothing}]

\* Mutant: the last column is left out.
Mut_LastColumnLeftOut ==
  {s \in Set : s[1] = round /\ <<s[2], s[3]>> \in Cells(m_outStruct.row, m_outStruct.col - 1)}
\* The SETs of the round, one for each cell of the published shape.
SetsOfRound ==
  {s \in Set : s[1] = round /\ <<s[2], s[3]>> \in Cells(m_outStruct.row, m_outStruct.col)}

\* The tasks are started one after the other, none is waited for.  (That they
\* are started in one step loses nothing: starting one commutes with what
\* Redis does with another.)
StartSets(S, t) ==
  LET keyOf == [s \in Set |-> IF s \in S THEN GenKey(s[2], s[3]) ELSE key[s]]
  IN /\ key' = keyOf
     /\ text' = [s \in Set |-> IF s \in S THEN t[s] ELSE text[s]]
     /\ task' = [s \in Set |-> IF s \in S THEN "flight" ELSE task[s]]
     /\ wire' = wire \cup (S \X {0})
     /\ mixed' = mixed \cup {s \in S : \E o \in Set \ {s} :
                                keyOf[o] = keyOf[s] /\ (Alive(o) \/ o \in S)}

\* With a structure, its SETs are started.  Then all cells are deleted.
GraphCallback ==
  /\ stage = "ended"
  /\ stage' = "idle"
  /\ \/ /\ m_outStruct = nullptr
        /\ UNCHANGED setVars
     \/ /\ m_outStruct # nullptr
        /\ \E t \in Texts(SetsOfRound) : StartSets(SetsOfRound, t)
        /\ UNCHANGED <<tries, store>>
  /\ cell' = <<>>
  /\ UNCHANGED <<round, cellRound, m_outStruct, pub, readVars, overlapped>>

-----------------------------------------------------------------------------
(* SET tasks, their connections and Redis *)

\* Mutant: the key is taken from the structure when the SET is sent.
Mut_KeyWhenSent(s, a) ==
  /\ <<s, a>> \in wire
  /\ wire' = wire \ {<<s, a>>}
  /\ LET k == IF s[3] <= Len(m_outStruct.info) THEN GenKey(s[2], s[3]) ELSE key[s]
     IN store' = IF text[s] = nothing THEN store ELSE [store EXCEPT ![k] = text[s]]

\* Redis carries out what arrives; a SET without a value is an error.
Execute(s, a) ==
  /\ <<s, a>> \in wire
  /\ wire' = wire \ {<<s, a>>}
  /\ store' = IF text[s] = nothing THEN store ELSE [store EXCEPT ![key[s]] = text[s]]

\* An error of Redis is an answer too.
Outcome(s) == IF text[s] = nothing THEN "refused" ELSE "ok"

\* The answer to the attempt the task is waiting for ends the task.
Answered(s) ==
  /\ task[s] = "flight"
  /\ Execute(s, tries[s])
  /\ task' = [task EXCEPT ![s] = Outcome(s)]
  /\ UNCHANGED <<tries, key, text, mixed, roundVars, readVars, overlapped>>

\* The answer is lost, or too late: nobody waits for this attempt any more.
AnswerLost(s, a) ==
  /\ Execute(s, a)
  /\ UNCHANGED <<task, tries, key, text, mixed, roundVars, readVars, overlapped>>

RequestLost(s, a) ==
  /\ <<s, a>> \in wire
  /\ wire' = wire \ {<<s, a>>}
  /\ UNCHANGED <<task, tries, key, text, store, mixed, roundVars, readVars, overlapped>>

\* Mutant: the retries are not counted.
Mut_RetryForever(s) ==
  /\ task[s] = "flight" /\ tries[s] < RetryMax
  /\ wire' = wire \cup {<<s, tries[s]>>}
  /\ UNCHANGED <<task, tries, key, text, store, mixed, roundVars, readVars, overlapped>>

\* Mutant: there is always one more retry.
Mut_NoLimit(s) ==
  /\ task[s] = "flight"
  /\ tries' = [tries EXCEPT ![s] = @ + 1]
  /\ wire' = wire \cup {<<s, tries[s] + 1>>}
  /\ UNCHANGED <<task, key, text, store, mixed, roundVars, readVars, overlapped>>

\* The connection breaks or the answer takes too long: the task tries again.
TryAgain(s) ==
  /\ task[s] = "flight" /\ tries[s] < RetryMax
  /\ tries' = [tries EXCEPT ![s] = @ + 1]
  /\ wire' = wire \cup {<<s, tries[s] + 1>>}
  /\ UNCHANGED <<task, key, text, store, mixed, roundVars, readVars, overlapped>>

\* Mutant: the state of the task is not looked at.
Mut_TakenForOk(s) ==
  /\ task[s] = "flight" /\ tries[s] = RetryMax
  /\ task' = [task EXCEPT ![s] = "ok"]
  /\ UNCHANGED <<tries, key, text, wire, store, mixed, roundVars, readVars, overlapped>>

\* The callback of a SET is empty: nobody hears of it.
GiveUp(s) ==
  /\ task[s] = "flight" /\ tries[s] = RetryMax
  /\ task' = [task EXCEPT ![s] = "failed"]
  /\ UNCHANGED <<tries, key, text, wire, store, mixed, roundVars, readVars, overlapped>>

-----------------------------------------------------------------------------
(* A request of /table_at_graph *)

\* Before the first output there is no structure, and the handler follows a
\* null pointer.  (That the process may die of it adds no state: it stops.)
ReadNull(r) ==
  /\ reading[r] = "new" /\ m_outStruct = nullptr
  /\ reading' = [reading EXCEPT ![r] = "null"]
  /\ UNCHANGED <<roundVars, setVars, answer, seen, overlapped>>

\* It reads the row, the column and the names, one after the other.
ReadRow(r) ==
  /\ reading[r] = "new" /\ m_outStruct # nullptr
  /\ reading' = [reading EXCEPT ![r] = "row"]
  /\ answer' = [answer EXCEPT ![r].row = m_outStruct.row]
  /\ seen' = [seen EXCEPT ![r] = cellRound]
  /\ overlapped' = IF stage \in {"cleared", "shaped"} THEN overlapped \cup {r} ELSE overlapped
  /\ UNCHANGED <<roundVars, setVars>>

\* Mutant: the row is read again.
Mut_RowTwice(r) ==
  /\ reading[r] = "row"
  /\ reading' = [reading EXCEPT ![r] = "col"]
  /\ answer' = [answer EXCEPT ![r].col = m_outStruct.row]
  /\ UNCHANGED <<roundVars, setVars, seen, overlapped>>
ReadCol(r) ==
  /\ reading[r] = "row"
  /\ reading' = [reading EXCEPT ![r] = "col"]
  /\ answer' = [answer EXCEPT ![r].col = m_outStruct.col]
  /\ UNCHANGED <<roundVars, setVars, seen, overlapped>>

ReadNames(r) ==
  /\ reading[r] = "col"
  /\ reading' = [reading EXCEPT ![r] = "done"]
  /\ answer' = [answer EXCEPT ![r].info = m_outStruct.info]
  /\ UNCHANGED <<roundVars, setVars, seen, overlapped>>

-----------------------------------------------------------------------------
Publish ==
  \/ UpdateClear
  \/ \E h \in Header :
       \/ \E rows \in 0..MaxRows : UpdateShape(rows, Len(h))
       \/ \E rows \in 0..MaxRows :
            \E c \in [Cells(rows, Len(h)) -> Kind] : Construct(h, rows, c)
       \/ /\ stage = "shaped" /\ Len(h) = m_outStruct.col
          /\ \E c \in [Cells(m_outStruct.row, Len(h)) -> Kind] : UpdateNames(h, c)

SetStep(s) ==
  \/ Answered(s) \/ TryAgain(s) \/ GiveUp(s)
  \/ \E a \in 0..RetryMax : AnswerLost(s, a) \/ RequestLost(s, a)

Read(r) == ReadNull(r) \/ ReadRow(r) \/ ReadCol(r) \/ ReadNames(r)

Next ==
  \/ Publish \/ RoundFails \/ GraphCallback
  \/ \E s \in Set : SetStep(s)
  \/ \E r \in Reader : Read(r)

\* Connections and answers have a time limit: while SETs are in flight, sooner
\* or later one of the limits is reached.
Fairness == WF_vars(\E s \in Set : TryAgain(s) \/ GiveUp(s))

Spec == Init /\ [][Next]_vars /\ Fairness

-----------------------------------------------------------------------------
(* Properties *)

\* A request of /table_at_graph during whose reads no update took a step is
\* answered with the structure of the last output published when it began:
\* row, column and names of one and the same table (pipeline.cpp:142-154
\* against cbOutputTableStruct::update).
AnswerIsLatest ==
  \A r \in Reader \ overlapped :
    reading[r] = "done" => seen[r] \in Round /\ answer[r] = pub[seen[r]]

\* The key belongs to a cell of the output of round n.
IsKeyOf(k, n) ==
  \E i \in 1..pub[n].row, j \in 1..pub[n].col : k = <<i, pub[n].info[j]>>

\* A round whose number is taken and that published nothing.
FailedRound(n) == n \in 1..round /\ pub[n] = NoStruct

\* What Redis holds under a key is the text of a cell of an output that was
\* published with that row and that name: late, lost and repeated SETs do not
\* mix cells up.  Text of deleted cells is only there after a round that
\* failed behind one that published the key (the loop of GraphCallback, whose
\* structure is then older than the round).
CachedIsPublished ==
  \A k \in Key :
    \/ store[k] = nothing
    \/ \E s \in Set : /\ store[k] = s
                      /\ s[2] <= pub[s[1]].row /\ s[3] <= pub[s[1]].col
                      /\ k = <<s[2], pub[s[1]].info[s[3]]>>
    \/ store[k] = nan /\ \E n \in Round : IsKeyOf(k, n)
    \/ store[k] = garbage /\ \E n, m \in Round : n > m /\ FailedRound(n) /\ IsKeyOf(k, m)

\* No later SET for the same key has begun.
Newest(s) == \A o \in Set \ {s} : key[o] = key[s] => o[1] < s[1]

\* A SET that was acknowledged and that is the newest of its key is what Redis
\* holds, if no other SET of that key was alive when it began.  (If one was,
\* an attempt of the old one may arrive behind the new one, and the old text
\* stays: cbComputeGraph.cpp:540 starts the tasks and waits for none.)
AcknowledgedIsStored ==
  \A s \in Set \ mixed :
    task[s] = "ok" /\ Newest(s) => store[key[s]] = text[s]

\* The callback of a round that published has come to the cell of the SET.
HandedOver(s) ==
  /\ s[2] <= pub[s[1]].row /\ s[3] <= pub[s[1]].col
  /\ s[1] < round \/ stage = "idle"

\* No cell of any output is forgotten: when Redis holds nothing under its key,
\* its SET is still under way, was given up after the last retry, or was
\* refused because the cell gave no text (see AllIsCached).
MissingHasCause ==
  \A s \in Set : HandedOver(s) =>
    \/ store[<<s[2], pub[s[1]].info[s[3]]>>] # nothing
    \/ task[s] \in {"flight", "failed"}
    \/ task[s] = "refused" /\ text[s] = nothing

\* Again and again no SET is in flight: however often connections break, the
\* retries come to an end.
SetsEnd == []<>(\A s \in Set : task[s] # "flight")

\* "Caching all table to l3 redis server." (cbComputeGraph.cpp:514): when every
\* SET of a round that published has been answered, all cells of its output
\* have a value in Redis.
AllIsCached ==
  \A n \in Round :
    /\ stage = "idle" /\ cellRound = n
    /\ \A s \in Set : task[s] \notin {"flight", "failed"}
    => \A k \in Key : IsKeyOf(k, n) => store[k] # nothing
=============================================================================
