------------------------------- MODULE Combine -------------------------------
(***************************************************************************)
(* Cb.Op.CombineOp: the join of the tables that come into a combine node.  *)
(*                                                                         *)
(* The function takes the key column of the first table as the first       *)
(* column of its result, adds a row for each key that only another table   *)
(* has ("grow"), writes the other columns of all tables behind the keys    *)
(* ("fill"), and copies the result to the output, first the cells and then *)
(* the names ("output", "names").                                          *)
(*                                                                         *)
(* Rows of equal keys are found with keyBy, which returns a map from the   *)
(* hash of a key to its last row.  Lua then asks that map for 1, 2, 3, ..  *)
(* up to its size, as if it were an array; what it does not find is nil,   *)
(* and nil in the place of a number is a Lua error.                        *)
(*                                                                         *)
(* Rows and columns count from 1 here, but the columns of the result from  *)
(* 0, the key's.  A cell is <<table, row, column>>: the tables hold        *)
(* pointers, and the output points to the cells of the inputs.             *)
(***************************************************************************)
EXTENDS Integers, Sequences, FiniteSets

CONSTANTS
  Name,         \* names of columns
  Inputs,       \* what may come in: sequences of tables
  PrimaryKeys,  \* the keys the script gave to createCombineNode: sequences of names
  Null,         \* the content of a cell that is NULL in the database
  nullptr       \* a cell that is not there: the outer part of an earlier join

\* An Int cell's hash is its number.  A number no table has as many rows as
\* stands for the other types too: their hashes are of that size.
Content == Int \cup {Null}
Row == Seq(Content \cup {nullptr})
Table ==
  {t \in [cols : Seq(Name), rows : Seq(Row)] :
     \A r \in 1 .. Len(t.rows) : Len(t.rows[r]) = Len(t.cols)}

ASSUME CombineAssumption ==
  /\ Inputs \subseteq Seq(Table)
  /\ PrimaryKeys \subseteq Seq(Name)
  /\ Null \notin Int
  /\ nullptr \notin Content
  /\ nullptr \notin Nat \X Nat \X Nat

VARIABLES
  inputs,       \* baseOpPtr.io.I
  primaryKeys,
  pc,           \* the phase; "done", "refused", "error" (raised) or "ub"
  i, j,         \* the counters of the loops of the phase
  tmp,          \* tmpPrimryKeysCol
  colPtrHead, colPtrTail,
  output,       \* the cells of baseOpPtr.io.O
  info          \* its names: those of an older table, uninitialised, or set

in == <<inputs, primaryKeys>>
colPtrs == <<colPtrHead, colPtrTail>>
out == <<output, info>>
vars == <<in, pc, i, j, tmp, colPtrs, out>>

-----------------------------------------------------------------------------
(* The inputs *)

Tables == 1 .. Len(inputs)
Width(t) == Len(inputs[t].cols)
Height(t) == Len(inputs[t].rows)
Cell == Nat \X Nat \X Nat
\* Cb.F.value
value(cell) == inputs[cell[1]].rows[cell[2]][cell[3]]

ColumnsNamed(t, name) == {c \in 1 .. Width(t) : inputs[t].cols[c] = name}
Least(S) == CHOOSE x \in S : \A y \in S : x <= y
Greatest(S) == CHOOSE x \in S : \A y \in S : y <= x

HasKey(t) == ColumnsNamed(t, primaryKeys[t]) # {}
\* allPrimaryKeysLocation: the last column with the name.  (nil without one.)
Location(t) == Greatest(ColumnsNamed(t, primaryKeys[t]))
KeyCell(t, r) == <<t, r, Location(t)>>

\* inputs[t]:keyBy(primaryKeys[t]): the first column with the name; up to the
\* first NULL.
KeyByColumn(t) == Least(ColumnsNamed(t, primaryKeys[t]))
KeyByRows(t) ==
  {r \in 1 .. Height(t) : \A q \in 1 .. r : inputs[t].rows[q][KeyByColumn(t)] # Null}
keyBy(t) ==
  IF ~HasKey(t) THEN [h \in {} |-> 0]
  ELSE LET hash(r) == inputs[t].rows[r][KeyByColumn(t)]
       IN  [h \in {hash(r) : r \in KeyByRows(t)} |->
              Greatest({r \in KeyByRows(t) : hash(r) = h})]
\* # of that map.
Size(t) == Cardinality(DOMAIN keyBy(t))

IsKeyName(name) == \E k \in 1 .. Len(primaryKeys) : primaryKeys[k] = name
Columns(n) == UNION {{t} \X (1 .. Width(t)) : t \in 1 .. n}
\* Mutant: the key's own column is not counted.
Mut_ColNum ==
  Cardinality({c \in Columns(Len(inputs)) : ~IsKeyName(inputs[c[1]].cols[c[2]])})
\* outputColNum: the key, and the columns that are not named like a key.
outputColNum ==
  1 + Cardinality({c \in Columns(Len(inputs)) : ~IsKeyName(inputs[c[1]].cols[c[2]])})

\* A row of the result: the cells behind the key are not there yet.
NewRow(key) == [p \in 0 .. outputColNum - 1 |-> IF p = 0 THEN key ELSE nullptr]

TypeOK ==
  /\ inputs \in Seq(Table)
  /\ primaryKeys \in Seq(Name)
  /\ pc \in {"start", "grow", "fill", "output", "names",
             "done", "refused", "error", "ub"}
  /\ i \in Nat /\ j \in Nat
  /\ tmp \in Seq([0 .. outputColNum - 1 -> Cell \cup {nullptr}])
  /\ colPtrHead \in Nat \ {0} /\ colPtrTail \in Nat \ {0}
  /\ output \in Seq([0 .. outputColNum - 1 -> Cell \cup {nullptr}])
  /\ info \in {"old", "unset", "set"}

Init ==
  /\ inputs \in Inputs
  /\ primaryKeys \in PrimaryKeys
  /\ pc = "start"
  /\ i = 0 /\ j = 0
  /\ tmp = <<>>
  /\ colPtrHead = 1 /\ colPtrTail = 1
  /\ output = <<>>
  /\ info = "old"

Goto(phase, first, second) == pc' = phase /\ i' = first /\ j' = second
\* The function returns, with or without an error, or goes astray.
End(how) == pc' = how /\ UNCHANGED <<in, i, j, tmp, colPtrs, out>>

-----------------------------------------------------------------------------
(* The beginning *)

\* "#inputs ~= #primaryKeys": nothing is done, and the output is the old one.
Refuse ==
  /\ pc = "start"
  /\ Len(inputs) # Len(primaryKeys)
  /\ End("refused")

\* Every cell is looked at once; a null pointer among them is nil in Lua.
SomeCellIsNil ==
  \E t \in Tables : \E r \in 1 .. Height(t), c \in 1 .. Width(t) :
    value(<<t, r, c>>) = nullptr

\* getCol(indPrimaykeys): without a column of that name, the first one.
FirstKeys ==
  LET c == IF HasKey(1) THEN KeyByColumn(1) ELSE 1
  IN  [r \in 1 .. Height(1) |-> NewRow(<<1, r, c>>)]

Start ==
  /\ pc = "start"
  /\ Len(inputs) = Len(primaryKeys)
  /\ IF inputs = <<>> \/ SomeCellIsNil
       THEN End("error")
       ELSE /\ tmp' = FirstKeys
            /\ Goto("grow", 2, 1)
            /\ UNCHANGED <<in, colPtrs, out>>

-----------------------------------------------------------------------------
(* "compare with other table, if there are other data, add in" *)

\* The key of the row that the map has under n is the key of row k.
Same(t, n, k) == value(KeyCell(t, keyBy(t)[n])) = value(tmp[k][0])

\* The cell that is added: of row n, not of the row the map has under n.
GrownKey(t, n) == KeyCell(t, n)

\* The next number, 1 .. #tmpInd, in the map of table i.  When it is not in
\* there, atPtr is called with nil at the first comparison.
Grow ==
  /\ pc = "grow" /\ i \in Tables /\ j <= Size(i)
  /\ IF j \notin DOMAIN keyBy(i) /\ tmp # <<>>
       THEN End("error")
       ELSE /\ tmp' = IF \E k \in 1 .. Len(tmp) : Same(i, j, k)
                        THEN tmp
                        ELSE Append(tmp, NewRow(GrownKey(i, j)))
            /\ Goto("grow", i, j + 1)
            /\ UNCHANGED <<in, colPtrs, out>>

\* Mutant: the output gets its shape before the rows are filled.
Mut_ShapeFirst ==
  /\ pc = "grow"
  /\ i \in Tables => j > Size(i)
  /\ IF i \in Tables THEN Goto("grow", i + 1, 1) ELSE Goto("fill", 1, 1)
  /\ output' = tmp /\ info' = "unset"
  /\ UNCHANGED <<in, tmp, colPtrs>>
GrowNext ==
  /\ pc = "grow"
  /\ i \in Tables => j > Size(i)
  /\ IF i \in Tables THEN Goto("grow", i + 1, 1) ELSE Goto("fill", 1, 1)
  /\ UNCHANGED <<in, tmp, colPtrs, out>>

-----------------------------------------------------------------------------
(* "point to point" *)

\* Mutant: the key is taken to be the first column.
Mut_BehindFirst(t, n) == n + 1
\* The columns of table t that are written behind the key: all but one.
DataColumn(t, n) == IF n < Location(t) THEN n ELSE n + 1

\* The numbers before the first one that is not in the map of table t.
Reached(t) == {n \in 1 .. Size(t) : \A m \in 1 .. n : m \in DOMAIN keyBy(t)}
\* Mutant: keys are not compared.
Mut_AllHit(t, k) == Reached(t)
Hits(t, k) == {n \in Reached(t) : Same(t, n, k)}

\* Row k with the cells of row r of table t in it, from column head on.
Written(k, t, r, head) ==
  [p \in DOMAIN tmp[k] |->
     IF p \in head .. head + Width(t) - 2
       THEN <<t, r, DataColumn(t, p - head + 1)>>
       ELSE tmp[k][p]]

\* Table j for row i.  All rows of the table with the key of the row are
\* written to the same place, one upon the other.  Nothing checks that there
\* are so many columns.  The next table begins where this one ended; or
\* where colPtrTail was, if there was nothing to write.
Fill ==
  /\ pc = "fill" /\ i \in 1 .. Len(tmp) /\ j \in Tables
  /\ LET hits == Hits(j, i)
         tail == IF hits = {} THEN colPtrTail ELSE colPtrHead + Width(j) - 1
     IN  IF hits # {} /\ Width(j) > 1 /\ tail > outputColNum THEN End("ub")
         ELSE IF Reached(j) # 1 .. Size(j) THEN End("error")
         ELSE /\ tmp' = IF hits = {} THEN tmp
                        ELSE [tmp EXCEPT ![i] =
                                Written(i, j, keyBy(j)[Greatest(hits)], colPtrHead)]
              /\ colPtrTail' = tail
              /\ colPtrHead' = tail
              /\ Goto("fill", i, j + 1)
              /\ UNCHANGED <<in, out>>

\* Mutant: columns count from 0.
Mut_HeadZero ==
  /\ pc = "fill"
  /\ i \in 1 .. Len(tmp) => j \notin Tables
  /\ IF i \in 1 .. Len(tmp)
       THEN Goto("fill", i + 1, 1) /\ colPtrHead' = 0
       ELSE Goto("output", 0, 0) /\ UNCHANGED colPtrHead
  /\ UNCHANGED <<in, tmp, colPtrTail, out>>
\* colPtrHead goes back to the first column; colPtrTail does not.
FillNext ==
  /\ pc = "fill"
  /\ i \in 1 .. Len(tmp) => j \notin Tables
  /\ IF i \in 1 .. Len(tmp)
       THEN Goto("fill", i + 1, 1) /\ colPtrHead' = 1
       ELSE Goto("output", 0, 0) /\ UNCHANGED colPtrHead
  /\ UNCHANGED <<in, tmp, colPtrTail, out>>

-----------------------------------------------------------------------------
(* The output *)

\* resetShapeH allocates the names without setting them.
Output ==
  /\ pc = "output"
  /\ output' = tmp
  /\ info' = "unset"
  /\ Goto("names", 0, 0)
  /\ UNCHANGED <<in, tmp, colPtrs>>

\* The names are written table by table, as far as there is a table with
\* columns but without its key: its location is nil.
NamedTables == {t \in Tables : \A u \in 1 .. t : HasKey(u) \/ Width(u) = 0}
NamesWritten ==
  1 + Cardinality({c \in Columns(Len(inputs)) :
                     c[1] \in NamedTables /\ c[2] # Location(c[1])})

Names ==
  /\ pc = "names"
  /\ IF ~HasKey(1) THEN End("error")
     ELSE IF NamesWritten > outputColNum THEN End("ub")
     ELSE IF NamedTables # Tables THEN End("error")
     ELSE /\ info' = "set"
          /\ Goto("done", 0, 0)
          /\ UNCHANGED <<in, tmp, colPtrs, output>>

Next ==
  \/ Refuse \/ Start
  \/ Grow \/ GrowNext
  \/ Fill \/ FillNext
  \/ Output \/ Names

Spec == Init /\ [][Next]_vars

-----------------------------------------------------------------------------
(* Properties *)

\* A row of the result never mixes keys: whatever stands behind the key comes
\* from a row of an input with that key, for any inputs, also when rows are
\* written twice, columns overlap or a table has two columns for its key.
RowsAreOfOneKey ==
  \A k \in 1 .. Len(tmp) : \A p \in 1 .. outputColNum - 1 :
    tmp[k][p] # nullptr =>
      value(KeyCell(tmp[k][p][1], tmp[k][p][2])) = value(tmp[k][0])

\* An error leaves the output of the round before as it was.  Only a table
\* without its key column is noticed too late: the output has its new cells
\* then, and names that were never set.
ErrorKeepsOutput ==
  pc = "error" /\ info # "old" => \E t \in Tables : ~HasKey(t)

\* A column that is named like a key and is not the key of its table is
\* written, but not counted.
Ambiguous ==
  \E c \in Columns(Len(inputs)) :
    /\ IsKeyName(inputs[c[1]].cols[c[2]])
    /\ HasKey(c[1]) => c[2] # Location(c[1])
\* A row whose key the first table does not have begins where the row before
\* has ended.
NotInFirst == \E k \in 1 .. Len(tmp) : Hits(1, k) = {}

\* The writes behind the end of a row, or of the names, have these two causes
\* and no other.
OverflowHasCause == pc = "ub" => Ambiguous \/ NotInFirst

\* What CombineOp can join: keys that count the rows of their table from 1 on,
\* in any order, and tables that do not grow from one input to the next.
KeysCountRows(t) == {value(KeyCell(t, r)) : r \in 1 .. Height(t)} = 1 .. Height(t)
Joinable ==
  /\ inputs # <<>> /\ Len(inputs) = Len(primaryKeys)
  /\ ~SomeCellIsNil /\ ~Ambiguous
  /\ \A t \in Tables : HasKey(t) /\ KeysCountRows(t)
  /\ \A t \in Tables \ {1} : Height(t) <= Height(t - 1)

\* The rows of the first table in their order, and beside each the rows with
\* its key of the others, in the order of the inputs.
FirstColumn(t) == 1 + Cardinality(Columns(t - 1)) - (t - 1)
LeftJoin ==
  /\ Len(output) = Height(1)
  /\ \A k \in 1 .. Height(1) :
       /\ output[k][0] = KeyCell(1, k)
       /\ \A t \in Tables : \A c \in 1 .. Width(t) \ {Location(t)} :
            LET rows == {r \in 1 .. Height(t) :
                           value(KeyCell(t, r)) = value(KeyCell(1, k))}
                before == (1 .. c - 1) \ {Location(t)}
                cell == output[k][FirstColumn(t) + Cardinality(before)]
            IN  IF rows = {} THEN cell = nullptr
                ELSE \E r \in rows : cell = <<t, r, c>>

\* Such tables are joined, completely and without an error.
JoinWhenJoinable ==
  Joinable => /\ pc \notin {"refused", "error", "ub"}
              /\ pc = "done" => LeftJoin /\ info = "set"

-----------------------------------------------------------------------------
(* What a comment of the code says, and the code does not do *)

\* libCB.lua: "compare with other table, if there are other data, add in".
\* The rows are grown by every key that the first table does not have; even
\* among tables whose keys count their rows.
OtherDataIsAdded ==
  pc = "fill" /\ (\A t \in Tables : HasKey(t) /\ KeysCountRows(t)) =>
    \A t \in Tables : \A r \in 1 .. Height(t) :
      \E k \in 1 .. Len(tmp) : value(tmp[k][0]) = value(KeyCell(t, r))
=============================================================================
