----------------------------- MODULE CombineProof -----------------------------
(***************************************************************************)
(* Theorems about Combine, for any tables and keys.                        *)
(***************************************************************************)
EXTENDS Combine, FiniteSetTheorems, WellFoundedInduction, TLAPS

-----------------------------------------------------------------------------
(* Least and Greatest *)

\* A set of naturals that is not empty has a least element.
LEMMA LeastIn ==
  ASSUME NEW S \in SUBSET Nat, S # {}
  PROVE  Least(S) \in S /\ \A y \in S : Least(S) <= y
<1> DEFINE R == {p \in Nat \X Nat : p[1] < p[2]}
<1>0. IsWellFoundedOn(R, Nat)
  BY NatLessThanWellFounded, Zenon DEF OpToRel
<1>1. PICK x \in S : \A y \in S : ~(<<y, x>> \in R)
  <2> HIDE DEF R
  <2> QED
    BY <1>0, WFMin
<1>2. ASSUME NEW y \in S PROVE x <= y
  <2>1. <<y, x>> \in Nat \X Nat /\ ~(<<y, x>>[1] < <<y, x>>[2])
    BY <1>1
  <2> QED
    BY <2>1
<1> QED
  BY <1>2 DEF Least

\* ... and a greatest one, if it is bounded.
LEMMA GreatestIn ==
  ASSUME NEW n \in Nat, NEW S \in SUBSET (1 .. n), S # {}
  PROVE  Greatest(S) \in S /\ \A y \in S : y <= Greatest(S)
<1> DEFINE T == {m \in 0 .. n : n - m \in S}
<1>1. T \in SUBSET Nat /\ T # {}
  <2>1. PICK x \in S : TRUE
    OBVIOUS
  <2>2. n - x \in 0 .. n /\ n - (n - x) = x
    BY <2>1
  <2>3. n - x \in T
    BY <2>1, <2>2
  <2>4. T \subseteq Nat
    BY SMT
  <2> QED
    BY <2>3, <2>4
<1>2. PICK m \in T : \A y \in T : m <= y
  BY <1>1, LeastIn
<1>3. n - m \in S /\ \A y \in S : y <= n - m
  <2>1. \A y \in S : n - y \in T
    OBVIOUS
  <2> QED
    BY <1>2, <2>1
<1> QED
  BY <1>3 DEF Greatest

-----------------------------------------------------------------------------
(* The inputs *)

LEMMA TableFacts ==
  ASSUME TypeOK, NEW t \in Tables
  PROVE  /\ Width(t) \in Nat /\ Height(t) \in Nat
         /\ t \in Nat
         /\ HasKey(t) => Location(t) \in 1 .. Width(t)
         /\ DOMAIN keyBy(t) # {} => HasKey(t)
         /\ \A h \in DOMAIN keyBy(t) : keyBy(t)[h] \in 1 .. Height(t)
         /\ Size(t) \in Nat
         /\ ~HasKey(t) => Size(t) = 0
<1>1. inputs[t] \in Table /\ Width(t) \in Nat /\ Height(t) \in Nat /\ t \in Nat
  <2>1. inputs \in Seq(Table) /\ t \in 1 .. Len(inputs)
    BY DEF TypeOK, Tables
  <2>2. inputs[t] \in Table /\ t \in Nat
    BY ONLY <2>1
  <2>3. inputs[t].cols \in Seq(Name) /\ inputs[t].rows \in Seq(Row)
    BY ONLY <2>2 DEF Table
  <2> QED
    BY ONLY <2>2, <2>3 DEF Width, Height
<1>2. ASSUME HasKey(t) PROVE Location(t) \in 1 .. Width(t)
  BY <1>1, <1>2, GreatestIn DEF HasKey, Location, ColumnsNamed
<1> DEFINE hash(r) == inputs[t].rows[r][KeyByColumn(t)]
           rowsOf(h) == {r \in KeyByRows(t) : hash(r) = h}
<1>3. ASSUME HasKey(t)
      PROVE  /\ DOMAIN keyBy(t) = {hash(r) : r \in KeyByRows(t)}
             /\ \A h \in DOMAIN keyBy(t) : keyBy(t)[h] = Greatest(rowsOf(h))
  BY <1>3 DEF keyBy
<1>4. ASSUME HasKey(t), NEW h \in DOMAIN keyBy(t)
      PROVE  keyBy(t)[h] \in 1 .. Height(t)
  <2>1. rowsOf(h) # {} /\ rowsOf(h) \in SUBSET (1 .. Height(t))
    <3>1. PICK r \in KeyByRows(t) : h = hash(r)
      BY <1>3, <1>4
    <3>2. KeyByRows(t) \subseteq 1 .. Height(t)
      BY DEF KeyByRows
    <3> HIDE DEF hash
    <3> QED
      BY ONLY <3>1, <3>2
  <2>2. Greatest(rowsOf(h)) \in rowsOf(h)
    BY <1>1, <2>1, GreatestIn
  <2> QED
    BY <1>3, <1>4, <2>1, <2>2
<1>5. ASSUME ~HasKey(t) PROVE DOMAIN keyBy(t) = {} /\ Size(t) = 0
  BY <1>5, FS_EmptySet DEF keyBy, Size
<1>6. ASSUME HasKey(t) PROVE Size(t) \in Nat
  <2>1. IsFiniteSet(KeyByRows(t))
    <3>1. IsFiniteSet(1 .. Height(t))
      BY <1>1, FS_Interval
    <3> QED
      BY <3>1, FS_Subset DEF KeyByRows
  <2> DEFINE f == [r \in KeyByRows(t) |-> hash(r)]
  <2>2. f \in Surjection(KeyByRows(t), DOMAIN keyBy(t))
    BY <1>3, <1>6 DEF Surjection
  <2>3. IsFiniteSet(DOMAIN keyBy(t))
    BY <2>1, <2>2, FS_Surjection, Zenon
  <2> QED
    BY <2>3, FS_CardinalityType DEF Size
<1> QED
  BY <1>1, <1>2, <1>3, <1>4, <1>5, <1>6

LEMMA ColumnsFinite ==
  ASSUME TypeOK, NEW n \in 0 .. Len(inputs)
  PROVE  IsFiniteSet(Columns(n)) /\ Columns(n) \subseteq Nat \X Nat
<1> DEFINE F == [t \in 1 .. n |-> {t} \X (1 .. Width(t))]
           S == {{t} \X (1 .. Width(t)) : t \in 1 .. n}
<1>0. n \in Nat /\ 1 .. n \subseteq Tables
  BY DEF TypeOK, Tables
<1>1. F \in Surjection(1 .. n, S)
  BY DEF Surjection
<1>2. IsFiniteSet(S)
  <2>1. IsFiniteSet(1 .. n)
    BY <1>0, FS_Interval
  <2> HIDE DEF F, S
  <2> QED
    BY <1>1, <2>1, FS_Surjection
<1>3. ASSUME NEW T \in S PROVE IsFiniteSet(T) /\ T \subseteq Nat \X Nat
  <2>1. PICK t \in 1 .. n : T = {t} \X (1 .. Width(t))
    BY <1>3
  <2>2. Width(t) \in Nat
    BY <1>0, <2>1, TableFacts
  <2>3. IsFiniteSet({t}) /\ IsFiniteSet(1 .. Width(t))
    <3>1. IsFiniteSet({t})
      BY FS_Singleton, Zenon
    <3>2. IsFiniteSet(1 .. Width(t))
      BY <2>2, FS_Interval
    <3> QED
      BY <3>1, <3>2
  <2>4. IsFiniteSet({t} \X (1 .. Width(t)))
    BY <2>3, FS_Product
  <2>5. {t} \X (1 .. Width(t)) \subseteq Nat \X Nat
    BY <1>0, <2>2
  <2> QED
    BY <2>1, <2>4, <2>5
<1> QED
  BY <1>2, <1>3, FS_UNION DEF Columns

\* The columns that are counted, of the first n tables.
Counted(n) == {c \in Columns(n) : ~IsKeyName(inputs[c[1]].cols[c[2]])}

LEMMA ColNumFacts ==
  ASSUME TypeOK
  PROVE  /\ outputColNum \in Nat \ {0}
         /\ outputColNum = 1 + Cardinality(Counted(Len(inputs)))
         /\ \A n \in 0 .. Len(inputs) :
              /\ IsFiniteSet(Counted(n))
              /\ Cardinality(Counted(n)) \in Nat
              /\ 1 + Cardinality(Counted(n)) <= outputColNum
<1>1. Len(inputs) \in Nat
  BY DEF TypeOK
<1>2. ASSUME NEW n \in 0 .. Len(inputs)
      PROVE  /\ IsFiniteSet(Counted(n))
             /\ Cardinality(Counted(n)) \in Nat
             /\ Counted(n) \subseteq Counted(Len(inputs))
  <2>1. IsFiniteSet(Counted(n)) /\ Cardinality(Counted(n)) \in Nat
    BY ColumnsFinite, FS_Subset, FS_CardinalityType DEF Counted
  <2>2. Columns(n) \subseteq Columns(Len(inputs))
    BY <1>1 DEF Columns
  <2> QED
    BY <2>1, <2>2 DEF Counted
<1>3. outputColNum = 1 + Cardinality(Counted(Len(inputs)))
  BY DEF outputColNum, Counted
<1>4. \A n \in 0 .. Len(inputs) : Cardinality(Counted(n)) <= Cardinality(Counted(Len(inputs)))
  BY <1>1, <1>2, FS_Subset
<1> QED
  BY <1>1, <1>2, <1>3, <1>4

-----------------------------------------------------------------------------
(* The invariant *)

\* The loops count tables and rows from 1.
LoopInv ==
  /\ pc \in {"grow", "fill"} => i \in Nat \ {0} /\ j \in Nat \ {0}
  /\ pc \in {"grow", "fill", "output", "names"} => inputs # <<>>

IInv == TypeOK /\ LoopInv /\ RowsAreOfOneKey

LEMMA InitIInv == Init => IInv
<1> SUFFICES ASSUME Init PROVE IInv
  OBVIOUS
<1>1. inputs \in Seq(Table) /\ primaryKeys \in Seq(Name)
  BY CombineAssumption DEF Init
<1>2. TypeOK
  BY <1>1 DEF Init, TypeOK
<1> QED
  BY <1>2 DEF Init, IInv, LoopInv, RowsAreOfOneKey

\* What depends on the inputs and the keys only does not change.
LEMMA SameInputs ==
  ASSUME UNCHANGED in
  PROVE  /\ outputColNum' = outputColNum
         /\ Tables' = Tables
         /\ \A cell : value(cell)' = value(cell)
         /\ \A t, r : KeyCell(t, r)' = KeyCell(t, r)
         /\ \A t : keyBy(t)' = keyBy(t)
         /\ \A t : HasKey(t)' = HasKey(t)
         /\ \A t : Width(t)' = Width(t)
         /\ \A t : Location(t)' = Location(t)
         /\ \A t : Size(t)' = Size(t)
         /\ \A n : Counted(n)' = Counted(n)
         /\ Ambiguous' = Ambiguous
<1>1. inputs' = inputs /\ primaryKeys' = primaryKeys
  BY DEF in
<1> QED
  BY <1>1 DEF outputColNum, Tables, value, KeyCell, keyBy, HasKey, Width,
    Location, Size, Counted, Ambiguous, Columns, IsKeyName, ColumnsNamed, KeyByColumn,
    KeyByRows, Height

\* A new row has its key and nothing else.
LEMMA NewRowFacts ==
  ASSUME TypeOK, NEW key \in Cell
  PROVE  /\ NewRow(key) \in [0 .. outputColNum - 1 -> Cell \cup {nullptr}]
         /\ NewRow(key)[0] = key
         /\ \A p \in 1 .. outputColNum - 1 : NewRow(key)[p] = nullptr
  BY ColNumFacts DEF NewRow

LEMMA SameRows ==
  ASSUME RowsAreOfOneKey, UNCHANGED <<in, tmp>>
  PROVE  RowsAreOfOneKey'
  BY SameInputs DEF RowsAreOfOneKey

LEMMA StartStep ==
  ASSUME IInv, Start
  PROVE  IInv'
<1>0. TypeOK /\ UNCHANGED in
  BY DEF Start, End, IInv
<1>1. CASE inputs = <<>> \/ SomeCellIsNil
  BY <1>0, <1>1, SameInputs
     DEF IInv, Start, End, TypeOK, LoopInv, RowsAreOfOneKey, colPtrs, out, in
<1>2. CASE ~(inputs = <<>> \/ SomeCellIsNil)
  <2>1. 1 \in Tables
    BY <1>0, <1>2 DEF TypeOK, Tables
  <2>2. Height(1) \in Nat /\ Width(1) \in Nat
    BY <1>0, <2>1, TableFacts
  <2>3. HasKey(1) => KeyByColumn(1) \in Nat
    <3>1. ColumnsNamed(1, primaryKeys[1]) \in SUBSET Nat
      BY <2>2 DEF ColumnsNamed
    <3> QED
      BY <3>1, LeastIn DEF HasKey, KeyByColumn
  <2> DEFINE c == IF HasKey(1) THEN KeyByColumn(1) ELSE 1
  <2>4. FirstKeys = [r \in 1 .. Height(1) |-> NewRow(<<1, r, c>>)]
    BY DEF FirstKeys
  <2>5. \A r \in 1 .. Height(1) : <<1, r, c>> \in Cell
    BY <2>2, <2>3 DEF Cell
  <2> HIDE DEF c
  <2>6. FirstKeys \in Seq([0 .. outputColNum - 1 -> Cell \cup {nullptr}])
    <3> DEFINE rows == [0 .. outputColNum - 1 -> Cell \cup {nullptr}]
               row(r) == NewRow(<<1, r, c>>)
    <3>1. \A r \in 1 .. Height(1) : row(r) \in rows
      BY <1>0, <2>5, NewRowFacts
    <3> HIDE DEF rows, row
    <3>2. [r \in 1 .. Height(1) |-> row(r)] \in Seq(rows)
      BY <2>2, <3>1
    <3> QED
      BY <2>4, <3>2 DEF rows, row
  <2>7. Len(FirstKeys) = Height(1)
    BY <2>2, <2>4
  <2>8. \A k \in 1 .. Len(FirstKeys) : \A p \in 1 .. outputColNum - 1 :
          FirstKeys[k][p] = nullptr
    BY <1>0, <2>4, <2>5, <2>7, NewRowFacts
  <2>9. tmp' = FirstKeys /\ Goto("grow", 2, 1) /\ UNCHANGED <<in, colPtrs, out>>
    BY <1>2 DEF Start
  <2>10. TypeOK'
    BY <1>0, <2>6, <2>9, SameInputs DEF TypeOK, Goto, in, colPtrs, out
  <2>11. LoopInv'
    BY <1>2, <2>9 DEF LoopInv, Goto, in
  <2>12. RowsAreOfOneKey'
    BY <1>0, <2>8, <2>9, SameInputs DEF RowsAreOfOneKey
  <2> QED
    BY <2>10, <2>11, <2>12 DEF IInv
<1> QED
  BY <1>1, <1>2

LEMMA GrowStep ==
  ASSUME IInv, Grow
  PROVE  IInv'
<1>0. TypeOK /\ UNCHANGED in
  BY DEF Grow, End, IInv
<1>1. CASE UNCHANGED <<tmp, colPtrs, out>> /\ (End("error") \/ Goto("grow", i, j + 1))
  <2>1. TypeOK'
    BY <1>0, <1>1, SameInputs DEF End, Goto, TypeOK, colPtrs, out, in
  <2>2. LoopInv'
    BY <1>0, <1>1 DEF IInv, Grow, End, Goto, LoopInv, TypeOK, in
  <2> QED
    BY <1>0, <1>1, <2>1, <2>2, SameRows DEF IInv
<1>2. CASE /\ tmp' = Append(tmp, NewRow(GrownKey(i, j)))
           /\ Goto("grow", i, j + 1)
           /\ UNCHANGED <<in, colPtrs, out>>
  <2>1. i \in Tables /\ j <= Size(i) /\ j \in Nat \ {0} /\ inputs # <<>> /\ i \in Nat \ {0}
    BY DEF Grow, IInv, LoopInv
  <2>2. HasKey(i)
    BY <1>0, <2>1, TableFacts
  <2>3. GrownKey(i, j) \in Cell
    BY <1>0, <2>1, <2>2, TableFacts DEF GrownKey, KeyCell, Cell
  <2> DEFINE row == NewRow(GrownKey(i, j))
  <2>4. /\ row \in [0 .. outputColNum - 1 -> Cell \cup {nullptr}]
        /\ \A p \in 1 .. outputColNum - 1 : row[p] = nullptr
    BY <1>0, <2>3, NewRowFacts
  <2> HIDE DEF row
  <2>5. tmp' = Append(tmp, row)
    BY <1>2 DEF row
  <2>6. TypeOK'
    BY <1>0, <1>2, <2>1, <2>4, <2>5, SameInputs DEF TypeOK, Goto, in, colPtrs, out
  <2>7. LoopInv'
    BY <1>2, <2>1 DEF LoopInv, Goto, in
  <2>8. RowsAreOfOneKey'
    <3>1. /\ Len(tmp') = Len(tmp) + 1 /\ tmp'[Len(tmp) + 1] = row
          /\ Len(tmp) \in Nat
          /\ \A k \in 1 .. Len(tmp) : tmp'[k] = tmp[k]
      BY <1>0, <2>5 DEF TypeOK
    <3> SUFFICES ASSUME NEW k \in 1 .. Len(tmp'), NEW p \in 1 .. outputColNum - 1,
                        tmp'[k][p] # nullptr
                 PROVE  value(KeyCell(tmp'[k][p][1], tmp'[k][p][2])) = value(tmp'[k][0])
      BY <1>0, SameInputs DEF RowsAreOfOneKey
    <3>2. k # Len(tmp) + 1
      BY <2>4, <3>1
    <3>3. k \in 1 .. Len(tmp) /\ tmp'[k] = tmp[k]
      BY <3>1, <3>2
    <3> QED
      BY <3>3 DEF IInv, RowsAreOfOneKey
  <2> QED
    BY <2>6, <2>7, <2>8 DEF IInv
<1> QED
  BY <1>1, <1>2 DEF Grow, End

\* The row that a step of "fill" writes.
LEMMA WrittenFacts ==
  ASSUME IInv, pc = "fill", i \in 1 .. Len(tmp), j \in Tables, NEW n \in Hits(j, i)
  PROVE  LET row == Written(i, j, keyBy(j)[n], colPtrHead)
         IN  /\ row \in [0 .. outputColNum - 1 -> Cell \cup {nullptr}]
             /\ row[0] = tmp[i][0]
             /\ \A p \in 1 .. outputColNum - 1 : row[p] # nullptr =>
                  value(KeyCell(row[p][1], row[p][2])) = value(tmp[i][0])
<1> DEFINE r == keyBy(j)[n]
           row == Written(i, j, r, colPtrHead)
<1>0. TypeOK /\ tmp[i] \in [0 .. outputColNum - 1 -> Cell \cup {nullptr}]
  BY DEF IInv, TypeOK
<1>1. n \in DOMAIN keyBy(j) /\ Same(j, n, i)
  BY <1>0, TableFacts DEF Hits, Reached
<1>2. HasKey(j) /\ r \in Nat /\ j \in Nat /\ Width(j) \in Nat /\ Location(j) \in Nat
  BY <1>0, <1>1, TableFacts
<1>3. row = [p \in 0 .. outputColNum - 1 |->
               IF p \in colPtrHead .. colPtrHead + Width(j) - 2
                 THEN <<j, r, DataColumn(j, p - colPtrHead + 1)>>
                 ELSE tmp[i][p]]
  BY <1>0 DEF Written
<1> HIDE DEF row
<1>4. colPtrHead \in Nat \ {0} /\ outputColNum \in Nat \ {0}
  BY <1>0, ColNumFacts DEF TypeOK
<1>5. \A p \in colPtrHead .. colPtrHead + Width(j) - 2 :
        <<j, r, DataColumn(j, p - colPtrHead + 1)>> \in Cell
  <2> SUFFICES ASSUME NEW p \in colPtrHead .. colPtrHead + Width(j) - 2
               PROVE  DataColumn(j, p - colPtrHead + 1) \in Nat
    BY <1>2 DEF Cell
  <2> QED
    BY <1>2, <1>4 DEF DataColumn
<1>6. row \in [0 .. outputColNum - 1 -> Cell \cup {nullptr}]
  BY <1>0, <1>3, <1>5
<1>7. row[0] = tmp[i][0]
  BY <1>3, <1>4
<1>8. ASSUME NEW p \in 1 .. outputColNum - 1, row[p] # nullptr
      PROVE  value(KeyCell(row[p][1], row[p][2])) = value(tmp[i][0])
  <2>0. p \in 0 .. outputColNum - 1
    BY <1>4
  <2>1. CASE p \in colPtrHead .. colPtrHead + Width(j) - 2
    <3>1. row[p][1] = j /\ row[p][2] = r
      BY <1>3, <2>0, <2>1
    <3> QED
      BY <1>1, <3>1 DEF Same
  <2>2. CASE p \notin colPtrHead .. colPtrHead + Width(j) - 2
    <3>1. row[p] = tmp[i][p]
      BY <1>3, <2>0, <2>2
    <3> QED
      BY <1>8, <3>1 DEF IInv, RowsAreOfOneKey
  <2> QED
    BY <2>1, <2>2
<1> QED
  BY <1>6, <1>7, <1>8 DEF row

LEMMA HitsFacts ==
  ASSUME TypeOK, j \in Tables, Hits(j, i) # {}
  PROVE  Greatest(Hits(j, i)) \in Hits(j, i)
<1>1. Size(j) \in Nat
  BY TableFacts
<1>2. Hits(j, i) \in SUBSET (1 .. Size(j))
  BY DEF Hits, Reached
<1> QED
  BY <1>1, <1>2, GreatestIn

LEMMA FillStep ==
  ASSUME IInv, Fill
  PROVE  IInv'
<1> DEFINE hits == Hits(j, i)
           tail == IF hits = {} THEN colPtrTail ELSE colPtrHead + Width(j) - 1
           row == Written(i, j, keyBy(j)[Greatest(hits)], colPtrHead)
<1>0. /\ TypeOK /\ UNCHANGED in /\ pc = "fill"
      /\ i \in 1 .. Len(tmp) /\ i \in Nat \ {0}
      /\ j \in Tables /\ j \in Nat \ {0} /\ inputs # <<>>
  BY DEF Fill, End, IInv, LoopInv
<1>1. CASE End("ub") \/ End("error")
  <2>1. TypeOK' /\ LoopInv'
    BY <1>0, <1>1, SameInputs DEF End, TypeOK, LoopInv, colPtrs, out, in
  <2> QED
    BY <1>0, <1>1, <2>1, SameRows DEF IInv, End
<1>2. CASE /\ tmp' = IF hits = {} THEN tmp ELSE [tmp EXCEPT ![i] = row]
           /\ colPtrTail' = tail /\ colPtrHead' = tail
           /\ Goto("fill", i, j + 1)
           /\ UNCHANGED <<in, out>>
  <2>1. tail \in Nat \ {0}
    <3>1. CASE hits = {}
      BY <1>0, <3>1 DEF TypeOK
    <3>2. CASE hits # {}
      <4>1. PICK n \in hits : TRUE
        BY <3>2
      <4>2. HasKey(j)
        BY <1>0, <4>1, TableFacts DEF Hits, Reached
      <4>3. Width(j) \in Nat \ {0}
        BY <1>0, <4>2, TableFacts
      <4> QED
        BY <1>0, <3>2, <4>3 DEF TypeOK
    <3> QED
      BY <3>1, <3>2
  <2>2. LoopInv'
    BY <1>0, <1>2 DEF Goto, LoopInv, in
  <2>3. CASE hits = {}
    <3>1. UNCHANGED tmp
      BY <1>2, <2>3
    <3>2. TypeOK'
      <4> HIDE DEF tail, hits, row
      <4> QED
        BY <1>0, <1>2, <2>1, <3>1, SameInputs DEF TypeOK, Goto, in, out
    <3> QED
      BY <1>0, <2>2, <3>1, <3>2, SameRows DEF IInv
  <2>4. CASE hits # {}
    <3>1. /\ row \in [0 .. outputColNum - 1 -> Cell \cup {nullptr}]
          /\ row[0] = tmp[i][0]
          /\ \A p \in 1 .. outputColNum - 1 : row[p] # nullptr =>
               value(KeyCell(row[p][1], row[p][2])) = value(tmp[i][0])
      BY <1>0, <2>4, HitsFacts, WrittenFacts
    <3> HIDE DEF tail, hits, row
    <3>2. tmp' = [tmp EXCEPT ![i] = row]
      BY <1>2, <2>4
    <3>3. TypeOK'
      <4> DEFINE rows == [0 .. outputColNum - 1 -> Cell \cup {nullptr}]
      <4>1. tmp \in Seq(rows) /\ row \in rows
        BY <1>0, <3>1 DEF TypeOK
      <4>2. tmp' \in Seq(rows)
        <5> HIDE DEF rows
        <5> QED
          BY <1>0, <3>2, <4>1
      <4> QED
        BY <1>0, <1>2, <2>1, <4>2, SameInputs DEF TypeOK, Goto, in, out
    <3>4. /\ Len(tmp') = Len(tmp) /\ tmp'[i] = row
          /\ \A k \in 1 .. Len(tmp) : k # i => tmp'[k] = tmp[k]
      BY <1>0, <3>2 DEF TypeOK
    <3>5. RowsAreOfOneKey'
      <4> SUFFICES ASSUME NEW k \in 1 .. Len(tmp), NEW p \in 1 .. outputColNum - 1,
                          tmp'[k][p] # nullptr
                   PROVE  value(KeyCell(tmp'[k][p][1], tmp'[k][p][2])) = value(tmp'[k][0])
        BY <1>0, <3>4, SameInputs DEF RowsAreOfOneKey
      <4>1. CASE k = i
        BY <3>1, <3>4, <4>1
      <4>2. CASE k # i
        BY <3>4, <4>2 DEF IInv, RowsAreOfOneKey
      <4> QED
        BY <4>1, <4>2
    <3> QED
      BY <2>2, <3>3, <3>5 DEF IInv
  <2> QED
    BY <2>3, <2>4
<1> QED
  BY <1>1, <1>2 DEF Fill

LEMMA OtherSteps ==
  ASSUME IInv, Refuse \/ GrowNext \/ FillNext \/ Output \/ Names \/ UNCHANGED vars
  PROVE  IInv'
<1>0. TypeOK /\ UNCHANGED <<in, tmp>>
  BY DEF IInv, Refuse, GrowNext, FillNext, Output, Names, End, vars
<1>1. RowsAreOfOneKey'
  BY <1>0, SameRows DEF IInv
<1>2. TypeOK'
  <2>1. tmp' \in Seq([0 .. outputColNum' - 1 -> Cell \cup {nullptr}])
    BY <1>0, SameInputs DEF TypeOK
  <2>2. output' \in Seq([0 .. outputColNum' - 1 -> Cell \cup {nullptr}])
    BY <1>0, SameInputs
       DEF TypeOK, Refuse, GrowNext, FillNext, Output, Names, End, vars, out
  <2>3. /\ inputs' \in Seq(Table) /\ primaryKeys' \in Seq(Name)
        /\ info' \in {"old", "unset", "set"}
        /\ colPtrHead' \in Nat \ {0} /\ colPtrTail' \in Nat \ {0}
        /\ pc' \in {"start", "grow", "fill", "output", "names",
                    "done", "refused", "error", "ub"}
    BY <1>0 DEF TypeOK, Refuse, GrowNext, FillNext, Output, Names, End, Goto, vars,
                out, colPtrs, in
  <2>4. i' \in Nat /\ j' \in Nat
    BY <1>0 DEF TypeOK, Refuse, GrowNext, FillNext, Output, Names, End, Goto, vars,
                out, colPtrs
  <2> QED
    BY <2>1, <2>2, <2>3, <2>4 DEF TypeOK
<1>3. LoopInv'
  BY <1>0 DEF IInv, LoopInv, TypeOK, Refuse, GrowNext, FillNext, Output, Names, End,
              Goto, vars, in
<1> QED
  BY <1>1, <1>2, <1>3 DEF IInv

LEMMA Inductive == IInv /\ [Next]_vars => IInv'
  BY StartStep, GrowStep, FillStep, OtherSteps DEF Next

LEMMA SpecIInv == Spec => []IInv
  BY InitIInv, Inductive, PTL DEF Spec

-----------------------------------------------------------------------------
(* Theorems *)

\* Rows of pointers, counters and phases keep their types, whatever the tables
\* are: a row never has more cells than outputColNum (libCB.lua, CombineOp).
THEOREM TypeCorrect == Spec => []TypeOK
  BY SpecIInv, PTL DEF IInv

\* No row mixes cells of different keys, whatever the tables are.
THEOREM RowsHaveOneKey == Spec => []RowsAreOfOneKey
  BY SpecIInv, PTL DEF IInv

-----------------------------------------------------------------------------
(* Errors *)

\* The output is touched in the last phases only.
OldInv ==
  /\ pc \in {"start", "grow", "fill", "output", "refused"} => info = "old"
  /\ ErrorKeepsOutput

LEMMA OldStep ==
  ASSUME IInv, OldInv, [Next]_vars
  PROVE  OldInv'
<1>1. CASE UNCHANGED out /\ UNCHANGED in /\ ~Names
  <2>1. (pc # "names" /\ pc # "done") \/ UNCHANGED vars
    BY <1>1 DEF Next, Refuse, Start, Grow, GrowNext, Fill, FillNext, Output, out,
                IInv, TypeOK, OldInv
  <2> QED
    BY <1>1, <2>1, SameInputs
       DEF OldInv, ErrorKeepsOutput, Next, Refuse, Start, Grow, GrowNext, Fill,
           FillNext, Output, End, Goto, out, vars
<1>2. CASE Output
  BY <1>2 DEF Output, Goto, OldInv, ErrorKeepsOutput
<1>3. CASE Names
  <2>1. UNCHANGED in /\ inputs # <<>> /\ TypeOK
    BY <1>3 DEF Names, End, IInv, LoopInv
  <2>2. 1 \in Tables
    BY <2>1 DEF TypeOK, Tables
  <2>3. NamedTables # Tables => \E t \in Tables : ~HasKey(t)
    <3>1. \A t \in Tables : 1 .. t \subseteq Tables
      BY <2>1 DEF TypeOK, Tables
    <3> QED
      BY <3>1 DEF NamedTables
  <2>4. pc' = "error" => \E t \in Tables : ~HasKey(t)
    BY <1>3, <2>2, <2>3 DEF Names, End, Goto
  <2>5. pc' \in {"error", "ub", "done"}
    BY <1>3 DEF Names, End, Goto
  <2> QED
    BY <2>1, <2>4, <2>5, SameInputs DEF OldInv, ErrorKeepsOutput
<1> QED
  BY <1>1, <1>2, <1>3
     DEF Next, Refuse, Start, Grow, GrowNext, Fill, FillNext, End, out, vars

\* An error leaves the older output whole, unless a table lacks its key.
THEOREM ErrorsKeepOutput == Spec => []ErrorKeepsOutput
<1>1. Init => OldInv
  BY DEF Init, OldInv, ErrorKeepsOutput
<1>2. OldInv => ErrorKeepsOutput
  BY DEF OldInv
<1> QED
  BY <1>1, <1>2, OldStep, SpecIInv, PTL DEF Spec

-----------------------------------------------------------------------------
(* Overflow *)

\* In tables without ambiguous names every table adds all of its columns but
\* the key's to those that are counted.
LEMMA CountedStep ==
  ASSUME TypeOK, NEW t \in Tables, HasKey(t), ~Ambiguous
  PROVE  /\ Cardinality(Counted(t)) >= Cardinality(Counted(t - 1)) + Width(t) - 1
         /\ t - 1 \in 0 .. Len(inputs) /\ t \in 0 .. Len(inputs)
<1> DEFINE data == (1 .. Width(t)) \ {Location(t)}
           own == {t} \X data
<1>0. /\ t - 1 \in 0 .. Len(inputs) /\ t \in 0 .. Len(inputs) /\ Len(inputs) \in Nat
      /\ Width(t) \in Nat /\ Location(t) \in 1 .. Width(t)
  BY TableFacts DEF TypeOK, Tables
<1>1. 1 .. t - 1 \subseteq 1 .. t /\ t \notin 1 .. t - 1 /\ t \in 1 .. t
      /\ 1 .. t \subseteq 1 .. Len(inputs)
  BY <1>0 DEF Tables
<1>2. Columns(t - 1) \cup own \subseteq Columns(t) /\ own \subseteq Columns(Len(inputs))
  BY <1>1 DEF Columns
<1>3. \A c \in Columns(t - 1) : c[1] # t
  BY <1>1 DEF Columns
<1>4. \A c \in own : c[1] = t /\ c[2] # Location(t)
  OBVIOUS
<1>5. \A c \in own : ~IsKeyName(inputs[c[1]].cols[c[2]])
  BY <1>2, <1>4 DEF Ambiguous
<1>6. Counted(t - 1) \cup own \subseteq Counted(t)
  BY <1>2, <1>5 DEF Counted
<1>7. Counted(t - 1) \cap own = {}
  BY <1>3, <1>4 DEF Counted
<1>8. IsFiniteSet(own) /\ Cardinality(own) = Width(t) - 1
  <2>1. IsFiniteSet(1 .. Width(t)) /\ Cardinality(1 .. Width(t)) = Width(t)
    BY <1>0, FS_Interval
  <2>2. IsFiniteSet(data) /\ Cardinality(data) = Width(t) - 1
    BY <1>0, <2>1, FS_RemoveElement
  <2>3. IsFiniteSet({t}) /\ Cardinality({t}) = 1
    BY FS_Singleton, Zenon
  <2> HIDE DEF data
  <2>4. IsFiniteSet({t} \X data) /\ Cardinality({t} \X data) = 1 * Cardinality(data)
    BY <2>2, <2>3, FS_Product
  <2> QED
    BY <1>0, <2>2, <2>4
<1> HIDE DEF own
<1>9. /\ IsFiniteSet(Counted(t - 1)) /\ Cardinality(Counted(t - 1)) \in Nat
      /\ IsFiniteSet(Counted(t)) /\ Cardinality(Counted(t)) \in Nat
  BY <1>0, ColNumFacts
<1>10. /\ IsFiniteSet(Counted(t - 1) \cup own)
       /\ Cardinality(Counted(t - 1) \cup own)
            = Cardinality(Counted(t - 1)) + Cardinality(own) - Cardinality({})
  BY <1>7, <1>8, <1>9, FS_Union
<1>11. Cardinality({}) = 0
  BY FS_EmptySet
<1>12. Cardinality(Counted(t - 1) \cup own) <= Cardinality(Counted(t))
  BY <1>6, <1>9, FS_Subset
<1> QED
  BY <1>0, <1>8, <1>9, <1>10, <1>11, <1>12

\* While every row has been found in the first table, what is written of a row
\* ends before the columns of the tables to come begin.
PtrInv ==
  pc = "fill" /\ ~Ambiguous /\ ~NotInFirst /\ i \in 1 .. Len(tmp) =>
    /\ j = 1 => colPtrHead = 1
    /\ j > 1 => colPtrHead = colPtrTail
    /\ j - 1 \in 0 .. Len(inputs) =>
         colPtrHead <= 1 + Cardinality(Counted(j - 1))

\* The columns are counted from the first one.
HeadInv == pc \in {"start", "grow"} => colPtrHead = 1

CauseInv == OverflowHasCause /\ PtrInv /\ HeadInv

\* What rows are found under does not change while rows are filled.
LEMMA HitsSame ==
  ASSUME UNCHANGED in, NEW t, NEW k, tmp'[k][0] = tmp[k][0]
  PROVE  Hits(t, k)' = Hits(t, k)
  BY SameInputs DEF Hits, Reached, Same

LEMMA NotInFirstSame ==
  ASSUME UNCHANGED in, Len(tmp') = Len(tmp),
         \A k \in 1 .. Len(tmp) : tmp'[k][0] = tmp[k][0]
  PROVE  NotInFirst' <=> NotInFirst
  BY HitsSame DEF NotInFirst

LEMMA FillKeys ==
  ASSUME IInv, Fill
  PROVE  /\ Len(tmp') = Len(tmp)
         /\ \A k \in 1 .. Len(tmp) : tmp'[k][0] = tmp[k][0]
<1> DEFINE row == Written(i, j, keyBy(j)[Greatest(Hits(j, i))], colPtrHead)
<1>1. TypeOK /\ pc = "fill" /\ i \in 1 .. Len(tmp) /\ j \in Tables
  BY DEF Fill, IInv
<1>2. Hits(j, i) # {} => row[0] = tmp[i][0]
  BY <1>1, HitsFacts, WrittenFacts
<1>3. UNCHANGED tmp \/ (Hits(j, i) # {} /\ tmp' = [tmp EXCEPT ![i] = row])
  BY DEF Fill, End
<1> DEFINE rows == [0 .. outputColNum - 1 -> Cell \cup {nullptr}]
<1>4. tmp \in Seq(rows)
  BY <1>1 DEF TypeOK
<1> HIDE DEF row, rows
<1>5. CASE UNCHANGED tmp
  BY <1>5
<1>6. CASE Hits(j, i) # {} /\ tmp' = [tmp EXCEPT ![i] = row]
  BY <1>1, <1>2, <1>4, <1>6
<1> QED
  BY <1>3, <1>5, <1>6

LEMMA FillCause ==
  ASSUME IInv, CauseInv, Fill
  PROVE  CauseInv'
<1> DEFINE hits == Hits(j, i)
           tail == IF hits = {} THEN colPtrTail ELSE colPtrHead + Width(j) - 1
<1>0. /\ TypeOK /\ UNCHANGED in /\ pc = "fill" /\ Len(inputs) \in Nat
      /\ i \in 1 .. Len(tmp) /\ j \in Tables /\ j \in Nat \ {0}
      /\ 1 \in Tables
  BY DEF Fill, End, IInv, LoopInv, TypeOK, Tables
<1>1. ASSUME ~Ambiguous, ~NotInFirst
      PROVE  /\ tail <= 1 + Cardinality(Counted(j))
             /\ tail <= outputColNum
             /\ hits = {} => j > 1
  <2>1. /\ Cardinality(Counted(j - 1)) \in Nat /\ Cardinality(Counted(j)) \in Nat
        /\ Cardinality(Counted(j - 1)) <= Cardinality(Counted(j))
        /\ 1 + Cardinality(Counted(j)) <= outputColNum
        /\ outputColNum \in Nat
        /\ j - 1 \in 0 .. Len(inputs)
    <3>1. j \in 0 .. Len(inputs) /\ j - 1 \in 0 .. Len(inputs) /\ 1 .. j - 1 \subseteq 1 .. j
      BY <1>0 DEF Tables
    <3>2. Counted(j - 1) \subseteq Counted(j)
      BY <3>1 DEF Counted, Columns
    <3>3. IsFiniteSet(Counted(j))
      BY <1>0, <3>1, ColNumFacts
    <3>4. Cardinality(Counted(j - 1)) <= Cardinality(Counted(j))
      BY <3>2, <3>3, FS_Subset
    <3> QED
      BY <1>0, <3>1, <3>4, ColNumFacts
  <2>2. colPtrHead <= 1 + Cardinality(Counted(j - 1)) /\ colPtrHead \in Nat
    BY <1>0, <1>1, <2>1 DEF CauseInv, PtrInv, TypeOK
  <2>3. hits = {} => j > 1 /\ colPtrHead = colPtrTail
    <3>1. hits = {} => j # 1
      BY <1>0, <1>1 DEF NotInFirst
    <3> QED
      BY <1>0, <1>1, <3>1 DEF CauseInv, PtrInv
  <2>4. CASE hits = {}
    BY <1>0, <2>1, <2>2, <2>3, <2>4
  <2>5. CASE hits # {}
    <3>1. HasKey(j)
      BY <1>0, <2>5, TableFacts DEF Hits, Reached
    <3>2. Width(j) \in Nat
      BY <1>0, TableFacts
    <3>3. Cardinality(Counted(j)) >= Cardinality(Counted(j - 1)) + Width(j) - 1
      BY <1>0, <1>1, <3>1, CountedStep
    <3> QED
      BY <2>1, <2>2, <2>5, <3>2, <3>3
  <2> QED
    BY <2>4, <2>5
<1>2. CASE hits # {} /\ Width(j) > 1 /\ tail > outputColNum
  <2>1. End("ub")
    BY <1>2 DEF Fill
  <2>2. tail \in Int /\ outputColNum \in Int
    BY <1>0, ColNumFacts, TableFacts DEF TypeOK
  <2>3. Ambiguous \/ NotInFirst
    BY <1>1, <1>2, <2>2
  <2>4. NotInFirst' <=> NotInFirst
    BY <2>1, NotInFirstSame DEF End
  <2> QED
    BY <1>0, <2>1, <2>3, <2>4, SameInputs
       DEF End, CauseInv, OverflowHasCause, PtrInv, HeadInv
<1>3. CASE End("error")
  BY <1>3 DEF End, CauseInv, OverflowHasCause, PtrInv, HeadInv
<1>4. CASE /\ colPtrTail' = tail /\ colPtrHead' = tail
           /\ Goto("fill", i, j + 1)
  <2>1. NotInFirst' <=> NotInFirst
    BY <1>0, FillKeys, NotInFirstSame
  <2>2. PtrInv'
    <3> SUFFICES ASSUME ~Ambiguous, ~NotInFirst
                 PROVE  /\ j + 1 # 1 /\ j + 1 > 1 /\ j + 1 - 1 = j
                        /\ tail <= 1 + Cardinality(Counted(j))
      BY <1>0, <1>4, <2>1, SameInputs DEF PtrInv, Goto
    <3> QED
      BY <1>0, <1>1
  <2> QED
    BY <1>4, <2>2 DEF Goto, CauseInv, OverflowHasCause, HeadInv
<1> QED
  BY <1>2, <1>3, <1>4 DEF Fill

\* Without ambiguous names, no more names are written than columns are counted.
LEMMA NamesFit ==
  ASSUME TypeOK, ~Ambiguous
  PROVE  NamesWritten <= outputColNum
<1> DEFINE named == {c \in Columns(Len(inputs)) :
                       c[1] \in NamedTables /\ c[2] # Location(c[1])}
<1>1. ASSUME NEW c \in named PROVE c \in Counted(Len(inputs))
  <2>1. PICK t \in Tables : c \in {t} \X (1 .. Width(t))
    BY DEF Columns, Tables
  <2>2. c[1] = t /\ c[2] \in 1 .. Width(t) /\ Width(t) \in Nat /\ t \in Nat
    BY <2>1, TableFacts
  <2>3. HasKey(t)
    <3>1. t \in 1 .. t /\ t \in NamedTables
      BY <1>1, <2>2 DEF Tables
    <3> QED
      BY <2>2, <3>1 DEF NamedTables
  <2> QED
    BY <1>1, <2>2, <2>3 DEF Ambiguous, Counted
<1>2. named \subseteq Counted(Len(inputs))
  BY <1>1
<1>3. Len(inputs) \in 0 .. Len(inputs)
  BY DEF TypeOK
<1> HIDE DEF named
<1>4. Cardinality(named) <= Cardinality(Counted(Len(inputs))) /\ Cardinality(named) \in Nat
  BY <1>2, <1>3, ColNumFacts, FS_Subset, FS_CardinalityType
<1>5. NamesWritten = 1 + Cardinality(named)
  BY DEF NamesWritten, named
<1> QED
  BY <1>3, <1>4, <1>5, ColNumFacts

LEMMA NamesNat ==
  ASSUME TypeOK
  PROVE  NamesWritten \in Nat
<1>1. Len(inputs) \in 0 .. Len(inputs)
  BY DEF TypeOK
<1>2. IsFiniteSet(Columns(Len(inputs)))
  BY <1>1, ColumnsFinite
<1> DEFINE named == {c \in Columns(Len(inputs)) :
                       c[1] \in NamedTables /\ c[2] # Location(c[1])}
<1>3. Cardinality(named) \in Nat
  BY <1>2, FS_Subset, FS_CardinalityType
<1> QED
  BY <1>3 DEF NamesWritten

LEMMA CauseStep ==
  ASSUME IInv, CauseInv, [Next]_vars
  PROVE  CauseInv'
<1>1. CASE Fill
  BY <1>1, FillCause
<1>2. CASE GrowNext \/ FillNext
  <2>1. Cardinality(Counted(0)) \in Nat /\ Cardinality(Counted(0))' = Cardinality(Counted(0))
    <3>1. 0 \in 0 .. Len(inputs) /\ UNCHANGED in
      BY <1>2 DEF IInv, TypeOK, GrowNext, FillNext
    <3> QED
      BY <3>1, ColNumFacts, SameInputs DEF IInv
  <2>2. pc' = "fill" => j' = 1 /\ colPtrHead' = 1
    BY <1>2 DEF GrowNext, FillNext, Goto, CauseInv, HeadInv, colPtrs
  <2>3. PtrInv'
    <3> SUFFICES ASSUME pc' = "fill"
                 PROVE  /\ j' = 1 /\ colPtrHead' = 1
                        /\ 1 <= 1 + Cardinality(Counted(0))'
      BY DEF PtrInv
    <3> QED
      BY <2>1, <2>2
  <2> QED
    BY <1>2, <2>3 DEF GrowNext, FillNext, Goto, CauseInv, HeadInv, OverflowHasCause, colPtrs
<1>3. CASE Names
  <2>1. pc' = "ub" => Ambiguous
    <3>1. (NamesWritten \in Int /\ outputColNum \in Int) \/ Ambiguous
      BY ColNumFacts, NamesNat DEF IInv
    <3> QED
      BY <1>3, <3>1, NamesFit DEF Names, End, Goto, IInv
  <2> QED
    BY <1>3, <2>1, SameInputs
       DEF Names, End, Goto, CauseInv, HeadInv, PtrInv, OverflowHasCause
<1>4. CASE Refuse \/ Start \/ Grow \/ Output
  BY <1>4 DEF Refuse, Start, Grow, Output, End, Goto, CauseInv, HeadInv, PtrInv,
              OverflowHasCause, colPtrs
<1>5. CASE UNCHANGED vars
  <2>1. UNCHANGED <<in, tmp, pc, i, j, colPtrHead, colPtrTail>>
    BY <1>5 DEF vars, colPtrs
  <2>2. NotInFirst' <=> NotInFirst
    BY <2>1, NotInFirstSame
  <2>3. \A n : Cardinality(Counted(n))' = Cardinality(Counted(n))
    BY <2>1, SameInputs
  <2>4. Len(inputs)' = Len(inputs)
    BY <2>1 DEF in
  <2> QED
    BY <2>1, <2>2, <2>3, <2>4, SameInputs DEF CauseInv, HeadInv, PtrInv, OverflowHasCause
<1> QED
  BY <1>1, <1>2, <1>3, <1>4, <1>5 DEF Next

\* A write goes astray only if a name is ambiguous or the first table lacks a
\* key of another one (libCB.lua: colPtrTail is not reset with colPtrHead).
THEOREM OverflowsHaveCauses == Spec => []OverflowHasCause
<1>1. Init => CauseInv
  BY DEF Init, CauseInv, OverflowHasCause, PtrInv, HeadInv
<1>2. CauseInv => OverflowHasCause
  BY DEF CauseInv
<1> QED
  BY <1>1, <1>2, CauseStep, SpecIInv, PTL DEF Spec

-----------------------------------------------------------------------------
(* What can be joined *)

\* The key of row r of table t.
KeyOf(t, r) == value(KeyCell(t, r))

\* In joinable inputs only one column is named like the key of its table.
LEMMA OneKeyColumn ==
  ASSUME TypeOK, Joinable, NEW t \in Tables
  PROVE  /\ HasKey(t) /\ KeyByColumn(t) = Location(t)
         /\ Location(t) \in 1 .. Width(t)
         /\ \A c \in 1 .. Width(t) :
              IsKeyName(inputs[t].cols[c]) <=> c = Location(t)
<1>0. /\ Width(t) \in Nat /\ HasKey(t) /\ Location(t) \in 1 .. Width(t)
      /\ Len(inputs) \in Nat /\ Len(inputs) = Len(primaryKeys)
  BY TableFacts DEF Joinable, TypeOK
<1>1. inputs[t].cols[Location(t)] = primaryKeys[t]
  <2>1. ColumnsNamed(t, primaryKeys[t]) # {}
    BY <1>0 DEF HasKey
  <2>2. ColumnsNamed(t, primaryKeys[t]) \in SUBSET (1 .. Width(t))
    BY DEF ColumnsNamed
  <2>3. Location(t) \in ColumnsNamed(t, primaryKeys[t])
    BY <1>0, <2>1, <2>2, GreatestIn DEF Location
  <2> QED
    BY <2>3 DEF ColumnsNamed
<1>2. IsKeyName(primaryKeys[t])
  BY <1>0 DEF IsKeyName, Tables
<1>3. ASSUME NEW c \in 1 .. Width(t), IsKeyName(inputs[t].cols[c])
      PROVE  c = Location(t)
  <2>1. <<t, c>> \in Columns(Len(inputs))
    BY DEF Columns, Tables
  <2> QED
    BY <1>0, <1>3, <2>1 DEF Joinable, Ambiguous
<1>4. ColumnsNamed(t, primaryKeys[t]) = {Location(t)}
  BY <1>0, <1>1, <1>2, <1>3 DEF ColumnsNamed
<1>5. Least({Location(t)}) = Location(t)
  <2>1. {Location(t)} \in SUBSET Nat /\ {Location(t)} # {}
    BY <1>0
  <2> QED
    BY ONLY <2>1, LeastIn
<1> QED
  BY <1>0, <1>1, <1>2, <1>3, <1>4, <1>5 DEF KeyByColumn

\* keyBy finds under each number up to the height of a joinable table the only
\* row with that key.
LEMMA KeyByFacts ==
  ASSUME TypeOK, Joinable, NEW t \in Tables
  PROVE  /\ Height(t) \in Nat
         /\ \A r \in 1 .. Height(t) : KeyOf(t, r) \in 1 .. Height(t)
         /\ \A q, r \in 1 .. Height(t) : KeyOf(t, q) = KeyOf(t, r) => q = r
         /\ DOMAIN keyBy(t) = 1 .. Height(t)
         /\ \A h \in 1 .. Height(t) :
              keyBy(t)[h] \in 1 .. Height(t) /\ KeyOf(t, keyBy(t)[h]) = h
         /\ Size(t) = Height(t)
         /\ Reached(t) = 1 .. Height(t)
<1> DEFINE rows == 1 .. Height(t)
           f == [r \in rows |-> KeyOf(t, r)]
           hash(r) == inputs[t].rows[r][KeyByColumn(t)]
           rowsOf(h) == {r \in KeyByRows(t) : hash(r) = h}
<1>0. Height(t) \in Nat /\ HasKey(t) /\ KeyByColumn(t) = Location(t)
  BY OneKeyColumn, TableFacts
<1>1. {KeyOf(t, r) : r \in rows} = rows
  BY DEF Joinable, KeysCountRows, KeyOf
<1>2. f \in Injection(rows, rows)
  <2>1. f \in Surjection(rows, rows)
    BY <1>1 DEF Surjection
  <2>2. IsFiniteSet(rows)
    BY <1>0, FS_Interval
  <2> HIDE DEF f, rows
  <2> QED
    BY <2>1, <2>2, FS_SurjSameCardinalityImpliesInj
<1>3. \A q, r \in rows : KeyOf(t, q) = KeyOf(t, r) => q = r
  BY <1>2 DEF Injection, IsInjective
<1>4. \A r \in rows : hash(r) = KeyOf(t, r)
  BY <1>0 DEF KeyOf, value, KeyCell
<1>5. KeyByRows(t) = rows
  <2>1. ASSUME NEW r \in rows PROVE hash(r) # Null
    <3>1. hash(r) \in rows
      BY <1>1, <1>4
    <3> QED
      BY <3>1, CombineAssumption
  <2>2. \A r \in rows : 1 .. r \subseteq rows
    BY <1>0
  <2> QED
    BY <2>1, <2>2 DEF KeyByRows
<1>6. /\ DOMAIN keyBy(t) = {hash(r) : r \in KeyByRows(t)}
      /\ \A h \in DOMAIN keyBy(t) : keyBy(t)[h] = Greatest(rowsOf(h))
  BY <1>0 DEF keyBy
<1>7. DOMAIN keyBy(t) = rows
  BY <1>1, <1>4, <1>5, <1>6
<1>8. ASSUME NEW h \in rows
      PROVE  keyBy(t)[h] \in rows /\ KeyOf(t, keyBy(t)[h]) = h
  <2>1. rowsOf(h) # {} /\ rowsOf(h) \in SUBSET rows
    BY <1>1, <1>4, <1>5
  <2>2. Greatest(rowsOf(h)) \in rowsOf(h)
    BY <1>0, <2>1, GreatestIn
  <2>3. keyBy(t)[h] = Greatest(rowsOf(h))
    BY <1>6, <1>7
  <2> QED
    BY <1>4, <1>5, <2>2, <2>3
<1>9. Size(t) = Height(t)
  BY <1>0, <1>7, FS_Interval DEF Size
<1>10. Reached(t) = rows
  <2>1. \A n \in rows : 1 .. n \subseteq rows
    BY <1>0
  <2> QED
    BY <1>7, <1>9, <2>1 DEF Reached
<1>11. \A r \in rows : KeyOf(t, r) \in rows
  BY <1>1
<1> QED
  BY <1>0, <1>3, <1>7, <1>8, <1>9, <1>10, <1>11

\* Joinable tables do not grow.
LEMMA HeightsFall ==
  ASSUME TypeOK, Joinable, NEW s \in Tables, NEW t \in Tables, s <= t
  PROVE  Height(t) <= Height(s)
<1> DEFINE S == {u \in Tables : s <= u /\ ~(Height(u) <= Height(s))}
<1>0. Tables \subseteq Nat \ {0} /\ \A u \in Tables : Height(u) \in Nat
  BY TableFacts DEF Tables, TypeOK
<1>1. SUFFICES ASSUME S # {} PROVE FALSE
  OBVIOUS
<1>2. PICK u \in S : \A v \in S : u <= v
  <2>1. S \in SUBSET Nat
    BY <1>0
  <2> HIDE DEF S
  <2> QED
    BY <1>1, <2>1, LeastIn
<1>3. u # s /\ u \in Tables /\ u \in Nat /\ s \in Nat /\ s < u /\ u - 1 < u
  BY <1>0, <1>2
<1>4. u # 1 /\ u - 1 \in Tables /\ s <= u - 1
  BY <1>0, <1>3 DEF Tables, TypeOK
<1>5. u - 1 \notin S
  BY <1>2, <1>3
<1>6. Height(u - 1) <= Height(s)
  BY <1>4, <1>5
<1>7. Height(u) <= Height(u - 1)
  BY <1>3, <1>4 DEF Joinable
<1> QED
  BY <1>0, <1>2, <1>3, <1>4, <1>6, <1>7

\* The columns of the tables stand one behind the other, up to the last one of
\* the result.
LEMMA FirstColumnFacts ==
  ASSUME TypeOK, Joinable
  PROVE  /\ 1 \in Tables /\ FirstColumn(1) = 1
         /\ \A t \in Tables :
              /\ FirstColumn(t) \in Nat \ {0} /\ Width(t) \in Nat \ {0}
              /\ FirstColumn(t + 1) = FirstColumn(t) + Width(t) - 1
              /\ FirstColumn(t + 1) <= outputColNum
              /\ \A u \in Tables : t < u => FirstColumn(t + 1) <= FirstColumn(u)
<1>0. Len(inputs) \in Nat /\ 1 \in Tables
  BY DEF Joinable, Tables, TypeOK
<1>1. ASSUME NEW n \in 0 .. Len(inputs)
      PROVE  /\ IsFiniteSet(Columns(n)) /\ Cardinality(Columns(n)) \in Nat
             /\ FirstColumn(n + 1) = 1 + Cardinality(Counted(n))
             /\ FirstColumn(n + 1) = 1 + Cardinality(Columns(n)) - n
             /\ Cardinality(Counted(n)) \in Nat /\ IsFiniteSet(Counted(n))
             /\ FirstColumn(n + 1) <= outputColNum
  <2> DEFINE keyColumn == [t \in 1 .. n |-> <<t, Location(t)>>]
             keys == {<<t, Location(t)>> : t \in 1 .. n}
  <2>1. /\ IsFiniteSet(Columns(n)) /\ Cardinality(Columns(n)) \in Nat
        /\ IsFiniteSet(Counted(n)) /\ Cardinality(Counted(n)) \in Nat
        /\ 1 + Cardinality(Counted(n)) <= outputColNum
    BY ColumnsFinite, ColNumFacts, FS_CardinalityType
  <2>2. 1 .. n \subseteq Tables /\ n \in Nat
    BY <1>0 DEF Tables
  <2>3. IsFiniteSet(keys) /\ Cardinality(keys) = n
    <3>1. keyColumn \in Surjection(1 .. n, keys) /\ keyColumn \in Injection(1 .. n, keys)
      BY DEF Injection, IsInjective, Surjection
    <3>2. IsFiniteSet(1 .. n) /\ Cardinality(1 .. n) = n
      BY <2>2, FS_Interval
    <3> HIDE DEF keyColumn, keys
    <3> QED
      BY <3>1, <3>2, FS_Surjection
  <2>4. Columns(n) = Counted(n) \cup keys /\ Counted(n) \cap keys = {}
    <3>1. ASSUME NEW c \in Columns(n)
          PROVE  /\ c \in keys <=> IsKeyName(inputs[c[1]].cols[c[2]])
      <4>1. PICK t \in 1 .. n : c \in {t} \X (1 .. Width(t))
        BY DEF Columns
      <4>2. c = <<t, c[2]>> /\ c[2] \in 1 .. Width(t) /\ t \in Tables
        BY <2>2, <4>1
      <4>3. IsKeyName(inputs[t].cols[c[2]]) <=> c[2] = Location(t)
        BY <4>2, OneKeyColumn
      <4>4. c \in keys <=> c[2] = Location(t)
        BY <4>2
      <4> QED
        BY <4>2, <4>3, <4>4
    <3>2. keys \subseteq Columns(n)
      <4>1. \A t \in 1 .. n : Location(t) \in 1 .. Width(t)
        BY <2>2, OneKeyColumn
      <4> QED
        BY <4>1 DEF Columns
    <3> QED
      BY <3>1, <3>2 DEF Counted
  <2> HIDE DEF keys
  <2>5. Cardinality(Columns(n)) = Cardinality(Counted(n)) + n
    <3>1. Cardinality(Counted(n) \cup keys)
            = Cardinality(Counted(n)) + Cardinality(keys) - Cardinality({})
      BY <2>1, <2>3, <2>4, FS_Union
    <3> QED
      BY <2>1, <2>2, <2>3, <2>4, <3>1, FS_EmptySet
  <2>6. FirstColumn(n + 1) = 1 + Cardinality(Columns(n)) - n
    <3>1. n + 1 - 1 = n
      BY <2>2
    <3> QED
      BY <3>1 DEF FirstColumn
  <2> QED
    BY <2>1, <2>2, <2>5, <2>6
<1>2. FirstColumn(1) = 1
  <2>1. Columns(0) = {}
    BY DEF Columns
  <2> QED
    BY <2>1, FS_EmptySet DEF FirstColumn
<1>3. ASSUME NEW t \in Tables
      PROVE  /\ FirstColumn(t) \in Nat \ {0} /\ Width(t) \in Nat \ {0}
             /\ FirstColumn(t + 1) = FirstColumn(t) + Width(t) - 1
             /\ FirstColumn(t + 1) <= outputColNum
             /\ \A u \in Tables : t < u => FirstColumn(t + 1) <= FirstColumn(u)
  <2> DEFINE own == {t} \X (1 .. Width(t))
  <2>0. /\ t \in Nat \ {0} /\ Width(t) \in Nat \ {0}
        /\ t - 1 \in 0 .. Len(inputs) /\ t \in 0 .. Len(inputs)
        /\ t - 1 + 1 = t
    <3>1. Location(t) \in 1 .. Width(t)
      BY OneKeyColumn
    <3> QED
      BY <1>0, <3>1, TableFacts DEF Tables
  <2>1. Columns(t) = Columns(t - 1) \cup own /\ Columns(t - 1) \cap own = {}
    <3>1. 1 .. t = (1 .. t - 1) \cup {t} /\ t \notin 1 .. t - 1
      BY <2>0
    <3> HIDE DEF own
    <3>2. Columns(t) = Columns(t - 1) \cup own
      BY <3>1 DEF Columns, own
    <3>3. \A c \in Columns(t - 1) : c[1] # t
      BY <3>1 DEF Columns
    <3> QED
      BY <3>2, <3>3 DEF own
  <2>2. IsFiniteSet(own) /\ Cardinality(own) = Width(t)
    <3>1. IsFiniteSet(1 .. Width(t)) /\ Cardinality(1 .. Width(t)) = Width(t)
      BY <2>0, FS_Interval
    <3>2. IsFiniteSet({t}) /\ Cardinality({t}) = 1
      BY FS_Singleton, Zenon
    <3>3. IsFiniteSet({t} \X (1 .. Width(t)))
          /\ Cardinality({t} \X (1 .. Width(t))) = 1 * Cardinality(1 .. Width(t))
      BY <3>1, <3>2, FS_Product
    <3> QED
      BY <2>0, <3>1, <3>3
  <2> HIDE DEF own
  <2>3. /\ FirstColumn(t) = 1 + Cardinality(Columns(t - 1)) - (t - 1)
        /\ FirstColumn(t) = 1 + Cardinality(Counted(t - 1))
        /\ FirstColumn(t + 1) = 1 + Cardinality(Columns(t)) - t
        /\ FirstColumn(t + 1) <= outputColNum
        /\ Cardinality(Columns(t - 1)) \in Nat /\ Cardinality(Columns(t)) \in Nat
        /\ IsFiniteSet(Columns(t - 1))
        /\ Cardinality(Counted(t - 1)) \in Nat
    BY <1>1, <2>0
  <2>4. Cardinality(Columns(t)) = Cardinality(Columns(t - 1)) + Width(t)
    <3>1. Cardinality(Columns(t - 1) \cup own)
            = Cardinality(Columns(t - 1)) + Cardinality(own) - Cardinality({})
      BY <2>1, <2>2, <2>3, FS_Union
    <3> QED
      BY <2>0, <2>1, <2>2, <2>3, <3>1, FS_EmptySet
  <2>5. ASSUME NEW u \in Tables, t < u
        PROVE  FirstColumn(t + 1) <= FirstColumn(u)
    <3>1. u - 1 \in 0 .. Len(inputs) /\ u - 1 + 1 = u /\ 1 .. t \subseteq 1 .. u - 1
      BY <1>0, <2>0, <2>5 DEF Tables
    <3>2. Counted(t) \subseteq Counted(u - 1)
      BY <3>1 DEF Counted, Columns
    <3>3. /\ FirstColumn(t + 1) = 1 + Cardinality(Counted(t))
          /\ FirstColumn(u) = 1 + Cardinality(Counted(u - 1))
          /\ Cardinality(Counted(t)) \in Nat /\ Cardinality(Counted(u - 1)) \in Nat
          /\ IsFiniteSet(Counted(u - 1))
      BY <1>1, <2>0, <3>1
    <3>4. Cardinality(Counted(t)) <= Cardinality(Counted(u - 1))
      BY <3>2, <3>3, FS_Subset
    <3> QED
      BY <3>3, <3>4
  <2>6. FirstColumn(t) \in Nat \ {0}
    BY ONLY <2>3
  <2>7. FirstColumn(t + 1) = FirstColumn(t) + Width(t) - 1
    <3>1. ASSUME NEW a \in Nat, NEW w \in Nat, NEW n \in Nat
          PROVE  1 + (a + w) - n = (1 + a - (n - 1)) + w - 1
      OBVIOUS
    <3>2. t \in Nat /\ Width(t) \in Nat
      BY <2>0
    <3> QED
      BY ONLY <2>3, <2>4, <3>1, <3>2
  <2> QED
    BY <2>0, <2>3, <2>5, <2>6, <2>7
<1> QED
  BY <1>0, <1>2, <1>3

-----------------------------------------------------------------------------
(* The join of joinable inputs *)

\* The key of row k of the first table is in table t too.
Found(t, k) == KeyOf(1, k) <= Height(t)

\* Row k of the result after the first n - 1 tables have been written into it:
\* its key, the columns of the row of each of them that has its key, and
\* nothing else.
RowUpTo(k, n) ==
  /\ tmp[k][0] = KeyCell(1, k)
  /\ \A t \in Tables : \A d \in 1 .. Width(t) - 1 :
       tmp[k][FirstColumn(t) + d - 1] =
         IF t < n /\ Found(t, k)
           THEN <<t, keyBy(t)[KeyOf(1, k)], DataColumn(t, d)>>
           ELSE nullptr

\* Joinable tables: no phase goes wrong, no row is added, and the rows are
\* filled one after the other, table by table.
JoinInv ==
  Joinable =>
    /\ pc \notin {"refused", "error", "ub"}
    /\ pc # "start" => Len(tmp) = Height(1)
    /\ pc = "grow" => \A k \in 1 .. Height(1) : RowUpTo(k, 1)
    /\ pc = "fill" =>
         /\ \A k \in 1 .. Height(1) :
              RowUpTo(k, IF k < i THEN Len(inputs) + 1 ELSE IF k = i THEN j ELSE 1)
         /\ i \in 1 .. Height(1) /\ j \in Tables /\ Found(j, i) =>
              colPtrHead = FirstColumn(j)
    /\ pc \in {"output", "names", "done"} =>
         \A k \in 1 .. Height(1) : RowUpTo(k, Len(inputs) + 1)
    /\ pc \in {"names", "done"} => output = tmp
    /\ pc = "done" => info = "set"

LEMMA JoinableSame ==
  ASSUME UNCHANGED in
  PROVE  /\ Joinable' = Joinable
         /\ inputs' = inputs
         /\ \A t : Height(t)' = Height(t)
         /\ \A t, r : KeyOf(t, r)' = KeyOf(t, r)
         /\ \A t, k : Found(t, k)' = Found(t, k)
         /\ \A t : FirstColumn(t)' = FirstColumn(t)
         /\ \A t, d : DataColumn(t, d)' = DataColumn(t, d)
<1>1. inputs' = inputs /\ primaryKeys' = primaryKeys
  BY DEF in
<1>2. /\ \A t : Height(t)' = Height(t)
      /\ \A t, r : KeyOf(t, r)' = KeyOf(t, r)
      /\ \A t, k : Found(t, k)' = Found(t, k)
      /\ \A t : FirstColumn(t)' = FirstColumn(t)
      /\ \A t, d : DataColumn(t, d)' = DataColumn(t, d)
  BY <1>1, SameInputs DEF Height, KeyOf, Found, FirstColumn, Columns, Width, DataColumn
<1>3. \A t : KeysCountRows(t)' = KeysCountRows(t)
  BY <1>1, SameInputs DEF KeysCountRows, Height
<1>4. SomeCellIsNil' = SomeCellIsNil
  BY <1>1, SameInputs DEF SomeCellIsNil, Height
<1>5. Joinable' = Joinable
  BY <1>1, <1>2, <1>3, <1>4, SameInputs DEF Joinable
<1> QED
  BY <1>1, <1>2, <1>5

\* A row stays as far as it has come while its cells stay.
LEMMA RowSame ==
  ASSUME UNCHANGED in, NEW k, tmp'[k] = tmp[k], NEW n, NEW m,
         \A t \in Tables : t < n <=> t < m, RowUpTo(k, n)
  PROVE  RowUpTo(k, m)'
<1>0. Tables' = Tables /\ \A t : Width(t)' = Width(t) /\ KeyCell(1, k)' = KeyCell(1, k)
                              /\ keyBy(t)' = keyBy(t)
  BY SameInputs
<1> QED
  BY <1>0, JoinableSame DEF RowUpTo

\* What table t has under n is the key of row k if that key is n.
LEMMA SameKey ==
  ASSUME TypeOK, Joinable, NEW t \in Tables, NEW n \in 1 .. Height(t),
         NEW k \in 1 .. Height(1), tmp[k][0] = KeyCell(1, k)
  PROVE  Same(t, n, k) <=> n = KeyOf(1, k)
<1>1. KeyOf(t, keyBy(t)[n]) = n
  BY KeyByFacts
<1> QED
  BY <1>1 DEF Same, KeyOf

LEMMA JoinStart ==
  ASSUME TypeOK, LoopInv, JoinInv, Refuse \/ Start
  PROVE  JoinInv'
<1>0. UNCHANGED in
  BY DEF Refuse, Start, End
<1> SUFFICES ASSUME Joinable PROVE JoinInv'
  BY <1>0, JoinableSame DEF JoinInv
<1>1. Start /\ ~(inputs = <<>> \/ SomeCellIsNil)
  BY DEF Joinable, Refuse, Start
<1>2. tmp' = FirstKeys /\ pc' = "grow"
  BY <1>1 DEF Start, Goto
<1>3. /\ 1 \in Tables /\ Height(1) \in Nat /\ HasKey(1) /\ KeyByColumn(1) = Location(1)
      /\ Location(1) \in Nat
  BY FirstColumnFacts, OneKeyColumn, KeyByFacts
<1>4. FirstKeys = [r \in 1 .. Height(1) |-> NewRow(KeyCell(1, r))]
  BY <1>3 DEF FirstKeys, KeyCell
<1>5. Len(tmp') = Height(1)
  BY <1>2, <1>3, <1>4
<1>6. ASSUME NEW k \in 1 .. Height(1) PROVE RowUpTo(k, 1)'
  <2>1. tmp'[k] = NewRow(KeyCell(1, k)) /\ KeyCell(1, k) \in Cell
    BY <1>2, <1>3, <1>4 DEF KeyCell, Cell
  <2>2. /\ tmp'[k][0] = KeyCell(1, k)
        /\ \A p \in 1 .. outputColNum - 1 : tmp'[k][p] = nullptr
    BY <2>1, NewRowFacts
  <2>3. ASSUME NEW t \in Tables, NEW d \in 1 .. Width(t) - 1
        PROVE  tmp'[k][FirstColumn(t) + d - 1] = nullptr
    <3>1. /\ FirstColumn(t) \in Nat \ {0} /\ Width(t) \in Nat \ {0}
          /\ FirstColumn(t) + Width(t) - 1 <= outputColNum /\ outputColNum \in Nat
      BY FirstColumnFacts, ColNumFacts
    <3>2. FirstColumn(t) + d - 1 \in 1 .. outputColNum - 1
      BY <3>1
    <3> QED
      BY <2>2, <3>2
  <2>4. \A t \in Tables : ~(t < 1)
    BY DEF Tables, TypeOK
  <2> QED
    BY <1>0, <2>2, <2>3, <2>4, SameInputs, JoinableSame DEF RowUpTo
<1> QED
  BY <1>0, <1>2, <1>5, <1>6, JoinableSame DEF JoinInv

\* Every key of a later table is the key of a row already.
LEMMA JoinGrow ==
  ASSUME TypeOK, LoopInv, JoinInv, Grow
  PROVE  JoinInv'
<1>0. UNCHANGED in
  BY DEF Grow, End
<1> SUFFICES ASSUME Joinable PROVE JoinInv'
  BY <1>0, JoinableSame DEF JoinInv
<1>1. /\ pc = "grow" /\ i \in Tables /\ 1 \in Tables /\ 1 <= i
      /\ Height(i) \in Nat /\ Height(1) \in Nat
      /\ j \in 1 .. Height(i) /\ DOMAIN keyBy(i) = 1 .. Height(i)
      /\ Len(tmp) = Height(1) /\ \A k \in 1 .. Height(1) : RowUpTo(k, 1)
  BY KeyByFacts, FirstColumnFacts DEF Grow, LoopInv, JoinInv, TypeOK, Tables
<1>2. Height(i) <= Height(1)
  BY <1>1, HeightsFall
<1> DEFINE k == keyBy(1)[j]
<1>3. k \in 1 .. Height(1) /\ KeyOf(1, k) = j
  BY <1>1, <1>2, KeyByFacts
<1> HIDE DEF k
<1>4. Same(i, j, k)
  BY <1>1, <1>3, SameKey DEF RowUpTo
<1>5. tmp' = tmp /\ pc' = "grow"
  BY <1>1, <1>3, <1>4 DEF Grow, Goto
<1>6. \A m \in 1 .. Height(1) : RowUpTo(m, 1)'
  BY <1>0, <1>1, <1>5, RowSame
<1> QED
  BY <1>0, <1>1, <1>5, <1>6, JoinableSame DEF JoinInv

\* The rows that a row is found under in a joinable table: one or none.
LEMMA JoinHits ==
  ASSUME TypeOK, Joinable, NEW t \in Tables, NEW k \in 1 .. Height(1),
         tmp[k][0] = KeyCell(1, k)
  PROVE  /\ Hits(t, k) = IF Found(t, k) THEN {KeyOf(1, k)} ELSE {}
         /\ Hits(t, k) # {} => Greatest(Hits(t, k)) = KeyOf(1, k)
<1>1. 1 \in Tables /\ Height(t) \in Nat /\ Height(1) \in Nat /\ KeyOf(1, k) \in 1 .. Height(1)
      /\ Reached(t) = 1 .. Height(t)
  BY FirstColumnFacts, KeyByFacts
<1>2. \A n \in 1 .. Height(t) : Same(t, n, k) <=> n = KeyOf(1, k)
  BY SameKey
<1>3. Hits(t, k) = IF Found(t, k) THEN {KeyOf(1, k)} ELSE {}
  BY <1>1, <1>2 DEF Hits, Found
<1>4. Greatest({KeyOf(1, k)}) = KeyOf(1, k)
  <2>1. {KeyOf(1, k)} \in SUBSET (1 .. Height(1)) /\ {KeyOf(1, k)} # {}
    BY <1>1
  <2> QED
    BY ONLY <1>1, <2>1, GreatestIn
<1> QED
  BY <1>3, <1>4

\* The row of a table is written to its own columns, behind those of the
\* tables before it, and to no others.
LEMMA JoinWritten ==
  ASSUME TypeOK, Joinable, NEW k \in 1 .. Height(1), k = i, NEW n, n = j, Len(tmp) = Height(1), j \in Tables,
         Found(j, i), RowUpTo(i, j),
         colPtrHead = FirstColumn(j),
         UNCHANGED in,
         tmp' = [tmp EXCEPT ![i] = Written(i, j, keyBy(j)[KeyOf(1, i)], colPtrHead)]
  PROVE  RowUpTo(k, n + 1)'
<1> DEFINE r == keyBy(j)[KeyOf(1, i)]
           rows == [0 .. outputColNum - 1 -> Cell \cup {nullptr}]
           row == Written(i, j, r, colPtrHead)
<1>0. /\ tmp \in Seq(rows) /\ i \in 1 .. Len(tmp) /\ tmp[i] \in rows
      /\ outputColNum \in Nat \ {0} /\ j \in Nat
  BY ColNumFacts DEF TypeOK, Tables
<1>1. tmp'[k] = row
  <2> HIDE DEF row, rows
  <2> QED
    BY <1>0 DEF row
<1>2. row = [p \in 0 .. outputColNum - 1 |->
               IF p \in FirstColumn(j) .. FirstColumn(j) + Width(j) - 2
                 THEN <<j, r, DataColumn(j, p - FirstColumn(j) + 1)>>
                 ELSE tmp[i][p]]
  BY <1>0 DEF Written
<1> HIDE DEF r, row, rows
<1>3. FirstColumn(j) \in Nat \ {0} /\ Width(j) \in Nat \ {0}
  BY FirstColumnFacts
<1>4. tmp'[k][0] = KeyCell(1, k)
  <2>1. 0 \in 0 .. outputColNum - 1
        /\ 0 \notin FirstColumn(j) .. FirstColumn(j) + Width(j) - 2
    BY <1>0, <1>3
  <2> QED
    BY <1>1, <1>2, <2>1 DEF RowUpTo
<1>5. ASSUME NEW t \in Tables, NEW d \in 1 .. Width(t) - 1
      PROVE  tmp'[k][FirstColumn(t) + d - 1] =
               IF t < n + 1 /\ Found(t, k)
                 THEN <<t, keyBy(t)[KeyOf(1, k)], DataColumn(t, d)>>
                 ELSE nullptr
  <2> DEFINE p == FirstColumn(t) + d - 1
  <2>0. /\ FirstColumn(t) \in Nat \ {0} /\ Width(t) \in Nat \ {0} /\ t \in Nat
        /\ FirstColumn(t) + Width(t) - 1 <= outputColNum
    BY FirstColumnFacts DEF Tables, TypeOK
  <2>1. p \in 0 .. outputColNum - 1
    BY <1>0, <2>0
  <2>2. CASE t = j
    <3>1. /\ p \in FirstColumn(j) .. FirstColumn(j) + Width(j) - 2
          /\ p - FirstColumn(j) + 1 = d
      BY <2>0, <2>2
    <3>2. tmp'[k][p] = <<j, r, DataColumn(j, d)>>
      BY <1>1, <1>2, <2>1, <3>1
    <3>3. t < j + 1
      BY <2>0, <2>2
    <3> QED
      BY <2>2, <3>2, <3>3 DEF r
  <2>3. CASE t # j
    <3>1. p \notin FirstColumn(j) .. FirstColumn(j) + Width(j) - 2
      <4>0. d \in 1 .. Width(t) - 1
        OBVIOUS
      <4>1. CASE t < j
        <5>1. FirstColumn(t) + Width(t) - 1 <= FirstColumn(j)
          BY <4>1, FirstColumnFacts
        <5>2. p \in Int /\ p < FirstColumn(j)
          BY ONLY <1>3, <2>0, <4>0, <5>1
        <5> QED
          BY ONLY <1>3, <5>2
      <4>2. CASE j < t
        <5>1. FirstColumn(j) + Width(j) - 1 <= FirstColumn(t)
          BY <4>2, FirstColumnFacts
        <5>2. p \in Int /\ p > FirstColumn(j) + Width(j) - 2
          BY ONLY <1>3, <2>0, <4>0, <5>1
        <5> QED
          BY ONLY <1>3, <5>2
      <4> QED
        BY <1>0, <2>0, <2>3, <4>1, <4>2
    <3>2. tmp'[k][p] = tmp[i][p]
      BY <1>1, <1>2, <2>1, <3>1
    <3>3. t < j + 1 <=> t < j
      BY <1>0, <2>0, <2>3
    <3> QED
      BY <3>2, <3>3 DEF RowUpTo
  <2> QED
    BY <2>2, <2>3
<1> QED
  BY <1>4, <1>5, SameInputs, JoinableSame DEF RowUpTo

LEMMA JoinFill ==
  ASSUME TypeOK, LoopInv, JoinInv, Fill
  PROVE  JoinInv'
<1>0. UNCHANGED in
  BY DEF Fill, End
<1> SUFFICES ASSUME Joinable PROVE JoinInv'
  BY <1>0, JoinableSame DEF JoinInv
<1> DEFINE upTo(k) == IF k < i THEN Len(inputs) + 1 ELSE IF k = i THEN j ELSE 1
<1>1. /\ pc = "fill" /\ i \in 1 .. Height(1) /\ j \in Tables /\ 1 \in Tables
      /\ Height(1) \in Nat /\ i \in Nat /\ j \in Nat \ {0} /\ Len(inputs) \in Nat
      /\ Len(tmp) = Height(1) /\ \A k \in 1 .. Height(1) : RowUpTo(k, upTo(k))
      /\ Found(j, i) => colPtrHead = FirstColumn(j)
  <2>1. /\ pc = "fill" /\ i \in 1 .. Len(tmp) /\ j \in Tables
        /\ i \in Nat /\ j \in Nat \ {0} /\ Len(inputs) \in Nat
    BY DEF Fill, LoopInv, TypeOK
  <2>2. 1 \in Tables /\ Height(1) \in Nat
    BY KeyByFacts, FirstColumnFacts
  <2>3. Len(tmp) = Height(1) /\ \A k \in 1 .. Height(1) : RowUpTo(k, upTo(k))
    BY <2>1 DEF JoinInv
  <2>4. Found(j, i) => colPtrHead = FirstColumn(j)
    BY <2>1, <2>3 DEF JoinInv
  <2> QED
    BY <2>1, <2>2, <2>3, <2>4
<1>2. RowUpTo(i, j) /\ tmp[i][0] = KeyCell(1, i)
  <2>1. upTo(i) = j
    BY <1>1
  <2> QED
    BY <1>1, <2>1 DEF RowUpTo
<1>3. /\ Hits(j, i) = IF Found(j, i) THEN {KeyOf(1, i)} ELSE {}
      /\ Hits(j, i) # {} => Greatest(Hits(j, i)) = KeyOf(1, i)
  BY <1>1, <1>2, JoinHits
<1>4. /\ Reached(j) = 1 .. Size(j)
      /\ FirstColumn(j) \in Nat \ {0} /\ Width(j) \in Nat \ {0}
      /\ FirstColumn(j + 1) = FirstColumn(j) + Width(j) - 1
      /\ FirstColumn(j) + Width(j) - 1 <= outputColNum
      /\ outputColNum \in Nat
  BY <1>1, KeyByFacts, FirstColumnFacts, ColNumFacts
<1>5. Hits(j, i) # {} => ~(colPtrHead + Width(j) - 1 > outputColNum)
  BY <1>1, <1>3, <1>4
<1>6. /\ pc' = "fill" /\ i' = i /\ j' = j + 1
      /\ IF Found(j, i)
           THEN /\ tmp' = [tmp EXCEPT ![i] =
                             Written(i, j, keyBy(j)[KeyOf(1, i)], colPtrHead)]
                /\ colPtrHead' = FirstColumn(j + 1)
           ELSE tmp' = tmp
  BY <1>1, <1>3, <1>4, <1>5 DEF Fill, Goto
<1>7. ASSUME NEW k \in 1 .. Height(1), k = i, NEW n, n = j
      PROVE  RowUpTo(k, n + 1)'
  <2>1. CASE Found(j, i)
    BY <1>0, <1>1, <1>2, <1>6, <1>7, <2>1, JoinWritten
  <2>2. CASE ~Found(j, i)
    <3>1. ASSUME NEW t \in Tables, Found(t, k) PROVE t < j <=> t < n + 1
      <4>1. t \in Nat /\ t # j
        BY <1>7, <2>2, <3>1 DEF Tables
      <4> QED
        BY <1>1, <1>7, <4>1
    <3>2. tmp'[k] = tmp[k]
      BY <1>6, <2>2
    <3>3. RowUpTo(k, n + 1)
      BY <1>2, <1>7, <3>1 DEF RowUpTo
    <3> QED
      BY <1>0, <3>2, <3>3, RowSame
  <2> QED
    BY <2>1, <2>2
<1>8. /\ Len(tmp') = Height(1)
      /\ \A k \in 1 .. Height(1) : k # i => tmp'[k] = tmp[k]
  <2> DEFINE rows == [0 .. outputColNum - 1 -> Cell \cup {nullptr}]
             row == Written(i, j, keyBy(j)[KeyOf(1, i)], colPtrHead)
  <2>1. tmp \in Seq(rows)
    BY DEF TypeOK
  <2> HIDE DEF rows, row
  <2>2. tmp' = tmp \/ tmp' = [tmp EXCEPT ![i] = row]
    BY <1>6 DEF row
  <2> QED
    BY <1>1, <2>1, <2>2
<1>9. ASSUME NEW k \in 1 .. Height(1)
      PROVE  RowUpTo(k, IF k < i THEN Len(inputs) + 1 ELSE IF k = i THEN j ELSE 1)'
  <2>1. PICK n : n = (IF k < i THEN Len(inputs) + 1 ELSE IF k = i THEN j ELSE 1)'
    OBVIOUS
  <2>2. RowUpTo(k, n)'
    <3>1. CASE k = i
      <4>1. PICK m : m = j
        OBVIOUS
      <4>2. RowUpTo(k, m + 1)'
        BY <1>7, <3>1, <4>1
      <4>3. n = m + 1
        BY <1>1, <1>6, <2>1, <3>1, <4>1
      <4> QED
        BY <4>2, <4>3
    <3>2. CASE k # i
      <4>1. n = upTo(k)
        BY <1>0, <1>6, <2>1, <3>2 DEF in
      <4>2. RowUpTo(k, n) /\ tmp'[k] = tmp[k]
        BY <1>1, <1>8, <3>2, <4>1
      <4> QED
        BY ONLY <1>0, <4>2, RowSame
    <3> QED
      BY <3>1, <3>2
  <2> QED
    BY <2>1, <2>2 DEF RowUpTo
<1>10. j + 1 \in Tables /\ Found(j + 1, i) => Found(j, i)
  <2> SUFFICES ASSUME j + 1 \in Tables, Found(j + 1, i) PROVE Found(j, i)
    OBVIOUS
  <2>1. Height(j + 1) <= Height(j) /\ Height(j + 1) \in Nat /\ Height(j) \in Nat
    BY <1>1, HeightsFall, KeyByFacts
  <2>2. KeyOf(1, i) \in Nat
    BY <1>1, KeyByFacts
  <2> QED
    BY <2>1, <2>2 DEF Found
<1> QED
  BY <1>0, <1>1, <1>6, <1>8, <1>9, <1>10, SameInputs, JoinableSame DEF JoinInv

LEMMA JoinNext ==
  ASSUME TypeOK, LoopInv, HeadInv, JoinInv, GrowNext \/ FillNext
  PROVE  JoinInv'
<1>0. UNCHANGED in /\ UNCHANGED tmp
  BY DEF GrowNext, FillNext
<1> SUFFICES ASSUME Joinable PROVE JoinInv'
  BY <1>0, JoinableSame DEF JoinInv
<1>1. /\ 1 \in Tables /\ Height(1) \in Nat /\ Len(inputs) \in Nat /\ Tables = 1 .. Len(inputs)
      /\ FirstColumn(1) = 1 /\ Len(tmp) = Height(1)
  BY KeyByFacts, FirstColumnFacts DEF GrowNext, FillNext, JoinInv, TypeOK, Tables
<1>2. CASE pc' = "grow"
  <2>1. \A k \in 1 .. Height(1) : RowUpTo(k, 1)
    BY <1>2 DEF GrowNext, FillNext, Goto, JoinInv
  <2>2. \A k \in 1 .. Height(1) : RowUpTo(k, 1)'
    BY <1>0, <2>1, RowSame
  <2> QED
    BY <1>0, <1>1, <1>2, <2>2, JoinableSame DEF JoinInv
<1>3. CASE pc' = "fill"
  <2>1. j' = 1 /\ i' \in Nat \ {0} /\ colPtrHead' = 1
    BY <1>3 DEF GrowNext, FillNext, Goto, HeadInv, LoopInv, colPtrs
  <2>2. ASSUME NEW k \in 1 .. Height(1)
        PROVE  RowUpTo(k, IF k < i THEN Len(inputs) + 1 ELSE IF k = i THEN j ELSE 1)'
    <3>1. PICK n : n = (IF k < i THEN Len(inputs) + 1 ELSE IF k = i THEN j ELSE 1)'
      OBVIOUS
    <3>2. n = IF k < i' THEN Len(inputs) + 1 ELSE 1
      BY <1>0, <2>1, <3>1 DEF in
    <3>3. RowUpTo(k, n)'
      <4>1. CASE GrowNext
        <5>1. RowUpTo(k, 1) /\ i' = 1 /\ n = 1
          BY <1>3, <3>2, <4>1 DEF GrowNext, Goto, JoinInv
        <5> QED
          BY <1>0, <5>1, RowSame
      <4>2. CASE FillNext
        <5>1. /\ pc = "fill" /\ i \in 1 .. Height(1) /\ i' = i + 1 /\ i \in Nat
              /\ j \notin Tables /\ j \in Nat \ {0}
          BY <1>1, <1>3, <4>2 DEF FillNext, Goto, LoopInv
        <5> DEFINE m == IF k < i THEN Len(inputs) + 1 ELSE IF k = i THEN j ELSE 1
        <5>2. RowUpTo(k, m)
          BY <5>1 DEF JoinInv
        <5>3. \A t \in Tables : t < m <=> t < n
          BY <1>1, <3>2, <5>1
        <5> HIDE DEF m
        <5> QED
          BY ONLY <1>0, <5>2, <5>3, RowSame
      <4> QED
        BY <4>1, <4>2
    <3> QED
      BY <3>1, <3>3 DEF RowUpTo
  <2> QED
    BY <1>0, <1>1, <1>3, <2>1, <2>2, JoinableSame DEF JoinInv
<1>4. CASE pc' = "output"
  <2>1. pc = "fill" /\ i \notin 1 .. Height(1) /\ i \in Nat \ {0}
    BY <1>1, <1>4 DEF GrowNext, FillNext, Goto, LoopInv
  <2>2. ASSUME NEW k \in 1 .. Height(1) PROVE RowUpTo(k, Len(inputs) + 1)
    <3>1. k < i
      BY <1>1, <2>1
    <3> QED
      BY <2>1, <3>1 DEF JoinInv
  <2>3. ASSUME NEW k \in 1 .. Height(1) PROVE RowUpTo(k, Len(inputs) + 1)'
    <3>1. PICK n : n = (Len(inputs) + 1)'
      OBVIOUS
    <3>2. RowUpTo(k, n)'
      BY <1>0, <2>2, <3>1, RowSame DEF in
    <3> QED
      BY <3>1, <3>2 DEF RowUpTo
  <2> QED
    BY <1>0, <1>1, <1>4, <2>3, JoinableSame DEF JoinInv
<1> QED
  BY <1>2, <1>3, <1>4 DEF GrowNext, FillNext, Goto

LEMMA JoinOutput ==
  ASSUME TypeOK, LoopInv, JoinInv, Output \/ Names
  PROVE  JoinInv'
<1>0. UNCHANGED in /\ UNCHANGED tmp
  BY DEF Output, Names, End
<1> SUFFICES ASSUME Joinable PROVE JoinInv'
  BY <1>0, JoinableSame DEF JoinInv
<1>1. /\ pc \in {"output", "names"} /\ Len(tmp) = Height(1)
      /\ \A k \in 1 .. Height(1) : RowUpTo(k, Len(inputs) + 1)
      /\ pc = "names" => output = tmp
  BY DEF Output, Names, JoinInv
<1>2. ASSUME NEW k \in 1 .. Height(1) PROVE RowUpTo(k, Len(inputs) + 1)'
  <2>1. PICK n : n = (Len(inputs) + 1)'
    OBVIOUS
  <2>2. RowUpTo(k, n)'
    BY <1>0, <1>1, <2>1, RowSame DEF in
  <2> QED
    BY <2>1, <2>2 DEF RowUpTo
<1>3. CASE Output
  BY <1>0, <1>1, <1>2, <1>3, JoinableSame DEF Output, Goto, JoinInv
<1>4. CASE Names
  <2>1. HasKey(1)
    BY FirstColumnFacts, OneKeyColumn
  <2>2. ~(NamesWritten > outputColNum)
    BY NamesFit, NamesNat, ColNumFacts DEF Joinable
  <2>3. NamedTables = Tables
    <3>1. \A t \in Tables : 1 .. t \subseteq Tables
      BY DEF Tables, TypeOK
    <3> QED
      BY <3>1, OneKeyColumn DEF NamedTables
  <2>4. pc' = "done" /\ info' = "set" /\ output' = output /\ pc = "names"
    BY <1>4, <2>1, <2>2, <2>3 DEF Names, Goto
  <2> QED
    BY <1>0, <1>1, <1>2, <2>4, JoinableSame DEF JoinInv
<1> QED
  BY <1>3, <1>4

LEMMA JoinStutter ==
  ASSUME JoinInv, UNCHANGED vars
  PROVE  JoinInv'
<1>0. UNCHANGED <<in, pc, i, j, tmp, colPtrHead, output, info>>
  BY DEF vars, colPtrs, out
<1> SUFFICES ASSUME Joinable PROVE JoinInv'
  BY <1>0, JoinableSame DEF JoinInv
<1>1. ASSUME NEW k, NEW n, RowUpTo(k, n) PROVE RowUpTo(k, n)'
  BY <1>0, <1>1, RowSame
<1>2. \A t : FirstColumn(t)' = FirstColumn(t) /\ Height(t)' = Height(t)
  BY <1>0, JoinableSame
<1>3. \A t, k : Found(t, k)' = Found(t, k)
  BY <1>0, JoinableSame
<1>4. inputs' = inputs /\ Tables' = Tables
  BY <1>0, SameInputs DEF in
<1>5. ASSUME NEW k \in 1 .. Height(1), pc = "fill"
      PROVE  RowUpTo(k, IF k < i THEN Len(inputs) + 1 ELSE IF k = i THEN j ELSE 1)'
  <2>1. PICK n : n = IF k < i THEN Len(inputs) + 1 ELSE IF k = i THEN j ELSE 1
    OBVIOUS
  <2>2. RowUpTo(k, n)'
    BY <1>1, <1>5, <2>1 DEF JoinInv
  <2>3. n = (IF k < i THEN Len(inputs) + 1 ELSE IF k = i THEN j ELSE 1)'
    BY <1>0, <1>4, <2>1
  <2> QED
    BY <2>2, <2>3 DEF RowUpTo
<1>6. ASSUME NEW k \in 1 .. Height(1), pc \in {"output", "names", "done"}
      PROVE  RowUpTo(k, Len(inputs) + 1)'
  <2>1. PICK n : n = Len(inputs) + 1
    OBVIOUS
  <2>2. RowUpTo(k, n)'
    BY <1>1, <1>6, <2>1 DEF JoinInv
  <2>3. n = (Len(inputs) + 1)'
    BY <1>4, <2>1
  <2> QED
    BY <2>2, <2>3 DEF RowUpTo
<1>7. pc = "grow" => \A k \in 1 .. Height(1) : RowUpTo(k, 1)'
  BY <1>1 DEF JoinInv
<1> QED
  BY <1>0, <1>2, <1>3, <1>4, <1>5, <1>6, <1>7 DEF JoinInv

LEMMA JoinStep ==
  ASSUME IInv, HeadInv, JoinInv, [Next]_vars
  PROVE  JoinInv'
  BY JoinStart, JoinGrow, JoinFill, JoinNext, JoinOutput, JoinStutter DEF Next, IInv

\* A finished join of joinable tables is the left join.
LEMMA JoinDone ==
  ASSUME TypeOK, JoinInv, Joinable, pc = "done"
  PROVE  LeftJoin
<1>1. /\ 1 \in Tables /\ Height(1) \in Nat
      /\ output = tmp /\ Len(tmp) = Height(1)
      /\ \A k \in 1 .. Height(1) : RowUpTo(k, Len(inputs) + 1)
  BY KeyByFacts, FirstColumnFacts DEF JoinInv
<1>2. ASSUME NEW k \in 1 .. Height(1), NEW t \in Tables,
             NEW c \in 1 .. Width(t) \ {Location(t)}
      PROVE  LET rows == {r \in 1 .. Height(t) :
                            value(KeyCell(t, r)) = value(KeyCell(1, k))}
                 before == (1 .. c - 1) \ {Location(t)}
                 cell == output[k][FirstColumn(t) + Cardinality(before)]
             IN  IF rows = {} THEN cell = nullptr
                 ELSE \E r \in rows : cell = <<t, r, c>>
  <2> DEFINE rows == {r \in 1 .. Height(t) : value(KeyCell(t, r)) = value(KeyCell(1, k))}
             before == (1 .. c - 1) \ {Location(t)}
             d == IF c < Location(t) THEN c ELSE c - 1
             cell == output[k][FirstColumn(t) + Cardinality(before)]
  <2>1. /\ Width(t) \in Nat \ {0} /\ Location(t) \in 1 .. Width(t)
        /\ FirstColumn(t) \in Nat /\ t \in Nat /\ t < Len(inputs) + 1
        /\ Height(t) \in Nat /\ KeyOf(1, k) \in 1 .. Height(1)
    BY <1>1, FirstColumnFacts, OneKeyColumn, KeyByFacts DEF Tables, TypeOK
  <2>2. Cardinality(before) = d - 1
    <3>1. IsFiniteSet(1 .. c - 1) /\ Cardinality(1 .. c - 1) = c - 1
      <4>1. 1 \in Int /\ c - 1 \in Int /\ c >= 1
        BY <2>1
      <4> QED
        BY <4>1, FS_Interval
    <3>2. Cardinality(before) =
            IF Location(t) \in 1 .. c - 1 THEN Cardinality(1 .. c - 1) - 1
            ELSE Cardinality(1 .. c - 1)
      BY <3>1, FS_RemoveElement
    <3> HIDE DEF before
    <3> QED
      BY <2>1, <3>1, <3>2
  <2>3. d \in 1 .. Width(t) - 1 /\ DataColumn(t, d) = c
    BY <2>1 DEF DataColumn
  <2> HIDE DEF before, d
  <2>4. cell = output[k][FirstColumn(t) + d - 1]
    <3>1. FirstColumn(t) + Cardinality(before) = FirstColumn(t) + d - 1
      BY <2>1, <2>2, <2>3
    <3> QED
      BY <3>1
  <2> HIDE DEF cell
  <2>5. cell = IF Found(t, k) THEN <<t, keyBy(t)[KeyOf(1, k)], c>> ELSE nullptr
    BY <1>1, <2>1, <2>3, <2>4 DEF RowUpTo
  <2>6. CASE Found(t, k)
    <3>1. KeyOf(1, k) \in 1 .. Height(t)
      BY <1>1, <2>1, <2>6 DEF Found
    <3>2. keyBy(t)[KeyOf(1, k)] \in rows
      BY <3>1, KeyByFacts DEF KeyOf
    <3> HIDE DEF rows
    <3>3. rows # {} /\ \E r \in rows : cell = <<t, r, c>>
      BY <2>5, <2>6, <3>2
    <3> QED
      BY <3>3 DEF rows, cell, before
  <2>7. CASE ~Found(t, k)
    <3>1. rows = {}
      <4> SUFFICES ASSUME NEW r \in rows PROVE FALSE
        OBVIOUS
      <4>1. KeyOf(t, r) = KeyOf(1, k) /\ KeyOf(t, r) \in 1 .. Height(t)
        BY KeyByFacts DEF KeyOf
      <4> QED
        BY <2>1, <2>7, <4>1 DEF Found
    <3> QED
      BY <2>5, <2>7, <3>1 DEF cell, before
  <2> QED
    BY <2>6, <2>7
<1>3. \A k \in 1 .. Height(1) : output[k][0] = KeyCell(1, k)
  BY <1>1 DEF RowUpTo
<1> QED
  BY <1>1, <1>2, <1>3 DEF LeftJoin

\* Inputs that can be joined are joined, completely and without an error,
\* whatever their number, widths and heights are (libCB.lua, CombineOp).
THEOREM JoinableAreJoined == Spec => []JoinWhenJoinable
<1>1. Init => JoinInv /\ CauseInv
  BY DEF Init, JoinInv, CauseInv, OverflowHasCause, PtrInv, HeadInv
<1>2. IInv /\ CauseInv /\ JoinInv /\ [Next]_vars => JoinInv' /\ CauseInv'
  BY JoinStep, CauseStep DEF CauseInv
<1>3. IInv /\ JoinInv => JoinWhenJoinable
  BY JoinDone DEF IInv, JoinInv, JoinWhenJoinable
<1> QED
  BY <1>1, <1>2, <1>3, SpecIInv, PTL DEF Spec
=============================================================================
