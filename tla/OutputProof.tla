----------------------------- MODULE OutputProof -----------------------------
(***************************************************************************)
(* Theorems about Output, for any outputs, any number of rounds, retries   *)
(* and readers.                                                            *)
(***************************************************************************)
EXTENDS Output, SequenceTheorems, TLAPS

\* How far the structure, the cells and the rounds agree.
RoundInv ==
  /\ m_outStruct = nullptr <=> cellRound = 0
  /\ stage \in {"cleared", "shaped"} => m_outStruct # nullptr /\ cellRound < round
  /\ stage \in {"cleared", "shaped"} => m_outStruct.info = <<>>
  /\ stage # "idle" => round \in Round
  /\ stage \in {"idle", "ended"} /\ m_outStruct # nullptr => m_outStruct = pub[cellRound]
  /\ stage = "ended" /\ cellRound = round =>
       cell \in [Cells(m_outStruct.row, m_outStruct.col) -> Kind]
  /\ \A n \in Round : n > cellRound => pub[n] = NoStruct
  /\ \A n \in Round : Len(pub[n].info) = pub[n].col

\* What a SET asks for comes from a round m that published: its own, if the
\* text is that of a cell; an earlier one, if its own round failed and the
\* cells were deleted.
From(s, m) ==
  /\ m <= s[1]
  /\ s[2] <= pub[m].row /\ s[3] <= pub[m].col
  /\ key[s] = <<s[2], pub[m].info[s[3]]>>
  /\ text[s] \in {s, nan, garbage, nothing}
  /\ text[s] = s => m = s[1]
  /\ text[s] = garbage => m < s[1] /\ FailedRound(s[1])

SetInv ==
  \A s \in Set :
    /\ key[s] = nothing <=> task[s] = "new"
    /\ (\E a \in 0..RetryMax : <<s, a>> \in wire) => task[s] # "new"
    /\ task[s] # "new" =>
         /\ s[1] <= round
         /\ stage # "idle" => s[1] < round
         /\ \E m \in Round : From(s, m)

\* What Redis holds, somebody sent.
StoreInv ==
  \A k \in Key :
    \/ store[k] = nothing
    \/ \E s \in Set : task[s] # "new" /\ key[s] = k /\ text[s] = store[k]

\* While a SET is the newest of its key, and no other was alive when it began,
\* none comes to life.
AckInv ==
  \A s \in Set \ mixed :
    task[s] # "new" /\ Newest(s) =>
      /\ \A o \in Set \ {s} : key[o] = key[s] => ~Alive(o)
      /\ task[s] = "ok" => text[s] # nothing /\ store[key[s]] = text[s]

\* What a reader that met no update has read so far.
AnswerInv ==
  /\ \A r \in Reader : reading[r] \in {"row", "col"} => cellRound # 0
  /\ \A r \in Reader \ overlapped :
       /\ reading[r] \in {"row", "col", "done"} =>
            /\ seen[r] \in Round /\ seen[r] <= cellRound
            /\ answer[r].row = pub[seen[r]].row
       /\ reading[r] \in {"row", "col"} =>
            seen[r] = cellRound /\ stage \in {"idle", "ended"}
       /\ reading[r] \in {"col", "done"} => answer[r].col = pub[seen[r]].col
       /\ reading[r] = "done" => answer[r].info = pub[seen[r]].info

IInv == TypeOK /\ RoundInv /\ SetInv /\ StoreInv /\ AckInv /\ AnswerInv

LEMMA InitIInv == Init => IInv
  <1> SUFFICES ASSUME Init PROVE IInv
    OBVIOUS
  <1> USE OutputAssumption, TextAssumption
  <1>1. NoStruct \in Struct
    BY DEF NoStruct, Struct
  <1>2. TypeOK
    BY <1>1 DEF Init, TypeOK, Round
  <1>3. RoundInv
    BY DEF Init, RoundInv, NoStruct, Round
  <1>4. SetInv /\ StoreInv /\ AckInv /\ AnswerInv
    BY DEF Init, SetInv, StoreInv, AckInv, AnswerInv
  <1> QED
    BY <1>2, <1>3, <1>4 DEF IInv

-----------------------------------------------------------------------------
(* The round publishes *)

\* A step that leaves the SETs and Redis alone keeps what is known of them, if
\* it publishes nothing in a round that has begun SETs.
LEMMA SetsKept ==
  ASSUME IInv, UNCHANGED setVars,
         round' \in 0..MaxRounds, round <= round',
         pub' \in [Round -> Struct],
         \A n \in Round : n <= round /\ (stage # "idle" => n < round) => pub'[n] = pub[n],
         stage' # "idle" => stage # "idle" \/ round < round'
  PROVE  SetInv' /\ StoreInv' /\ AckInv'
  <1> USE OutputAssumption DEF IInv
  <1> round \in 0..MaxRounds
    BY DEF TypeOK
  <1>1. StoreInv' /\ AckInv'
    BY DEF StoreInv, AckInv, Newest, Alive, setVars
  <1>2. SUFFICES ASSUME NEW s \in Set
                 PROVE  /\ key[s] = nothing <=> task[s] = "new"
                        /\ (\E a \in 0..RetryMax : <<s, a>> \in wire) => task[s] # "new"
                        /\ task[s] # "new" =>
                             /\ s[1] <= round'
                             /\ stage' # "idle" => s[1] < round'
                             /\ \E m \in Round : From(s, m)'
    BY <1>1 DEF SetInv, setVars
  <1>3. s[1] \in Round /\ s[1] \in Nat
    BY DEF Set, Round
  <1>4. ASSUME task[s] # "new"
        PROVE  /\ s[1] <= round'
               /\ stage' # "idle" => s[1] < round'
               /\ \E m \in Round : From(s, m)'
    <2>1. s[1] <= round /\ (stage # "idle" => s[1] < round)
      BY <1>4 DEF SetInv
    <2>2. PICK m \in Round : From(s, m)
      BY <1>4 DEF SetInv
    <2>3. m <= s[1] /\ pub'[m] = pub[m] /\ pub'[s[1]] = pub[s[1]]
      BY <1>3, <2>1, <2>2 DEF From, Round
    <2>4. text[s] = garbage => FailedRound(s[1])'
      BY <1>3, <2>1, <2>2, <2>3 DEF From, FailedRound
    <2>5. From(s, m)'
      BY <2>2, <2>3, <2>4 DEF From, setVars
    <2> QED
      BY <1>3, <2>1, <2>5
  <1> QED
    BY <1>4 DEF SetInv

\* The end of a publication.
LEMMA FinishFacts ==
  ASSUME IInv, NEW h \in Header, NEW rows \in 0..MaxRows,
         NEW c \in [Cells(rows, Len(h)) -> Kind],
         round' \in Round, round' > cellRound, Finish(h, rows, c)
  PROVE  LET struct == [row |-> rows, col |-> Len(h), info |-> h]
         IN  /\ struct \in Struct
             /\ pub' \in [Round -> Struct]
             /\ pub'[round'] = struct
             /\ \A n \in Round : n # round' => pub'[n] = pub[n]
             /\ \A n \in Round : n > round' => pub'[n] = NoStruct
             /\ \A n \in Round : Len(pub'[n].info) = pub'[n].col
  <1> DEFINE struct == [row |-> rows, col |-> Len(h), info |-> h]
  <1> USE OutputAssumption DEF IInv
  <1>1. h \in Seq(Name) /\ Len(h) \in 0..MaxCols
    OBVIOUS
  <1>2. struct \in Struct /\ Len(struct.info) = struct.col
    BY <1>1 DEF Struct
  <1>3. pub' = [pub EXCEPT ![round'] = struct]
    BY DEF Finish
  <1>4. pub \in [Round -> Struct] /\ cellRound \in Nat
    BY DEF TypeOK
  <1> HIDE DEF struct
  <1>5. /\ pub' \in [Round -> Struct]
        /\ pub'[round'] = struct
        /\ \A n \in Round : n # round' => pub'[n] = pub[n]
    BY <1>2, <1>3, <1>4
  <1>6. \A n \in Round : n > round' => pub'[n] = NoStruct
    BY <1>4, <1>5 DEF RoundInv, Round
  <1>7. \A n \in Round : Len(pub'[n].info) = pub'[n].col
    BY <1>2, <1>5 DEF RoundInv
  <1> QED
    BY <1>2, <1>5, <1>6, <1>7 DEF struct

\* A step that leaves the readers alone keeps what is known of their answers.
LEMMA AnswersKept ==
  ASSUME IInv, UNCHANGED readVars, overlapped \subseteq overlapped',
         cellRound' \in 0..MaxRounds, cellRound <= cellRound',
         \A n \in Round : n <= cellRound => pub'[n] = pub[n],
         \A r \in Reader \ overlapped' : reading[r] \in {"row", "col"} =>
           cellRound' = cellRound /\ stage' \in {"idle", "ended"}
  PROVE  AnswerInv'
  <1> USE OutputAssumption DEF IInv
  <1> cellRound \in Nat
    BY DEF TypeOK
  <1>0. \A r \in Reader : reading[r] \in {"row", "col"} => cellRound' # 0
    BY DEF AnswerInv
  <1> SUFFICES ASSUME NEW r \in Reader \ overlapped'
               PROVE  /\ reading[r] \in {"row", "col", "done"} =>
                           /\ seen[r] \in Round /\ seen[r] <= cellRound'
                           /\ answer[r].row = pub'[seen[r]].row
                      /\ reading[r] \in {"row", "col"} =>
                           seen[r] = cellRound' /\ stage' \in {"idle", "ended"}
                      /\ reading[r] \in {"col", "done"} => answer[r].col = pub'[seen[r]].col
                      /\ reading[r] = "done" => answer[r].info = pub'[seen[r]].info
    BY <1>0 DEF AnswerInv, readVars
  <1>1. ASSUME reading[r] \in {"row", "col", "done"}
        PROVE  seen[r] \in Round /\ seen[r] <= cellRound'
               /\ pub'[seen[r]] = pub[seen[r]]
    BY <1>1 DEF AnswerInv, Round
  <1> QED
    BY <1>1 DEF AnswerInv

LEMMA ConstructKeeps ==
  ASSUME IInv, NEW h \in Header, NEW rows \in 0..MaxRows,
         NEW c \in [Cells(rows, Len(h)) -> Kind], Construct(h, rows, c)
  PROVE  IInv'
  <1> DEFINE struct == [row |-> rows, col |-> Len(h), info |-> h]
  <1> USE OutputAssumption, TextAssumption DEF IInv
  <1>1. cellRound = 0 /\ round \in 0..MaxRounds /\ round' = round + 1 /\ round' \in Round
    BY DEF Construct, RoundInv, TypeOK, Round
  <1>2. /\ struct \in Struct
        /\ pub' \in [Round -> Struct]
        /\ pub'[round'] = struct
        /\ \A n \in Round : n # round' => pub'[n] = pub[n]
        /\ \A n \in Round : n > round' => pub'[n] = NoStruct
        /\ \A n \in Round : Len(pub'[n].info) = pub'[n].col
    <2>1. Finish(h, rows, c) /\ round' > cellRound
      BY <1>1 DEF Construct, Round
    <2> QED
      BY <1>1, <2>1, FinishFacts
  <1>3. /\ m_outStruct' = struct /\ stage = "idle" /\ stage' = "ended" /\ cellRound' = round'
        /\ cell' = c
        /\ UNCHANGED <<setVars, readVars, overlapped>>
    BY DEF Construct, Finish
  <1>4. cell' \in [Cells(m_outStruct'.row, m_outStruct'.col) -> Kind]
    BY <1>3
  <1> HIDE DEF struct
  <1>5. TypeOK'
    BY <1>1, <1>2, <1>3 DEF TypeOK, setVars, readVars, Round
  <1>6. RoundInv'
    BY <1>1, <1>2, <1>3, <1>4 DEF RoundInv, Round
  <1>7. SetInv' /\ StoreInv' /\ AckInv'
    BY <1>1, <1>2, <1>3, SetsKept DEF Round
  <1>8. AnswerInv'
    <2>1. \A r \in Reader \ overlapped : reading[r] \notin {"row", "col"}
      BY <1>1 DEF AnswerInv, Round
    <2> QED
      BY <1>1, <1>2, <1>3, <2>1, AnswersKept DEF Round
  <1> QED
    BY <1>5, <1>6, <1>7, <1>8

LEMMA UpdateClearKeeps ==
  ASSUME IInv, UpdateClear
  PROVE  IInv'
  <1> USE OutputAssumption, TextAssumption DEF IInv, UpdateClear
  <1>1. /\ round \in 0..MaxRounds /\ round' = round + 1 /\ round' \in Round
        /\ cellRound \in Nat /\ cellRound <= round
    BY DEF TypeOK, Round
  <1>2. NoStruct \in Struct /\ NoStruct.info = <<>>
    BY DEF NoStruct, Struct
  <1>3. TypeOK'
    BY <1>1, <1>2 DEF TypeOK, setVars, readVars, BusyReaders
  <1>4. RoundInv'
    <2>1. /\ stage' = "cleared" /\ m_outStruct' = NoStruct /\ m_outStruct # nullptr
          /\ UNCHANGED <<cell, cellRound, pub>>
      OBVIOUS
    <2>2. m_outStruct' # nullptr /\ m_outStruct'.info = <<>>
      BY <1>2, <2>1
    <2> QED
      BY <1>1, <2>1, <2>2 DEF RoundInv
  <1>5. SetInv' /\ StoreInv' /\ AckInv'
    <2>1. pub' \in [Round -> Struct]
      BY DEF TypeOK
    <2> QED
      BY <1>1, <2>1, SetsKept DEF Round
  <1>6. AnswerInv'
    BY <1>1, AnswersKept DEF BusyReaders, TypeOK, Round
  <1> QED
    BY <1>3, <1>4, <1>5, <1>6

LEMMA UpdateShapeKeeps ==
  ASSUME IInv, NEW h \in Header, NEW rows \in 0..MaxRows, UpdateShape(rows, Len(h))
  PROVE  IInv'
  <1> USE OutputAssumption, TextAssumption DEF IInv, UpdateShape
  <1>1. round \in 0..MaxRounds /\ cellRound \in 0..MaxRounds /\ cellRound < round
    BY DEF TypeOK, RoundInv, Round
  <1>2. /\ m_outStruct' \in Struct /\ m_outStruct # nullptr
        /\ m_outStruct'.info = m_outStruct.info
    <2>1. m_outStruct \in Struct /\ m_outStruct # nullptr
      BY DEF TypeOK, RoundInv
    <2>2. Len(h) \in 0..MaxCols
      OBVIOUS
    <2>3. m_outStruct' = [m_outStruct EXCEPT !.row = rows, !.col = Len(h)]
      OBVIOUS
    <2> QED
      BY <2>1, <2>2, <2>3 DEF Struct
  <1>3. TypeOK'
    BY <1>2 DEF TypeOK, setVars, readVars, BusyReaders
  <1>4. m_outStruct'.info = <<>>
    BY <1>2 DEF RoundInv
  <1>5. RoundInv'
    BY <1>1, <1>2, <1>4 DEF RoundInv
  <1>6. SetInv' /\ StoreInv' /\ AckInv'
    <2>1. /\ UNCHANGED setVars /\ round' = round /\ pub' = pub
          /\ pub \in [Round -> Struct] /\ stage = "cleared" /\ IInv
      BY DEF TypeOK
    <2> QED
      BY ONLY <1>1, <2>1, SetsKept
  <1>7. AnswerInv'
    BY <1>1, AnswersKept DEF BusyReaders
  <1> QED
    BY <1>3, <1>5, <1>6, <1>7

LEMMA UpdateNamesKeeps ==
  ASSUME IInv, NEW h \in Header, stage = "shaped", Len(h) = m_outStruct.col,
         NEW c \in [Cells(m_outStruct.row, Len(h)) -> Kind], UpdateNames(h, c)
  PROVE  IInv'
  <1> DEFINE rows == m_outStruct.row
             struct == [row |-> rows, col |-> Len(h), info |-> h]
  <1> USE OutputAssumption, TextAssumption DEF IInv
  <1>1. /\ round \in Round /\ round' = round
        /\ cellRound \in 0..MaxRounds /\ cellRound < round
    BY DEF UpdateNames, TypeOK, RoundInv, Round
  <1>2. m_outStruct \in Struct /\ m_outStruct.info = <<>>
    BY DEF TypeOK, RoundInv
  <1>3. rows \in 0..MaxRows /\ h \in Seq(Name)
    BY <1>2 DEF Struct
  <1>4. /\ struct \in Struct
        /\ pub' \in [Round -> Struct]
        /\ pub'[round'] = struct
        /\ \A n \in Round : n # round' => pub'[n] = pub[n]
        /\ \A n \in Round : n > round' => pub'[n] = NoStruct
        /\ \A n \in Round : Len(pub'[n].info) = pub'[n].col
    BY <1>1, <1>3, FinishFacts DEF UpdateNames
  <1>5. m_outStruct' = struct
    <2>1. m_outStruct.info \o h = h
      BY <1>2, <1>3
    <2>2. m_outStruct' = [m_outStruct EXCEPT !.info = h]
      BY <2>1 DEF UpdateNames
    <2> QED
      BY <1>2, <2>2 DEF Struct
  <1>6. /\ stage' = "ended" /\ cellRound' = round' /\ cell' = c
        /\ overlapped' = overlapped \cup BusyReaders
        /\ UNCHANGED <<setVars, readVars>>
    BY DEF UpdateNames, Finish
  <1>7. cell' \in [Cells(m_outStruct'.row, m_outStruct'.col) -> Kind]
    BY <1>5, <1>6
  <1> HIDE DEF struct
  <1>8. TypeOK'
    BY <1>1, <1>4, <1>5, <1>6 DEF TypeOK, setVars, readVars, BusyReaders, Round
  <1>9. RoundInv'
    BY <1>1, <1>4, <1>5, <1>6, <1>7 DEF RoundInv, Round
  <1>10. SetInv' /\ StoreInv' /\ AckInv'
    BY <1>1, <1>4, <1>6, SetsKept DEF Round
  <1>11. AnswerInv'
    BY <1>1, <1>4, <1>6, AnswersKept DEF BusyReaders, Round
  <1> QED
    BY <1>8, <1>9, <1>10, <1>11

LEMMA RoundFailsKeeps ==
  ASSUME IInv, RoundFails
  PROVE  IInv'
  <1> USE OutputAssumption, TextAssumption DEF IInv, RoundFails
  <1>1. /\ round \in 0..MaxRounds /\ round' = round + 1 /\ round' \in Round
        /\ cellRound \in 0..round
    BY DEF TypeOK, Round
  <1>2. TypeOK'
    BY <1>1 DEF TypeOK, setVars, readVars
  <1>3. RoundInv'
    BY <1>1 DEF RoundInv
  <1>4. SetInv' /\ StoreInv' /\ AckInv'
    <2>1. /\ UNCHANGED setVars /\ round' = round + 1 /\ pub' = pub
          /\ pub \in [Round -> Struct] /\ stage = "idle" /\ IInv
      BY DEF TypeOK
    <2> QED
      BY ONLY <1>1, <2>1, SetsKept DEF Round
  <1>5. AnswerInv'
    BY <1>1, AnswersKept DEF AnswerInv, Round
  <1> QED
    BY <1>2, <1>3, <1>4, <1>5

-----------------------------------------------------------------------------
(* The round caches its output *)

\* What each SET of a round starts with.
LEMMA CallbackFacts ==
  ASSUME IInv, stage = "ended", m_outStruct # nullptr,
         NEW t \in Texts(SetsOfRound), NEW s \in SetsOfRound
  PROVE  /\ s \in Set /\ s[1] = round /\ task[s] = "new" /\ key[s] = nothing
         /\ cellRound \in Round /\ cellRound <= round
         /\ s[2] <= pub[cellRound].row /\ s[3] <= pub[cellRound].col
         /\ GenKey(s[2], s[3]) \in Key
         /\ GenKey(s[2], s[3]) = <<s[2], pub[cellRound].info[s[3]]>>
         /\ t[s] \in {s, nan, garbage, nothing}
         /\ t[s] = s => cellRound = round
         /\ t[s] = garbage => cellRound < round /\ FailedRound(round)
  <1> USE OutputAssumption, TextAssumption DEF IInv
  <1>1. /\ s \in Set /\ s[1] = round
        /\ s[2] \in 1..m_outStruct.row /\ s[3] \in 1..m_outStruct.col
    BY DEF SetsOfRound, Cells
  <1>2. task[s] = "new" /\ key[s] = nothing
    BY <1>1 DEF SetInv, TypeOK
  <1>3. cellRound \in Round /\ cellRound <= round /\ round \in Round
    BY DEF RoundInv, TypeOK, Round
  <1>4. m_outStruct = pub[cellRound] /\ m_outStruct \in Struct
    BY DEF RoundInv, TypeOK
  <1>5. Len(m_outStruct.info) = m_outStruct.col
    BY <1>3, <1>4 DEF RoundInv
  <1>6. m_outStruct.info[s[3]] \in Name
    BY <1>1, <1>4, <1>5 DEF Struct
  <1>7. s[2] \in 1..MaxRows /\ s[3] \in Nat
    BY <1>1 DEF Set
  <1>8. GenKey(s[2], s[3]) \in Key
    BY <1>6, <1>7 DEF GenKey, Key
  <1>9. m_outStruct.row \in Nat /\ m_outStruct.col \in Nat
    BY <1>4 DEF Struct
  <1>10. s[2] <= m_outStruct.row /\ s[3] <= m_outStruct.col
    BY <1>1, <1>9
  <1>11. /\ t[s] \in {s, nan, garbage, nothing}
         /\ t[s] = s => cellRound = round
         /\ t[s] = garbage => cellRound < round /\ FailedRound(round)
    <2>1. CASE cellRound = round
      <3>1. cell[<<s[2], s[3]>>] \in Kind
        <4>1. <<s[2], s[3]>> \in Cells(m_outStruct.row, m_outStruct.col)
          BY <1>1 DEF Cells
        <4>2. cell \in [Cells(m_outStruct.row, m_outStruct.col) -> Kind]
          BY <2>1 DEF RoundInv
        <4> QED
          BY <4>1, <4>2
      <3>2. t[s] = ToText(s)
        BY <2>1 DEF Texts
      <3>3. t[s] \in {s, nan, nothing}
        BY <3>1, <3>2 DEF ToText, Kind
      <3> QED
        BY <1>1, <2>1, <3>3
    <2>2. CASE cellRound # round
      <3>1. t[s] \in {garbage, nothing}
        BY <2>2 DEF Texts
      <3>2. cellRound < round
        BY <1>3, <2>2 DEF Round
      <3>3. FailedRound(round)
        BY <1>3, <3>2 DEF FailedRound, RoundInv, Round
      <3> QED
        BY <1>1, <3>1, <3>2, <3>3
    <2> QED
      BY <2>1, <2>2
  <1> QED
    BY <1>1, <1>2, <1>3, <1>4, <1>8, <1>10, <1>11 DEF GenKey

LEMMA StartSetsKeeps ==
  ASSUME IInv, stage = "ended", m_outStruct # nullptr, stage' = "idle",
         NEW t \in Texts(SetsOfRound), StartSets(SetsOfRound, t),
         UNCHANGED <<tries, store, round, pub>>
  PROVE  /\ task' \in [Set -> {"new", "flight", "ok", "refused", "failed"}]
         /\ key' \in [Set -> Key \cup {nothing}]
         /\ text' \in [Set -> Text \cup {nothing}]
         /\ wire' \in SUBSET (Set \X (0..RetryMax))
         /\ mixed' \in SUBSET Set
         /\ SetInv' /\ StoreInv' /\ AckInv'
  <1> DEFINE S == SetsOfRound
  <1> USE OutputAssumption, TextAssumption DEF IInv
  <1>1. \A s \in S : /\ s \in Set /\ s[1] = round /\ task[s] = "new" /\ key[s] = nothing
                     /\ cellRound \in Round /\ cellRound <= round
                     /\ s[2] <= pub[cellRound].row /\ s[3] <= pub[cellRound].col
                     /\ GenKey(s[2], s[3]) \in Key
                     /\ GenKey(s[2], s[3]) = <<s[2], pub[cellRound].info[s[3]]>>
                     /\ t[s] \in {s, nan, garbage, nothing}
                     /\ t[s] = s => cellRound = round
                     /\ t[s] = garbage => cellRound < round /\ FailedRound(round)
    BY CallbackFacts
  <1>2. /\ key' = [s \in Set |-> IF s \in S THEN GenKey(s[2], s[3]) ELSE key[s]]
        /\ text' = [s \in Set |-> IF s \in S THEN t[s] ELSE text[s]]
        /\ task' = [s \in Set |-> IF s \in S THEN "flight" ELSE task[s]]
        /\ wire' = wire \cup (S \X {0})
        /\ mixed' = mixed \cup {s \in S : \E o \in Set \ {s} :
                                 key'[o] = key'[s] /\ (Alive(o) \/ o \in S)}
    BY DEF StartSets
  <1>3. /\ task \in [Set -> {"new", "flight", "ok", "refused", "failed"}]
        /\ key \in [Set -> Key \cup {nothing}]
        /\ text \in [Set -> Text \cup {nothing}]
        /\ wire \in SUBSET (Set \X (0..RetryMax))
        /\ mixed \in SUBSET Set
        /\ round \in Nat
    BY DEF TypeOK
  <1> HIDE DEF S
  <1>4. \A s \in S : key'[s] = GenKey(s[2], s[3]) /\ text'[s] = t[s] /\ task'[s] = "flight"
    BY <1>1, <1>2
  <1>5. \A s \in Set \ S : key'[s] = key[s] /\ text'[s] = text[s] /\ task'[s] = task[s]
    BY <1>2
  <1>6. \A s \in Set \ S : \A a \in 0..RetryMax : <<s, a>> \in wire' => <<s, a>> \in wire
    BY <1>2
  <1>7. \A s \in Set \ S : Alive(s)' => Alive(s)
    BY <1>5, <1>6 DEF Alive
  <1>8. \A s \in S : t[s] \in Text \cup {nothing}
    BY <1>1 DEF Text
  <1>9. /\ task' \in [Set -> {"new", "flight", "ok", "refused", "failed"}]
        /\ key' \in [Set -> Key \cup {nothing}]
        /\ text' \in [Set -> Text \cup {nothing}]
        /\ wire' \in SUBSET (Set \X (0..RetryMax))
        /\ mixed' \in SUBSET Set
    <2>1. task' \in [Set -> {"new", "flight", "ok", "refused", "failed"}]
      BY <1>2, <1>3
    <2>2. key' \in [Set -> Key \cup {nothing}]
      BY <1>1, <1>2, <1>3
    <2>3. text' \in [Set -> Text \cup {nothing}]
      BY <1>2, <1>3, <1>8
    <2>4. wire' \in SUBSET (Set \X (0..RetryMax))
      BY <1>1, <1>2, <1>3
    <2>5. mixed' \in SUBSET Set
      BY <1>1, <1>2, <1>3
    <2> QED
      BY <2>1, <2>2, <2>3, <2>4, <2>5
  <1>10. SetInv'
    <2> SUFFICES ASSUME NEW s \in Set
                 PROVE  /\ key'[s] = nothing <=> task'[s] = "new"
                        /\ (\E a \in 0..RetryMax : <<s, a>> \in wire') => task'[s] # "new"
                        /\ task'[s] # "new" => s[1] <= round /\ \E m \in Round : From(s, m)'
      BY DEF SetInv
    <2>1. CASE s \in S
      <3>1. \E m \in Round : From(s, m)'
        <4>1. /\ cellRound <= s[1]
              /\ s[2] <= pub'[cellRound].row /\ s[3] <= pub'[cellRound].col
              /\ key'[s] = <<s[2], pub'[cellRound].info[s[3]]>>
              /\ text'[s] \in {s, nan, garbage, nothing}
              /\ text'[s] = s => cellRound = s[1]
              /\ text'[s] = garbage => cellRound < s[1] /\ FailedRound(s[1])'
          BY <1>1, <1>4, <2>1 DEF FailedRound
        <4> QED
          BY <1>1, <2>1, <4>1 DEF From
      <3> QED
        BY <1>1, <1>3, <1>4, <2>1, <3>1
    <2>2. CASE s \notin S
      <3>1. ASSUME NEW m \in Round, From(s, m)
            PROVE  From(s, m)'
        BY <1>5, <2>2, <3>1 DEF From, FailedRound
      <3> QED
        BY <1>5, <1>6, <2>2, <3>1 DEF SetInv
    <2> QED
      BY <2>1, <2>2
  <1>11. StoreInv'
    BY <1>1, <1>5 DEF StoreInv
  <1>12. AckInv'
    <2> SUFFICES ASSUME NEW s \in Set \ mixed', task'[s] # "new", Newest(s)'
                 PROVE  /\ \A o \in Set \ {s} : key'[o] = key'[s] => ~Alive(o)'
                        /\ task'[s] = "ok" => text'[s] # nothing /\ store[key'[s]] = text'[s]
      BY DEF AckInv
    <2>1. CASE s \in S
      <3>1. \A o \in Set \ {s} : key'[o] = key'[s] => ~Alive(o) /\ o \notin S
        BY <1>2, <2>1
      <3> QED
        BY <1>4, <1>7, <2>1, <3>1
    <2>2. CASE s \notin S
      <3>1. key[s] # nothing /\ s[1] < round
        BY <1>5, <2>2 DEF SetInv
      <3>2. \A o \in Set \ {s} : key'[o] = key'[s] => o[1] < s[1]
        BY DEF Newest
      <3>3. \A o \in S : key'[o] # key'[s]
        <4>1. s[1] \in Nat
          BY DEF Set, Round
        <4>2. ASSUME NEW o \in S, key'[o] = key'[s]
              PROVE  FALSE
          <5>1. o \in Set \ {s} /\ o[1] = round
            BY <1>1, <2>2
          <5>2. round < s[1]
            BY <3>2, <4>2, <5>1
          <5> QED
            BY <1>3, <3>1, <4>1, <5>2
        <4> QED
          BY <4>2
      <3>4. Newest(s)
        BY <1>1, <1>5, <2>2, <3>1, <3>2 DEF Newest
      <3>5. s \in Set \ mixed
        BY <1>2
      <3>6. /\ \A o \in Set \ {s} : key[o] = key[s] => ~Alive(o)
            /\ task[s] = "ok" => text[s] # nothing /\ store[key[s]] = text[s]
        BY <1>5, <2>2, <3>4, <3>5 DEF AckInv
      <3> QED
        BY <1>5, <1>7, <2>2, <3>3, <3>6
    <2> QED
      BY <2>1, <2>2
  <1> QED
    BY <1>9, <1>10, <1>11, <1>12

LEMMA GraphCallbackKeeps ==
  ASSUME IInv, GraphCallback
  PROVE  IInv'
  <1> USE OutputAssumption, TextAssumption DEF IInv
  <1>1. /\ stage = "ended" /\ stage' = "idle"
        /\ UNCHANGED <<round, cellRound, m_outStruct, pub, readVars, overlapped>>
    BY DEF GraphCallback
  <1>2. RoundInv'
    BY <1>1 DEF RoundInv
  <1>3. AnswerInv'
    BY <1>1, AnswersKept DEF TypeOK, RoundInv, Round
  <1>4. /\ task' \in [Set -> {"new", "flight", "ok", "refused", "failed"}]
        /\ tries' \in [Set -> 0..RetryMax]
        /\ key' \in [Set -> Key \cup {nothing}]
        /\ text' \in [Set -> Text \cup {nothing}]
        /\ wire' \in SUBSET (Set \X (0..RetryMax))
        /\ store' \in [Key -> Text \cup {nothing}]
        /\ mixed' \in SUBSET Set
        /\ SetInv' /\ StoreInv' /\ AckInv'
    <2>1. CASE m_outStruct = nullptr
      <3>1. UNCHANGED setVars
        BY <2>1 DEF GraphCallback
      <3>2. SetInv' /\ StoreInv' /\ AckInv'
        BY <1>1, <3>1, SetsKept DEF TypeOK
      <3> QED
        BY <3>1, <3>2 DEF TypeOK, setVars
    <2>2. CASE m_outStruct # nullptr
      <3>1. PICK t \in Texts(SetsOfRound) : StartSets(SetsOfRound, t)
        BY <2>2 DEF GraphCallback
      <3>2. UNCHANGED <<tries, store>>
        BY <2>2 DEF GraphCallback
      <3> QED
        BY <1>1, <2>2, <3>1, <3>2, StartSetsKeeps DEF TypeOK
    <2> QED
      BY <2>1, <2>2
  <1>5. TypeOK'
    BY <1>1, <1>4 DEF TypeOK, readVars
  <1> QED
    BY <1>2, <1>3, <1>4, <1>5

-----------------------------------------------------------------------------
(* SET tasks *)

\* What a step of the task of SET s, its connections or Redis may do.
LEMMA SetStepKeeps ==
  ASSUME IInv, NEW s \in Set, task[s] # "new",
         UNCHANGED <<key, text, mixed, roundVars, readVars, overlapped>>,
         task' \in [Set -> {"new", "flight", "ok", "refused", "failed"}],
         tries' \in [Set -> 0..RetryMax],
         wire' \in SUBSET (Set \X (0..RetryMax)),
         task'[s] # "new",
         \A o \in Set \ {s} : task'[o] = task[o],
         \A o \in Set \ {s}, a \in 0..RetryMax : <<o, a>> \in wire' => <<o, a>> \in wire,
         Alive(s)' => Alive(s),
         \/ store' = store
         \/ /\ Alive(s) /\ text[s] # nothing
            /\ store' = [store EXCEPT ![key[s]] = text[s]],
         task'[s] = "ok" => task[s] = "ok" \/ (text[s] # nothing /\ store'[key[s]] = text[s])
  PROVE  IInv'
  <1> USE OutputAssumption, TextAssumption DEF IInv
  <1>1. /\ key[s] \in Key /\ text[s] \in Text \cup {nothing}
        /\ store \in [Key -> Text \cup {nothing}]
        /\ key \in [Set -> Key \cup {nothing}]
    BY DEF TypeOK, SetInv
  <1>2. store' \in [Key -> Text \cup {nothing}]
    BY <1>1
  <1>3. TypeOK'
    BY <1>2 DEF TypeOK, roundVars, readVars
  <1>4. RoundInv' /\ AnswerInv'
    BY DEF RoundInv, AnswerInv, roundVars, readVars
  <1>5. \A o \in Set : task'[o] = "new" <=> task[o] = "new"
    OBVIOUS
  <1>6. SetInv'
    <2> SUFFICES ASSUME NEW o \in Set
                 PROVE  /\ key[o] = nothing <=> task'[o] = "new"
                        /\ (\E a \in 0..RetryMax : <<o, a>> \in wire') => task'[o] # "new"
                        /\ task'[o] # "new" =>
                             /\ o[1] <= round
                             /\ stage # "idle" => o[1] < round
                             /\ \E m \in Round : From(o, m)'
      BY DEF SetInv, roundVars
    <2>1. \A m \in Round : From(o, m) => From(o, m)'
      BY DEF From, FailedRound, roundVars
    <2> QED
      BY <1>5, <2>1 DEF SetInv
  <1>7. StoreInv'
    <2> SUFFICES ASSUME NEW k \in Key
                 PROVE  \/ store'[k] = nothing
                        \/ \E o \in Set : task'[o] # "new" /\ key[o] = k /\ text[o] = store'[k]
      BY DEF StoreInv
    <2>1. CASE store'[k] = store[k]
      BY <1>5, <2>1 DEF StoreInv
    <2>2. CASE store'[k] # store[k]
      <3>1. k = key[s] /\ store'[k] = text[s]
        BY <1>1, <2>2
      <3> QED
        BY <3>1
    <2> QED
      BY <2>1, <2>2
  <1>8. AckInv'
    <2> SUFFICES ASSUME NEW p \in Set \ mixed, task'[p] # "new", Newest(p)
                 PROVE  /\ \A o \in Set \ {p} : key[o] = key[p] => ~Alive(o)'
                        /\ task'[p] = "ok" => text[p] # nothing /\ store'[key[p]] = text[p]
      BY DEF AckInv, Newest
    <2>1. /\ \A o \in Set \ {p} : key[o] = key[p] => ~Alive(o)
          /\ task[p] = "ok" => text[p] # nothing /\ store[key[p]] = text[p]
      BY <1>5 DEF AckInv
    <2>2. \A o \in Set : Alive(o)' => Alive(o)
      BY DEF Alive
    <2>3. CASE p = s
      BY <1>1, <2>1, <2>2, <2>3
    <2>4. CASE p # s
      <3>1. key[p] \in Key
        BY <1>1, <1>5 DEF SetInv
      <3>2. store'[key[p]] = store[key[p]]
        BY <1>1, <2>1, <2>4, <3>1
      <3> QED
        BY <2>1, <2>2, <2>4, <3>2
    <2> QED
      BY <2>3, <2>4
  <1> QED
    BY <1>3, <1>4, <1>6, <1>7, <1>8

LEMMA TaskKeeps ==
  ASSUME IInv, NEW s \in Set, SetStep(s)
  PROVE  IInv'
  <1> USE OutputAssumption, TextAssumption DEF IInv
  <1>1. /\ task \in [Set -> {"new", "flight", "ok", "refused", "failed"}]
        /\ tries \in [Set -> 0..RetryMax]
        /\ wire \in SUBSET (Set \X (0..RetryMax))
        /\ store \in [Key -> Text \cup {nothing}]
    BY DEF TypeOK
  <1>2. ASSUME NEW a \in 0..RetryMax, <<s, a>> \in wire
        PROVE  Alive(s) /\ task[s] # "new" /\ key[s] \in Key
    BY <1>2 DEF Alive, SetInv, TypeOK
  <1>3. CASE Answered(s)
    <2>1. <<s, tries[s]>> \in wire /\ tries[s] \in 0..RetryMax
      BY <1>1, <1>3 DEF Answered, Execute
    <2>2. Alive(s) /\ task[s] = "flight" /\ key[s] \in Key
      BY <1>2, <1>3, <2>1 DEF Answered
    <2>3. /\ task' = [task EXCEPT ![s] = Outcome(s)]
          /\ wire' = wire \ {<<s, tries[s]>>}
          /\ store' = IF text[s] = nothing THEN store ELSE [store EXCEPT ![key[s]] = text[s]]
          /\ UNCHANGED <<tries, key, text, mixed, roundVars, readVars, overlapped>>
      BY <1>3 DEF Answered, Execute
    <2>4. /\ task' \in [Set -> {"new", "flight", "ok", "refused", "failed"}]
          /\ task'[s] # "new"
          /\ \A o \in Set \ {s} : task'[o] = task[o]
          /\ task'[s] = "ok" => text[s] # nothing /\ store'[key[s]] = text[s]
      BY <1>1, <2>2, <2>3 DEF Outcome
    <2> QED
      BY <1>1, <2>2, <2>3, <2>4, SetStepKeeps
  <1>4. ASSUME NEW a \in 0..RetryMax, AnswerLost(s, a)
        PROVE  IInv'
    <2>1. <<s, a>> \in wire /\ Alive(s) /\ task[s] # "new" /\ key[s] \in Key
      BY <1>2, <1>4 DEF AnswerLost, Execute
    <2>2. /\ wire' = wire \ {<<s, a>>}
          /\ store' = IF text[s] = nothing THEN store ELSE [store EXCEPT ![key[s]] = text[s]]
          /\ UNCHANGED <<task, tries, key, text, mixed, roundVars, readVars, overlapped>>
      BY <1>4 DEF AnswerLost, Execute
    <2> QED
      BY <1>1, <2>1, <2>2, SetStepKeeps
  <1>5. ASSUME NEW a \in 0..RetryMax, RequestLost(s, a)
        PROVE  IInv'
    <2>1. <<s, a>> \in wire /\ Alive(s) /\ task[s] # "new"
      BY <1>2, <1>5 DEF RequestLost
    <2> QED
      BY <1>1, <1>5, <2>1, SetStepKeeps DEF RequestLost
  <1>6. CASE TryAgain(s)
    <2>1. Alive(s) /\ tries[s] + 1 \in 0..RetryMax
      BY <1>1, <1>6 DEF TryAgain, Alive
    <2>2. /\ tries' \in [Set -> 0..RetryMax]
          /\ wire' \in SUBSET (Set \X (0..RetryMax))
          /\ \A o \in Set \ {s}, a \in 0..RetryMax : <<o, a>> \in wire' => <<o, a>> \in wire
      BY <1>1, <1>6, <2>1 DEF TryAgain
    <2> QED
      BY <1>1, <1>6, <2>1, <2>2, SetStepKeeps DEF TryAgain
  <1>7. CASE GiveUp(s)
    <2>1. /\ task' \in [Set -> {"new", "flight", "ok", "refused", "failed"}]
          /\ task'[s] = "failed"
          /\ \A o \in Set \ {s} : task'[o] = task[o]
      BY <1>1, <1>7 DEF GiveUp
    <2> QED
      BY <1>1, <1>7, <2>1, SetStepKeeps DEF GiveUp, Alive
  <1> QED
    BY <1>3, <1>4, <1>5, <1>6, <1>7 DEF SetStep

-----------------------------------------------------------------------------
(* Readers *)

LEMMA ReadKeeps ==
  ASSUME IInv, NEW r \in Reader, Read(r)
  PROVE  IInv'
  <1> USE OutputAssumption, TextAssumption DEF IInv
  <1>1. /\ reading \in [Reader -> {"new", "null", "row", "col", "done"}]
        /\ answer \in [Reader -> Struct] /\ answer[r] \in Struct
        /\ seen \in [Reader -> 0..round]
        /\ m_outStruct # nullptr => m_outStruct \in Struct
        /\ cellRound \in 0..round /\ round \in 0..MaxRounds
        /\ reading[r] \in {"row", "col"} => m_outStruct # nullptr
    BY DEF TypeOK, RoundInv, AnswerInv
  <1>2. UNCHANGED <<roundVars, setVars>>
    BY DEF Read, ReadNull, ReadRow, ReadCol, ReadNames
  <1>3. RoundInv' /\ SetInv' /\ StoreInv' /\ AckInv'
    <2>1. RoundInv'
      BY <1>2 DEF RoundInv, roundVars
    <2> QED
      BY <1>2, <2>1, SetsKept DEF roundVars, TypeOK
  <1>4. ASSUME m_outStruct # nullptr, stage \in {"idle", "ended"}
        PROVE  cellRound \in Round /\ m_outStruct = pub[cellRound]
    BY <1>1, <1>4 DEF RoundInv, Round
  <1>5. ASSUME reading[r] \in {"row", "col"}, r \notin overlapped
        PROVE  /\ seen[r] \in Round /\ seen[r] = cellRound
               /\ m_outStruct # nullptr /\ m_outStruct = pub[seen[r]]
    <2>1. seen[r] \in Round /\ seen[r] = cellRound /\ stage \in {"idle", "ended"}
      BY <1>5 DEF AnswerInv
    <2>2. m_outStruct # nullptr
      BY <2>1 DEF RoundInv, Round
    <2> QED
      BY <1>4, <2>1, <2>2
  <1>6. \A q \in Reader \ {r} : /\ reading'[q] = reading[q] /\ answer'[q] = answer[q]
                                /\ seen'[q] = seen[q]
                                /\ q \in overlapped' <=> q \in overlapped
    BY <1>1 DEF Read, ReadNull, ReadRow, ReadCol, ReadNames
  <1> DEFINE Fine(q) ==
        /\ reading[q] \in {"row", "col", "done"} =>
             /\ seen[q] \in Round /\ seen[q] <= cellRound
             /\ answer[q].row = pub[seen[q]].row
        /\ reading[q] \in {"row", "col"} =>
             seen[q] = cellRound /\ stage \in {"idle", "ended"}
        /\ reading[q] \in {"col", "done"} => answer[q].col = pub[seen[q]].col
        /\ reading[q] = "done" => answer[q].info = pub[seen[q]].info
  <1>7. \A q \in Reader \ overlapped : Fine(q)
    BY DEF AnswerInv
  <1>8. ASSUME r \notin overlapped' => Fine(r)'
        PROVE  AnswerInv'
    <2>1. ASSUME NEW q \in Reader \ overlapped', q # r
          PROVE  Fine(q)'
      BY <1>2, <1>6, <1>7, <2>1 DEF roundVars
    <2> HIDE DEF Fine
    <2>2. \A q \in Reader \ overlapped' : Fine(q)'
      BY <1>8, <2>1
    <2>3. reading'[r] \in {"row", "col"} => cellRound # 0
      BY <1>1 DEF Read, ReadNull, ReadRow, ReadCol, ReadNames, RoundInv, AnswerInv
    <2>4. \A q \in Reader : reading'[q] \in {"row", "col"} => cellRound' # 0
      BY <1>2, <1>6, <2>3 DEF AnswerInv, roundVars
    <2> QED
      BY <2>2, <2>4 DEF AnswerInv, Fine
  <1> HIDE DEF Fine
  <1>9. TypeOK' /\ (r \notin overlapped' => Fine(r)')
    <2>1. CASE ReadNull(r)
      <3>1. TypeOK'
        BY <1>1, <2>1 DEF ReadNull, TypeOK, roundVars, setVars
      <3>2. reading'[r] = "null"
        BY <1>1, <2>1 DEF ReadNull
      <3> QED
        BY <3>1, <3>2 DEF Fine
    <2>2. CASE ReadRow(r)
      <3>1. /\ m_outStruct \in Struct /\ m_outStruct # nullptr
            /\ reading' = [reading EXCEPT ![r] = "row"]
            /\ answer' = [answer EXCEPT ![r] = [answer[r] EXCEPT !.row = m_outStruct.row]]
            /\ seen' = [seen EXCEPT ![r] = cellRound]
            /\ overlapped' = IF stage \in {"cleared", "shaped"}
                               THEN overlapped \cup {r} ELSE overlapped
        BY <1>1, <2>2 DEF ReadRow
      <3>2. [answer[r] EXCEPT !.row = m_outStruct.row] \in Struct
        BY <1>1, <3>1 DEF Struct
      <3>3. TypeOK'
        BY <1>1, <1>2, <3>1, <3>2 DEF TypeOK, roundVars, setVars
      <3>4. ASSUME r \notin overlapped'
            PROVE  Fine(r)'
        <4>1. stage \in {"idle", "ended"}
          BY <3>1, <3>4 DEF TypeOK
        <4>2. /\ reading'[r] = "row" /\ seen'[r] = cellRound
              /\ answer'[r].row = m_outStruct.row
          BY <1>1, <3>1 DEF Struct
        <4> QED
          BY <1>1, <1>2, <1>4, <3>1, <4>1, <4>2 DEF Fine, roundVars
      <3> QED
        BY <3>3, <3>4
    <2>3. CASE ReadCol(r)
      <3>1. /\ reading[r] = "row"
            /\ reading' = [reading EXCEPT ![r] = "col"]
            /\ answer' = [answer EXCEPT ![r] = [answer[r] EXCEPT !.col = m_outStruct.col]]
            /\ UNCHANGED <<seen, overlapped>>
        BY <1>1, <2>3 DEF ReadCol
      <3>2. ASSUME r \notin overlapped
            PROVE  m_outStruct # nullptr /\ m_outStruct = pub[seen[r]]
        BY <1>5, <3>1, <3>2
      <3>3. TypeOK'
        <4>1. [answer[r] EXCEPT !.col = m_outStruct.col] \in Struct
          <5>1. answer[r] \in Struct /\ m_outStruct \in Struct
            BY <1>1, <3>1
          <5> QED
            BY <5>1 DEF Struct
        <4> QED
          BY <1>1, <1>2, <3>1, <4>1 DEF TypeOK, roundVars, setVars
      <3>4. ASSUME r \notin overlapped'
            PROVE  Fine(r)'
        <4>1. /\ reading'[r] = "col" /\ answer'[r].col = m_outStruct.col
              /\ answer'[r].row = answer[r].row
          BY <1>1, <3>1 DEF Struct
        <4>2. /\ seen[r] \in Round /\ seen[r] <= cellRound /\ seen[r] = cellRound
              /\ answer[r].row = pub[seen[r]].row /\ stage \in {"idle", "ended"}
          BY <1>7, <3>1, <3>4 DEF Fine
        <4> QED
          BY <1>2, <3>1, <3>2, <3>4, <4>1, <4>2 DEF Fine, roundVars
      <3> QED
        BY <3>3, <3>4
    <2>4. CASE ReadNames(r)
      <3>1. /\ reading[r] = "col"
            /\ reading' = [reading EXCEPT ![r] = "done"]
            /\ answer' = [answer EXCEPT ![r] = [answer[r] EXCEPT !.info = m_outStruct.info]]
            /\ UNCHANGED <<seen, overlapped>>
        BY <1>1, <2>4 DEF ReadNames
      <3>2. ASSUME r \notin overlapped
            PROVE  m_outStruct # nullptr /\ m_outStruct = pub[seen[r]]
        BY <1>5, <3>1, <3>2
      <3>3. TypeOK'
        <4>1. [answer[r] EXCEPT !.info = m_outStruct.info] \in Struct
          <5>1. answer[r] \in Struct /\ m_outStruct \in Struct
            BY <1>1, <3>1
          <5> QED
            BY <5>1 DEF Struct
        <4> QED
          BY <1>1, <1>2, <3>1, <4>1 DEF TypeOK, roundVars, setVars
      <3>4. ASSUME r \notin overlapped'
            PROVE  Fine(r)'
        <4>1. /\ reading'[r] = "done" /\ answer'[r].info = m_outStruct.info
              /\ answer'[r].row = answer[r].row /\ answer'[r].col = answer[r].col
          BY <1>1, <3>1 DEF Struct
        <4>2. /\ seen[r] \in Round /\ seen[r] <= cellRound
              /\ answer[r].row = pub[seen[r]].row /\ answer[r].col = pub[seen[r]].col
          BY <1>7, <3>1, <3>4 DEF Fine
        <4> QED
          BY <1>2, <3>1, <3>2, <3>4, <4>1, <4>2 DEF Fine, roundVars
      <3> QED
        BY <3>3, <3>4
    <2> QED
      BY <2>1, <2>2, <2>3, <2>4 DEF Read
  <1> QED
    BY <1>3, <1>8, <1>9

-----------------------------------------------------------------------------
(* Theorems *)

LEMMA Inductive == IInv /\ [Next]_vars => IInv'
  <1> SUFFICES ASSUME IInv, [Next]_vars PROVE IInv'
    OBVIOUS
  <1>1. CASE Publish
    <2>1. CASE UpdateClear
      BY <2>1, UpdateClearKeeps
    <2>2. ASSUME NEW h \in Header, NEW rows \in 0..MaxRows, UpdateShape(rows, Len(h))
          PROVE  IInv'
      BY <2>2, UpdateShapeKeeps
    <2>3. ASSUME NEW h \in Header, NEW rows \in 0..MaxRows,
                 NEW c \in [Cells(rows, Len(h)) -> Kind], Construct(h, rows, c)
          PROVE  IInv'
      BY <2>3, ConstructKeeps
    <2>4. ASSUME NEW h \in Header, stage = "shaped", Len(h) = m_outStruct.col,
                 NEW c \in [Cells(m_outStruct.row, Len(h)) -> Kind], UpdateNames(h, c)
          PROVE  IInv'
      BY <2>4, UpdateNamesKeeps
    <2> QED
      BY <1>1, <2>1, <2>2, <2>3, <2>4 DEF Publish
  <1>2. CASE RoundFails
    BY <1>2, RoundFailsKeeps
  <1>3. CASE GraphCallback
    BY <1>3, GraphCallbackKeeps
  <1>4. ASSUME NEW s \in Set, SetStep(s)
        PROVE  IInv'
    BY <1>4, TaskKeeps
  <1>5. ASSUME NEW r \in Reader, Read(r)
        PROVE  IInv'
    BY <1>5, ReadKeeps
  <1>6. CASE UNCHANGED vars
    BY <1>6 DEF vars, roundVars, setVars, readVars, IInv, TypeOK, RoundInv, SetInv, From,
                FailedRound, StoreInv, AckInv, Newest, Alive, AnswerInv
  <1> QED
    BY <1>1, <1>2, <1>3, <1>4, <1>5, <1>6 DEF Next

LEMMA Invariant == Spec => []IInv
  BY InitIInv, Inductive, PTL DEF Spec

\* No SET is tried more often than RetryMax, and everything stays in its set
\* (the retries of runGraph's SET tasks, cbComputeGraph.cpp:529).
THEOREM TypeCorrect == Spec => []TypeOK
  BY Invariant, PTL DEF IInv

\* However the reads of /table_at_graph and the updates interleave: a request
\* that no update touched is answered with row, column and names of the table
\* published last (pipeline.cpp:142-154).
THEOREM AnswersAreLatest == Spec => []AnswerIsLatest
  <1>1. IInv => AnswerIsLatest
    <2> SUFFICES ASSUME IInv, NEW r \in Reader \ overlapped, reading[r] = "done"
                 PROVE  seen[r] \in Round /\ answer[r] = pub[seen[r]]
      BY DEF AnswerIsLatest
    <2>1. /\ seen[r] \in Round
          /\ answer[r].row = pub[seen[r]].row
          /\ answer[r].col = pub[seen[r]].col
          /\ answer[r].info = pub[seen[r]].info
      BY DEF IInv, AnswerInv
    <2>2. answer[r] \in Struct /\ pub[seen[r]] \in Struct
      BY <2>1 DEF IInv, TypeOK
    <2> QED
      BY <2>1, <2>2 DEF Struct
  <1> QED
    BY <1>1, Invariant, PTL

\* However SETs are lost, repeated and late: under a key Redis holds the text
\* of a cell published under that key, or that of a deleted cell, which needs
\* a failed round behind the publication (cbComputeGraph.cpp:514-541).
THEOREM PublishedIsCached == Spec => []CachedIsPublished
  <1>1. IInv => CachedIsPublished
    <2> SUFFICES ASSUME IInv, NEW k \in Key, store[k] # nothing
                 PROVE  \/ \E s \in Set : /\ store[k] = s
                                           /\ s[2] <= pub[s[1]].row /\ s[3] <= pub[s[1]].col
                                           /\ k = <<s[2], pub[s[1]].info[s[3]]>>
                        \/ store[k] = nan /\ \E n \in Round : IsKeyOf(k, n)
                        \/ /\ store[k] = garbage
                           /\ \E n, m \in Round : n > m /\ FailedRound(n) /\ IsKeyOf(k, m)
      BY DEF CachedIsPublished
    <2>1. PICK s \in Set : task[s] # "new" /\ key[s] = k /\ text[s] = store[k]
      BY DEF IInv, StoreInv
    <2>2. PICK m \in Round : From(s, m)
      BY <2>1 DEF IInv, SetInv
    <2>3. IsKeyOf(k, m)
      <3>1. s[2] \in Nat /\ s[2] >= 1 /\ s[3] \in Nat /\ s[3] >= 1
        BY DEF Set
      <3>2. pub[m].row \in Nat /\ pub[m].col \in Nat
        BY DEF IInv, TypeOK, Struct
      <3>3. s[2] \in 1..pub[m].row /\ s[3] \in 1..pub[m].col
        BY <2>2, <3>1, <3>2 DEF From
      <3> QED
        BY <2>1, <2>2, <3>3 DEF From, IsKeyOf
    <2>4. s[1] \in Round /\ s[1] \in Nat /\ m \in Nat
      BY DEF Set, Round
    <2> QED
      BY <2>1, <2>2, <2>3, <2>4 DEF From
  <1> QED
    BY <1>1, Invariant, PTL

\* A SET that was acknowledged, the newest of its key, and alone when it began
\* is what Redis holds (the acknowledgement that the empty callback of
\* cbComputeGraph.cpp:532 does not look at).
THEOREM AcknowledgedStays == Spec => []AcknowledgedIsStored
  <1>1. IInv => AcknowledgedIsStored
    BY DEF IInv, AckInv, AcknowledgedIsStored
  <1> QED
    BY <1>1, Invariant, PTL

-----------------------------------------------------------------------------
(* No cell is forgotten *)

\* The SET of a cell has been started for the key of the cell, and it is
\* answered according to what Redis did.
CellsInv ==
  \A s \in Set : HandedOver(s) =>
    /\ task[s] # "new"
    /\ key[s] = <<s[2], pub[s[1]].info[s[3]]>>
    /\ task[s] = "ok" => store[key[s]] # nothing
    /\ task[s] = "refused" => text[s] = nothing

LEMMA SetFacts ==
  ASSUME NEW s \in Set
  PROVE  s[1] \in Round /\ s[1] \in Nat /\ s[2] \in Nat \ {0} /\ s[3] \in Nat \ {0}
         /\ s[2] \in 1..MaxRows /\ s = <<s[1], s[2], s[3]>>
  BY OutputAssumption DEF Set, Round

\* A step that leaves the SETs alone hands no cell over.
LEMMA CellsKept ==
  ASSUME CellsInv, UNCHANGED setVars,
         \A s \in Set : HandedOver(s)' => HandedOver(s) /\ pub'[s[1]] = pub[s[1]]
  PROVE  CellsInv'
  BY DEF CellsInv, setVars

LEMMA PublishCells ==
  ASSUME IInv, CellsInv, Publish \/ RoundFails
  PROVE  CellsInv'
  <1> USE DEF IInv
  <1>1. UNCHANGED setVars
    BY DEF Publish, UpdateClear, UpdateShape, Construct, UpdateNames, RoundFails
  <1>2. round \in Nat
    BY DEF TypeOK
  <1>3. /\ stage' # "idle"
        /\ \/ stage = "idle" /\ round' = round + 1
           \/ stage # "idle" /\ round' = round
        /\ pub' = pub \/ pub' = [pub EXCEPT ![round'] = pub'[round']]
    <2>1. CASE RoundFails \/ UpdateClear
      BY <2>1 DEF RoundFails, UpdateClear
    <2>2. ASSUME NEW h, NEW rows, UpdateShape(rows, Len(h))
          PROVE  /\ stage' # "idle" /\ stage # "idle" /\ round' = round /\ pub' = pub
      BY <2>2 DEF UpdateShape
    <2>3. ASSUME NEW h, NEW rows, NEW c, Construct(h, rows, c)
          PROVE  /\ stage' # "idle" /\ stage = "idle" /\ round' = round + 1
                 /\ pub' = [pub EXCEPT ![round'] = pub'[round']]
      BY <1>2, <2>3 DEF Construct, Finish, TypeOK, Round
    <2>4. ASSUME NEW h, NEW c, UpdateNames(h, c)
          PROVE  /\ stage' # "idle" /\ stage # "idle" /\ round' = round
                 /\ pub' = [pub EXCEPT ![round'] = pub'[round']]
      BY <1>2, <2>4 DEF UpdateNames, Finish, TypeOK, Round
    <2> QED
      BY <2>1, <2>2, <2>3, <2>4 DEF Publish
  <1>4. ASSUME NEW s \in Set, HandedOver(s)'
        PROVE  HandedOver(s) /\ pub'[s[1]] = pub[s[1]]
    <2>1. s[1] < round' /\ s[1] \in Round /\ s[1] \in Nat
      BY <1>3, <1>4, SetFacts DEF HandedOver
    <2>2. pub'[s[1]] = pub[s[1]]
      BY <1>2, <1>3, <2>1 DEF TypeOK
    <2>3. s[1] < round \/ stage = "idle"
      BY <1>2, <1>3, <2>1
    <2> QED
      BY <1>4, <2>2, <2>3 DEF HandedOver
  <1> QED
    BY <1>1, <1>4, CellsKept

\* The callback starts the SETs of all cells of its round.
LEMMA CallbackCells ==
  ASSUME IInv, CellsInv, GraphCallback
  PROVE  CellsInv'
  <1> USE DEF IInv
  <1>1. /\ stage = "ended" /\ stage' = "idle"
        /\ UNCHANGED <<round, cellRound, m_outStruct, pub>>
        /\ round \in Nat /\ cellRound \in 0..round
    BY DEF GraphCallback, TypeOK
  <1> SUFFICES ASSUME NEW s \in Set, HandedOver(s)'
               PROVE  /\ task'[s] # "new"
                      /\ key'[s] = <<s[2], pub[s[1]].info[s[3]]>>
                      /\ task'[s] = "ok" => store'[key'[s]] # nothing
                      /\ task'[s] = "refused" => text'[s] = nothing
    BY <1>1 DEF CellsInv
  <1>2. s[2] <= pub[s[1]].row /\ s[3] <= pub[s[1]].col
    BY <1>1 DEF HandedOver
  <1>3. s[1] <= cellRound
    <2>1. pub[s[1]] # NoStruct
      BY <1>2, SetFacts DEF NoStruct
    <2> QED
      BY <1>1, <2>1, SetFacts DEF RoundInv
  <1>4. m_outStruct # nullptr
    BY <1>1, <1>3, SetFacts DEF RoundInv, Round
  <1>5. PICK t \in Texts(SetsOfRound) : StartSets(SetsOfRound, t)
    BY <1>4 DEF GraphCallback
  <1>6. store' = store
    BY <1>4 DEF GraphCallback
  <1>7. CASE s \in SetsOfRound
    <2>1. s[1] = round /\ GenKey(s[2], s[3]) = <<s[2], pub[cellRound].info[s[3]]>>
      BY <1>1, <1>4, <1>5, <1>7, CallbackFacts
    <2>2. cellRound = round
      BY <1>1, <1>3, <2>1
    <2>3. task'[s] = "flight" /\ key'[s] = GenKey(s[2], s[3])
      BY <1>5, <1>7 DEF StartSets
    <2> QED
      BY <2>1, <2>2, <2>3
  <1>8. CASE s \notin SetsOfRound
    <2>1. task'[s] = task[s] /\ key'[s] = key[s] /\ text'[s] = text[s]
      BY <1>5, <1>8 DEF StartSets
    <2>2. s[1] < round
      <3> SUFFICES ASSUME s[1] = round PROVE FALSE
        BY <1>1, <1>3, SetFacts
      <3>1. m_outStruct = pub[round]
        BY <1>1, <1>3, <1>4 DEF RoundInv
      <3>2. m_outStruct.row \in Nat /\ m_outStruct.col \in Nat
        BY <1>4 DEF TypeOK, Struct
      <3> QED
        BY <1>2, <1>8, <3>1, <3>2, SetFacts DEF SetsOfRound, Cells
    <2>3. HandedOver(s)
      BY <1>2, <2>2 DEF HandedOver
    <2> QED
      BY <1>6, <2>1, <2>3 DEF CellsInv
  <1> QED
    BY <1>7, <1>8

\* A SET is acknowledged when Redis holds something under its key, and what
\* Redis holds under a key is only replaced by something else.
LEMMA TaskCells ==
  ASSUME IInv, CellsInv, NEW s \in Set, SetStep(s)
  PROVE  CellsInv'
  <1> USE DEF IInv
  <1>1. UNCHANGED <<key, text, stage, round, pub>>
    BY DEF SetStep, Answered, TryAgain, GiveUp, AnswerLost, RequestLost, roundVars
  <1>2. \/ store' = store
        \/ text[s] # nothing /\ store' = [store EXCEPT ![key[s]] = text[s]]
    BY DEF SetStep, Answered, TryAgain, GiveUp, AnswerLost, RequestLost, Execute
  <1>3. \A k \in Key : store[k] # nothing => store'[k] # nothing
    BY <1>2 DEF TypeOK
  <1>4. \A o \in Set \ {s} : task'[o] = task[o]
    BY DEF SetStep, Answered, TryAgain, GiveUp, AnswerLost, RequestLost, TypeOK
  <1>5. \/ task'[s] = task[s]
        \/ task[s] # "new" /\ task'[s] = "failed"
        \/ task[s] # "new" /\ text[s] = nothing /\ task'[s] = "refused"
        \/ /\ task[s] # "new" /\ text[s] # nothing /\ task'[s] = "ok"
           /\ store' = [store EXCEPT ![key[s]] = text[s]]
    <2>1. CASE Answered(s)
      BY <2>1 DEF Answered, Execute, Outcome, TypeOK
    <2>2. CASE ~Answered(s)
      BY <2>2 DEF SetStep, TryAgain, GiveUp, AnswerLost, RequestLost, TypeOK
    <2> QED
      BY <2>1, <2>2
  <1> SUFFICES ASSUME NEW o \in Set, HandedOver(o)
               PROVE  /\ task'[o] # "new"
                      /\ key[o] = <<o[2], pub[o[1]].info[o[3]]>>
                      /\ task'[o] = "ok" => store'[key[o]] # nothing
                      /\ task'[o] = "refused" => text[o] = nothing
    BY <1>1 DEF CellsInv, HandedOver
  <1>6. /\ task[o] # "new"
        /\ key[o] = <<o[2], pub[o[1]].info[o[3]]>>
        /\ task[o] = "ok" => store[key[o]] # nothing
        /\ task[o] = "refused" => text[o] = nothing
    BY DEF CellsInv
  <1>7. key[o] \in Key /\ store \in [Key -> Text \cup {nothing}]
    BY <1>6 DEF SetInv, TypeOK
  <1>8. CASE task'[o] = task[o]
    BY <1>3, <1>6, <1>7, <1>8
  <1>9. CASE o = s /\ task'[s] # task[s]
    BY <1>5, <1>6, <1>7, <1>9
  <1> QED
    BY <1>4, <1>8, <1>9

LEMMA CellsStep == IInv /\ CellsInv /\ [Next]_vars => CellsInv'
  <1> SUFFICES ASSUME IInv, CellsInv, [Next]_vars PROVE CellsInv'
    OBVIOUS
  <1>1. CASE Publish \/ RoundFails
    BY <1>1, PublishCells
  <1>2. CASE GraphCallback
    BY <1>2, CallbackCells
  <1>3. ASSUME NEW s \in Set, SetStep(s)
        PROVE  CellsInv'
    BY <1>3, TaskCells
  <1>4. CASE UNCHANGED <<roundVars, setVars>>
    BY <1>4, CellsKept DEF HandedOver, roundVars
  <1> QED
    BY <1>1, <1>2, <1>3, <1>4
       DEF Next, vars, Read, ReadNull, ReadRow, ReadCol, ReadNames

\* No cell of any output is forgotten: without a value in Redis its SET is
\* under way, given up, or refused for want of a text (cbComputeGraph.cpp:
\* 514-541).
THEOREM MissingCellsHaveCause == Spec => []MissingHasCause
  <1>1. Init => CellsInv
    BY SetFacts DEF Init, CellsInv, HandedOver, NoStruct
  <1>2. IInv /\ CellsInv => MissingHasCause
    <2> SUFFICES ASSUME IInv, CellsInv, NEW s \in Set, HandedOver(s)
                 PROVE  \/ store[<<s[2], pub[s[1]].info[s[3]]>>] # nothing
                        \/ task[s] \in {"flight", "failed"}
                        \/ task[s] = "refused" /\ text[s] = nothing
      BY DEF MissingHasCause
    <2>1. task[s] \in {"new", "flight", "ok", "refused", "failed"}
      BY DEF IInv, TypeOK
    <2> QED
      BY <2>1 DEF CellsInv
  <1> QED
    BY <1>1, <1>2, CellsStep, Invariant, PTL DEF Spec
=============================================================================
