------------------------- MODULE ResultReportProofs -------------------------
(***************************************************************************)
(* Theorems about ResultReport for all result files, any order of the keys *)
(* and any number of executors of one digit.                               *)
(***************************************************************************)
EXTENDS ResultReport, TLAPS

LEMMA Constants ==
    /\ NumExecutors \in Nat /\ NumExecutors >= 1
    /\ \A k \in Key : Joined[k] \in Nat
    /\ Inputs \subseteq Seq(File)
BY ResultReportAssumption DEF ResultReportAssumption

LEMMA FileFacts ==
    ASSUME result_files \in Seq(File), NEW g \in 1..Len(result_files)
    PROVE  /\ result_files[g] \in File
           /\ result_files[g].lines \in Seq(Line)
           /\ result_files[g].product \in Product
           /\ Len(result_files[g].lines) \in Nat
           /\ \A m \in 1..Len(result_files[g].lines) : result_files[g].lines[m] \in Line
<1>1. result_files[g] \in File
  OBVIOUS
<1>2. result_files[g].lines \in Seq(Line) /\ result_files[g].product \in Product
  BY <1>1 DEF File
<1>3. QED
  BY <1>1, <1>2

-----------------------------------------------------------------------------
(***************************************************************************)
(* Type correctness.                                                       *)
(***************************************************************************)

LEMMA EmptyType == Empty \in [Executor -> Nat] /\ \A e \in Executor : Empty[e] = 0
BY DEF Empty

LEMMA TypeInit == Init => TypeOK
BY Constants, EmptyType DEF Init, TypeOK

\* Sorting keeps the number of the records, and what they are.
LEMMA SortFacts ==
    ASSUME TypeOK, Sort
    PROVE  \E p \in [1..Len(records) -> 1..Len(records)] :
              /\ \A j, k \in 1..Len(records) : p[j] = p[k] => j = k
              /\ \A k \in 1..Len(records) : \E j \in 1..Len(records) : p[j] = k
              /\ \A k \in 1..Len(records) : records'[k] = records[p[k]]
              /\ records' \in Seq(RecordOf)
              /\ Len(records') = Len(records)
              /\ \A j, k \in 1..Len(records) : j < k => InOrder(records'[j], records'[k])
<1>1. PICK p \in Bijection(1..Len(records), 1..Len(records)) :
          /\ \A j, k \in 1..Len(records) : j < k => InOrder(records[p[j]], records[p[k]])
          /\ records' = [k \in 1..Len(records) |-> records[p[k]]]
  BY DEF Sort
<1>2. /\ p \in [1..Len(records) -> 1..Len(records)]
      /\ \A j, k \in 1..Len(records) : p[j] = p[k] => j = k
      /\ \A k \in 1..Len(records) : \E j \in 1..Len(records) : p[j] = k
  BY <1>1 DEF Bijection, Injection, Surjection, IsInjective
<1>3. records \in Seq(RecordOf) /\ Len(records) \in Nat
  BY DEF TypeOK
<1>4. \A k \in 1..Len(records) : records[p[k]] \in RecordOf
  BY <1>2, <1>3
<1>5. records' \in Seq(RecordOf) /\ Len(records') = Len(records)
  BY <1>1, <1>3, <1>4
<1>6. QED
  BY <1>1, <1>2, <1>5

LEMMA TypeStep == TypeOK /\ [Next]_vars => TypeOK'
<1> SUFFICES ASSUME TypeOK, [Next]_vars PROVE TypeOK'
  OBVIOUS
<1> USE Constants
<1>1. CASE ReadLine
  <2>1. f \in 1..Len(result_files) /\ n \in Nat \ {0} /\ n <= Len(TheFile.lines)
    BY <1>1 DEF ReadLine, TypeOK
  <2>2. f' = f /\ n' \in Nat \ {0} /\ pc' \in {"read", "failed"}
        /\ UNCHANGED <<result_files, table>>
    BY <1>1 DEF ReadLine, TypeOK
  <2>3. records' \in Seq(RecordOf) /\ Len(records') >= Len(records)
    <3>1. CASE records' = records
      BY <3>1 DEF TypeOK
    <3>2. CASE records' = Append(records, Record(TheLine))
      <4>1. n >= 1 => TheLine \in Line /\ TheFile.product \in Product
        BY <2>1, FileFacts DEF TypeOK, TheLine, TheFile
      <4>2. n >= 1
        BY DEF TypeOK
      <4>3. Record(TheLine) \in RecordOf
        BY <4>1, <4>2 DEF Record, RecordOf, Line, Key, TypeOK
      <4>4. QED
        BY <3>2, <4>3 DEF TypeOK
    <3>3. QED
      BY <1>1, <3>1, <3>2 DEF ReadLine
  <2>4. QED
    BY <2>2, <2>3, <1>1 DEF TypeOK, table, ReadLine
<1>2. CASE NextFile \/ EndFiles
  BY <1>2, SMTT(30) DEF TypeOK, NextFile, EndFiles, reading, table
<1>3. CASE Sort
  <2>1. records' \in Seq(RecordOf) /\ Len(records') = Len(records)
    BY <1>3, SortFacts
  <2>2. pc' = "row" /\ UNCHANGED <<result_files, reading, table>>
    BY <1>3 DEF Sort
  <2>3. QED
    BY <2>1, <2>2 DEF TypeOK, reading, table
<1>4. CASE StartRow
  BY <1>4, EmptyType DEF TypeOK, StartRow, reading
<1>5. CASE FillCell
  <2>1. executor \in Executor /\ executor' \in 1..(NumExecutors + 1)
    BY <1>5 DEF TypeOK, FillCell, RowFull, Executor
  <2>2. i' \in 1..(Len(records) + 1)
    BY <1>5 DEF TypeOK, FillCell, Fits
  <2>3. cells' \in [Executor -> Nat]
    BY <1>5, <2>1, SMTT(30) DEF TypeOK, FillCell
  <2>4. QED
    BY <1>5, <2>1, <2>2, <2>3 DEF TypeOK, FillCell, reading
<1>6. CASE EndRow
  <2>1. records[model_index].key \in Key
    <3>1. model_index \in 1..Len(records) /\ records \in Seq(RecordOf)
      BY <1>6 DEF TypeOK, EndRow
    <3>2. records[model_index] \in RecordOf
      BY <3>1
    <3>3. QED
      BY <3>2 DEF RecordOf
  <2>2. [key |-> records[model_index].key, cells |-> cells] \in [key : Key, cells : [Executor -> Nat]]
    BY <2>1 DEF TypeOK
  <2>3. rows' \in Seq([key : Key, cells : [Executor -> Nat]])
    BY <1>6, <2>2 DEF EndRow, TypeOK
  <2>4. QED
    BY <1>6, <2>3 DEF TypeOK, EndRow, reading
<1>7. CASE Write \/ UNCHANGED vars
  BY <1>7 DEF TypeOK, Write, vars, reading, table
<1>8. QED
  BY <1>1, <1>2, <1>3, <1>4, <1>5, <1>6, <1>7 DEF Next

\* The table never looks past the last record, whatever the files hold.
THEOREM TypeCorrect == Spec => []TypeOK
BY TypeInit, TypeStep, PTL DEF Spec

-----------------------------------------------------------------------------
(***************************************************************************)
(* Every record is in one cell.  start is the first record that is not in  *)
(* a finished row.  Rows hold exactly the records before it, the cells of  *)
(* the row in progress exactly those from model_index to i - 1; and as     *)
(* long as that row holds none, the column of its first record is ahead,   *)
(* so that it will hold one.                                               *)
(***************************************************************************)

start == IF pc = "cell" THEN model_index ELSE i

Before == pc \in {"read", "sort", "failed"} => rows = <<>> /\ i = 1

RowsShow ==
    /\ \A r \in 1..Len(rows), e \in Executor : rows[r].cells[e] # 0 =>
          rows[r].cells[e] \in 1..(start - 1) /\ Shown(rows[r].cells[e], r, e)
    /\ \A k \in 1..(start - 1) : \E r \in 1..Len(rows), e \in Executor : Shown(k, r, e)
    /\ \A r, s \in 1..Len(rows), d, e \in Executor :
          rows[r].cells[d] = rows[s].cells[e] /\ rows[r].cells[d] # 0 => r = s /\ d = e
    /\ EveryRowShows

CellsShow ==
    /\ model_index <= i
    /\ \A e \in Executor : cells[e] # 0 =>
          /\ cells[e] \in model_index..(i - 1)
          /\ records[cells[e]].key = records[model_index].key
          /\ records[cells[e]].executor = e
          /\ e < executor
    /\ \A k \in model_index..(i - 1) : cells[records[k].executor] = k
    /\ i = model_index => executor <= records[model_index].executor

TableInv ==
    /\ Before
    /\ RowsShow
    /\ pc = "cell" => CellsShow
    /\ pc = "done" => i > Len(records)


\* What the type invariant says of the table's variables.
LEMMA TableTypes ==
    ASSUME TypeOK
    PROVE  /\ Len(records) \in Nat /\ Len(rows) \in Nat
           /\ i \in Nat /\ i >= 1 /\ i <= Len(records) + 1
           /\ start \in Nat /\ start >= 0 /\ start <= Len(records) + 1
           /\ \A k \in 1..Len(records) : records[k].executor \in Executor /\ records[k].key \in Key
           /\ \A r \in 1..Len(rows) : rows[r].cells \in [Executor -> Nat] /\ rows[r].key \in Key
           /\ \A e \in Executor : cells[e] \in Nat
<1> DEFINE Row == [key : Key, cells : [Executor -> Nat]]
<1>1. /\ records \in Seq(RecordOf) /\ i \in 1..(Len(records) + 1)
      /\ rows \in Seq(Row)
      /\ cells \in [Executor -> Nat]
      /\ pc = "cell" => model_index \in 1..Len(records)
  BY DEF TypeOK
<1>2. Len(records) \in Nat /\ Len(rows) \in Nat
  BY <1>1
<1>3. \A k \in 1..Len(records) : records[k] \in RecordOf
  BY <1>1
<1> HIDE DEF Row
<1>4. \A r \in 1..Len(rows) : rows[r] \in Row
  BY <1>1
<1>5. \A k \in 1..Len(records) : records[k].executor \in Executor /\ records[k].key \in Key
  BY <1>3 DEF RecordOf
<1>6. start \in Nat /\ start >= 0 /\ start <= Len(records) + 1
  BY <1>1, <1>2 DEF start
<1>7. \A r \in 1..Len(rows) : rows[r].cells \in [Executor -> Nat] /\ rows[r].key \in Key
  BY <1>4 DEF Row
<1>8. QED
  BY <1>1, <1>2, <1>5, <1>6, <1>7

LEMMA TableInit == Init => TableInv
BY DEF Init, TableInv, Before, RowsShow, EveryRowShows, start

\* A step that leaves rows, records and start alone leaves RowsShow alone.
LEMMA RowsKept ==
    ASSUME RowsShow, rows' = rows, records' = records, start' = start
    PROVE  RowsShow'
BY DEF RowsShow, EveryRowShows, Shown

\* Before the table is begun it says nothing.
LEMMA NoRows ==
    ASSUME rows = <<>>, start = 1
    PROVE  RowsShow
BY DEF RowsShow, EveryRowShows

LEMMA FillCellShow ==
    ASSUME TypeOK, FillCell, CellsShow
    PROVE  CellsShow'
<1>1. /\ executor \in Executor /\ executor \in Nat /\ executor' = executor + 1
      /\ model_index' = model_index /\ records' = records
      /\ model_index \in 1..Len(records) /\ model_index \in Nat
      /\ model_index <= i
  BY Constants DEF TypeOK, FillCell, RowFull, Executor, CellsShow
<1>2. /\ Len(records) \in Nat /\ i \in Nat /\ i >= 1 /\ i <= Len(records) + 1
      /\ \A k \in 1..Len(records) : records[k].executor \in Executor
      /\ \A e \in Executor : cells[e] \in Nat
  BY TableTypes
<1>3. CASE Fits
  <2>1. cells' = [cells EXCEPT ![executor] = i] /\ i' = i + 1
    BY <1>3 DEF FillCell
  <2>2. i \in 1..Len(records) /\ records[i].executor = executor
        /\ records[i].key = records[model_index].key
    BY <1>3, <1>2 DEF Fits
  <2>3. cells \in [Executor -> Nat]
    BY DEF TypeOK
  <2>4. \A e \in Executor : cells'[e] = IF e = executor THEN i ELSE cells[e]
    BY <2>1, <2>3
  <2>5. ASSUME NEW e \in Executor, cells'[e] # 0
        PROVE  /\ cells'[e] \in model_index..i
               /\ records[cells'[e]].key = records[model_index].key
               /\ records[cells'[e]].executor = e
               /\ e < executor + 1
    <3>1. CASE e = executor
      BY <3>1, <2>2, <2>4, <1>1, <1>2
    <3>2. CASE e # executor
      <4>1. cells'[e] = cells[e] /\ e \in Nat
        BY <3>2, <2>4 DEF Executor
      <4>2. /\ cells[e] \in model_index..(i - 1)
            /\ records[cells[e]].key = records[model_index].key
            /\ records[cells[e]].executor = e
            /\ e < executor
        BY <4>1, <2>5 DEF CellsShow
      <4>3. QED
        BY <4>1, <4>2, <1>1, <1>2
    <3>3. QED
      BY <3>1, <3>2
  <2>6. ASSUME NEW k \in model_index..i
        PROVE  cells'[records[k].executor] = k
    <3>1. CASE k = i
      BY <3>1, <2>2, <2>4, <1>1
    <3>2. CASE k # i
      <4>1. k \in model_index..(i - 1) /\ k \in 1..Len(records) /\ k # 0
        BY <3>2, <2>2, <1>1, <1>2
      <4>2. cells[records[k].executor] = k /\ records[k].executor \in Executor
        BY <4>1, <1>2 DEF CellsShow
      <4>3. records[k].executor < executor
        BY <4>1, <4>2 DEF CellsShow
      <4>4. records[k].executor # executor
        BY <4>2, <4>3, <1>1 DEF Executor
      <4>5. QED
        BY <4>2, <4>4, <2>4
    <3>3. QED
      BY <3>1, <3>2
  <2>7. i' - 1 = i /\ model_index <= i' /\ i' # model_index
    BY <2>1, <1>1, <1>2
  <2>8. QED
    BY <2>5, <2>6, <2>7, <1>1 DEF CellsShow
<1>4. CASE ~Fits
  <2>1. cells' = cells /\ i' = i
    BY <1>4 DEF FillCell
  <2>2. i = model_index => executor + 1 <= records[model_index].executor
    <3>1. i = model_index => records[model_index].executor # executor
      BY <1>4, <1>1 DEF Fits
    <3>2. records[model_index].executor \in Nat
      BY <1>1, <1>2, Constants DEF Executor
    <3>3. QED
      BY <3>1, <3>2, <1>1 DEF CellsShow
  <2>3. \A e \in Executor : e < executor => e < executor + 1
    BY <1>1 DEF Executor
  <2>4. QED
    BY <2>1, <2>2, <2>3, <1>1 DEF CellsShow
<1>5. QED
  BY <1>3, <1>4

\* The row that is done holds the records from model_index to i - 1.
LEMMA EndRowShows ==
    ASSUME TypeOK, EndRow, RowsShow, CellsShow
    PROVE  RowsShow'
<1> DEFINE new == [key |-> records[model_index].key, cells |-> cells]
<1> USE TableTypes
<1>1. /\ rows' = Append(rows, new) /\ records' = records /\ start = model_index /\ start' = i
      /\ model_index \in 1..Len(records) /\ executor > NumExecutors /\ executor \in Nat
      /\ model_index <= i
  BY DEF EndRow, start, RowFull, TypeOK, CellsShow
<1>2. /\ Len(rows') = Len(rows) + 1
      /\ \A r \in 1..Len(rows) : rows'[r] = rows[r]
      /\ rows'[Len(rows) + 1] = new
  BY <1>1
<1>3. model_index < i
  <2>1. records[model_index].executor \in 1..NumExecutors
    BY <1>1 DEF Executor
  <2>2. i # model_index
    BY <2>1, <1>1, Constants DEF CellsShow
  <2>3. QED
    BY <2>2, <1>1
<1> HIDE DEF new
<1>4. ASSUME NEW r \in 1..Len(rows'), NEW e \in Executor, rows'[r].cells[e] # 0
      PROVE  /\ rows'[r].cells[e] \in 1..(i - 1)
             /\ rows'[r].key = records[rows'[r].cells[e]].key
             /\ records[rows'[r].cells[e]].executor = e
             /\ (r = Len(rows) + 1) <=> (rows'[r].cells[e] >= model_index)
  <2>1. CASE r \in 1..Len(rows)
    <3>1. rows'[r] = rows[r]
      BY <2>1, <1>2
    <3>2. rows[r].cells[e] \in 1..(model_index - 1) /\ Shown(rows[r].cells[e], r, e)
      BY <3>1, <2>1, <1>1, <1>4 DEF RowsShow
    <3>3. QED
      BY <3>1, <3>2, <2>1, <1>1, SMTT(30) DEF Shown
  <2>2. CASE r = Len(rows) + 1
    <3>1. rows'[r].cells[e] = cells[e] /\ rows'[r].key = records[model_index].key
      BY <2>2, <1>2 DEF new
    <3>2. cells[e] \in model_index..(i - 1)
      BY <3>1, <1>4 DEF CellsShow
    <3>3. QED
      BY <3>1, <3>2, <2>2, <1>1, <1>4 DEF CellsShow
  <2>3. QED
    BY <2>1, <2>2, <1>2
<1>5. ASSUME NEW k \in 1..(i - 1)
      PROVE  \E r \in 1..Len(rows'), e \in Executor :
                rows'[r].cells[e] = k /\ rows'[r].key = records[k].key /\ records[k].executor = e
  <2>1. CASE k < model_index
    <3>1. PICK r \in 1..Len(rows), e \in Executor : Shown(k, r, e)
      BY <2>1, <1>1 DEF RowsShow
    <3>2. r \in 1..Len(rows') /\ rows'[r] = rows[r]
      BY <3>1, <1>2
    <3>3. QED
      BY <3>1, <3>2 DEF Shown
  <2>2. CASE k >= model_index
    <3>1. k \in model_index..(i - 1) /\ k \in 1..Len(records) /\ k # 0
      BY <2>2, <1>1
    <3>2. cells[records[k].executor] = k /\ records[k].executor \in Executor
      BY <3>1 DEF CellsShow
    <3>3. records[k].key = records[model_index].key
      BY <3>1, <3>2 DEF CellsShow
    <3>4. Len(rows) + 1 \in 1..Len(rows') /\ rows'[Len(rows) + 1].cells = cells
          /\ rows'[Len(rows) + 1].key = records[model_index].key
      BY <1>2 DEF new
    <3>5. QED
      BY <3>2, <3>3, <3>4
  <2>3. QED
    BY <2>1, <2>2, <1>1
<1>6. ASSUME NEW r \in 1..Len(rows'), NEW s \in 1..Len(rows'), NEW d \in Executor, NEW e \in Executor,
             rows'[r].cells[d] = rows'[s].cells[e], rows'[r].cells[d] # 0
      PROVE  r = s /\ d = e
  <2>1. rows'[s].cells[e] # 0
    BY <1>6
  <2>2. /\ records[rows'[r].cells[d]].executor = d
        /\ (r = Len(rows) + 1) <=> (rows'[r].cells[d] >= model_index)
    BY <1>4, <1>6
  <2>3. /\ records[rows'[s].cells[e]].executor = e
        /\ (s = Len(rows) + 1) <=> (rows'[s].cells[e] >= model_index)
    BY <1>4, <2>1
  <2>4. d = e
    BY <2>2, <2>3, <1>6
  <2>5. (r = Len(rows) + 1) <=> (s = Len(rows) + 1)
    BY <2>2, <2>3, <1>6
  <2>6. CASE r \in 1..Len(rows) /\ s \in 1..Len(rows)
    <3>1. rows[r].cells[d] = rows[s].cells[e] /\ rows[r].cells[d] # 0
      BY <2>6, <1>2, <1>6
    <3>2. \A x, y \in 1..Len(rows), u, v \in Executor :
             rows[x].cells[u] = rows[y].cells[v] /\ rows[x].cells[u] # 0 => x = y
      BY DEF RowsShow
    <3>3. r = s
      BY <2>6, <3>1, <3>2, ZenonT(40)
    <3>4. QED
      BY <2>4, <3>3
  <2>7. QED
    BY <2>4, <2>5, <2>6, <1>2
<1>7. ASSUME NEW r \in 1..Len(rows')
      PROVE  \E e \in Executor : rows'[r].cells[e] # 0
  <2>1. CASE r \in 1..Len(rows)
    BY <2>1, <1>2 DEF RowsShow, EveryRowShows
  <2>2. CASE r = Len(rows) + 1
    <3>1. model_index \in model_index..(i - 1) /\ model_index # 0
      BY <1>3, <1>1
    <3>2. cells[records[model_index].executor] = model_index /\ records[model_index].executor \in Executor
      BY <3>1, <1>1 DEF CellsShow
    <3>3. rows'[r].cells = cells
      BY <2>2, <1>2 DEF new
    <3>4. QED
      BY <3>1, <3>2, <3>3
  <2>3. QED
    BY <2>1, <2>2, <1>2
<1>8. \A r \in 1..Len(rows'), e \in Executor : rows'[r].cells[e] # 0 =>
         rows'[r].cells[e] \in 1..(start' - 1) /\ Shown(rows[r].cells[e], r, e)'
  BY <1>1, <1>4 DEF Shown
<1>9. \A k \in 1..(start' - 1) : \E r \in 1..Len(rows'), e \in Executor : Shown(k, r, e)'
  <2> SUFFICES ASSUME NEW k \in 1..(i - 1)
               PROVE  \E r \in 1..Len(rows'), e \in Executor : Shown(k, r, e)'
    BY <1>1
  <2>1. QED
    BY <1>1, <1>5 DEF Shown
<1>10. QED
  BY <1>6, <1>7, <1>8, <1>9 DEF RowsShow, EveryRowShows

LEMMA TableStep == TypeOK /\ TypeOK' /\ TableInv /\ [Next]_vars => TableInv'
<1> SUFFICES ASSUME TypeOK, TypeOK', TableInv, [Next]_vars PROVE TableInv'
  OBVIOUS
<1> USE DEF TableInv
<1>1. CASE ReadLine \/ NextFile \/ EndFiles \/ Sort
  <2>1. rows = <<>> /\ i = 1 /\ rows' = rows /\ i' = i
        /\ pc' \in {"read", "sort", "failed", "row"}
    BY <1>1 DEF ReadLine, NextFile, EndFiles, Sort, Before, table
  <2>2. start' = 1
    BY <2>1 DEF start
  <2>3. RowsShow'
    BY <2>1, <2>2 DEF RowsShow, EveryRowShows
  <2>4. QED
    BY <2>1, <2>3 DEF Before
<1>2. CASE StartRow
  <2>1. RowsShow'
    BY <1>2, RowsKept DEF StartRow, start
  <2>2. i \in 1..Len(records) /\ records' = records /\ i' = i /\ model_index' = i
        /\ executor' = 1 /\ cells' = Empty /\ pc' = "cell"
    BY <1>2, TableTypes DEF StartRow
  <2>3. records[i].executor \in 1..NumExecutors
    BY <2>2, TableTypes DEF Executor
  <2>4. CellsShow'
    BY <2>2, <2>3, EmptyType, Constants DEF CellsShow
  <2>5. QED
    BY <2>1, <2>2, <2>4 DEF Before
<1>3. CASE FillCell
  <2>1. pc = "cell" /\ pc' = "cell"
    BY <1>3 DEF FillCell
  <2>2. CellsShow'
    BY <1>3, <2>1, FillCellShow
  <2>3. RowsShow'
    BY <1>3, RowsKept DEF FillCell, start
  <2>4. QED
    BY <2>1, <2>2, <2>3 DEF Before
<1>4. CASE EndRow
  <2>1. pc = "cell" /\ pc' = "row"
    BY <1>4 DEF EndRow
  <2>2. RowsShow'
    BY <1>4, <2>1, EndRowShows
  <2>3. QED
    BY <2>1, <2>2 DEF Before
<1>5. CASE Write
  <2>1. RowsShow'
    BY <1>5, RowsKept DEF Write, start, table
  <2>2. pc' = "done" /\ i' > Len(records')
    BY <1>5 DEF Write, table
  <2>3. QED
    BY <2>1, <2>2 DEF Before
<1>6. CASE UNCHANGED vars
  BY <1>6 DEF vars, table, Before, RowsShow, EveryRowShows, Shown, CellsShow, start
<1>7. QED
  BY <1>1, <1>2, <1>3, <1>4, <1>5, <1>6 DEF Next

LEMMA TableTheorem == Spec => [](TypeOK /\ TableInv)
BY TypeInit, TypeStep, TableInit, TableStep, PTL DEF Spec

\* The finished table shows every record in one cell, of its own row and
\* column, and in no other.
THEOREM OnceTheorem == Spec => []EveryResultOnce
<1>1. TypeOK /\ TableInv => EveryResultOnce
  <2> SUFFICES ASSUME TypeOK, TableInv, pc = "done" PROVE EveryResultOnce
    BY DEF EveryResultOnce
  <2>1. start = Len(records) + 1
    BY TableTypes DEF TableInv, start
  <2>2. start - 1 = Len(records)
    BY <2>1, TableTypes
  <2>3. QED
    BY <2>2 DEF TableInv, RowsShow, EveryResultOnce
<1>2. QED
  BY <1>1, TableTheorem, PTL

\* Every row holds a record, so that the loop over the records ends.
THEOREM RowTheorem == Spec => []EveryRowShows
<1>1. TableInv => EveryRowShows
  BY DEF TableInv, RowsShow
<1>2. QED
  BY <1>1, TableTheorem, PTL

-----------------------------------------------------------------------------
(***************************************************************************)
(* Every wanted line is one record: the records are the wanted lines       *)
(* before line n of file f.                                                *)
(***************************************************************************)

FromApart == \A j, k \in 1..Len(records) : records[j].from = records[k].from => j = k

FromLines == \A k \in 1..Len(records) :
    LET file == result_files[records[k].from[1]]
        line == file.lines[records[k].from[2]]
    IN  /\ line.option = Option
        /\ records[k].key = <<line.model, file.product>>
        /\ records[k].executor = line.executor

Passed(g, m) == g < f \/ (g = f /\ m < n)

Recorded(g, m) ==
    result_files[g].lines[m].option = Option => \E k \in 1..Len(records) : records[k].from = <<g, m>>

ReadInv ==
    /\ FromApart
    /\ FromLines
    /\ pc = "read" =>
          \A k \in 1..Len(records) : Passed(records[k].from[1], records[k].from[2])
    /\ pc # "failed" =>
          \A g \in 1..Len(result_files) : \A m \in 1..Len(result_files[g].lines) :
              pc # "read" \/ Passed(g, m) => Recorded(g, m)


LEMMA FromType ==
    ASSUME TypeOK, NEW k \in 1..Len(records)
    PROVE  records[k].from \in Nat \X Nat
<1>1. records[k] \in RecordOf
  BY DEF TypeOK
<1>2. QED
  BY <1>1 DEF RecordOf

LEMMA ReadInit == Init => ReadInv
BY Constants DEF Init, ReadInv, FromApart, FromLines, Passed

\* A line that is passed over, or ends the program, makes no record.
LEMMA ReadLineKeeps ==
    ASSUME TypeOK, ReadInv, ReadLine, records' = records
    PROVE  ReadInv'
<1>1. result_files' = result_files /\ f' = f /\ n \in Nat /\ f \in Nat /\ pc = "read"
  BY DEF ReadLine, TypeOK
<1>2. FromApart' /\ FromLines'
  BY <1>1 DEF ReadInv, FromApart, FromLines
<1>3. CASE pc' = "failed"
  BY <1>2, <1>3 DEF ReadInv
<1>4. CASE pc' = "read"
  <2>1. n' = n + 1 /\ (TheLine.option # Option \/ records' = Append(records, Record(TheLine)))
    BY <1>1, <1>4 DEF ReadLine, Wanted
  <2>2. records \in Seq(RecordOf) /\ Len(records) \in Nat
    BY DEF TypeOK
  <2>3. TheLine.option # Option
    BY <2>1, <2>2
  <2>4. ASSUME NEW k \in 1..Len(records)
        PROVE  Passed(records[k].from[1], records[k].from[2])'
    <3>1. records[k].from \in Nat \X Nat
      BY FromType
    <3>2. Passed(records[k].from[1], records[k].from[2])
      BY <1>1 DEF ReadInv
    <3>3. QED
      BY <1>1, <2>1, <3>1, <3>2 DEF Passed
  <2>5. ASSUME NEW g \in 1..Len(result_files), NEW m \in 1..Len(result_files[g].lines), Passed(g, m)'
        PROVE  Recorded(g, m)'
    <3>1. CASE g = f /\ m = n
      BY <3>1, <1>1, <2>3 DEF Recorded, TheLine, TheFile
    <3>2. CASE ~(g = f /\ m = n)
      <4>1. m \in Int /\ g \in Int
        OBVIOUS
      <4>2. Passed(g, m)
        BY <3>2, <4>1, <2>5, <2>1, <1>1 DEF Passed
      <4>3. Recorded(g, m)
        BY <4>2, <1>1 DEF ReadInv
      <4>4. QED
        BY <4>3, <1>1 DEF Recorded
    <3>3. QED
      BY <3>1, <3>2
  <2>6. QED
    BY <1>1, <1>2, <1>4, <2>4, <2>5 DEF ReadInv
<1>5. QED
  BY <1>1, <1>3, <1>4 DEF ReadLine

LEMMA ReadLineRecords ==
    ASSUME TypeOK, ReadInv, ReadLine, records' # records
    PROVE  ReadInv'
<1> DEFINE new == Record(TheLine)
<1>1. /\ result_files' = result_files /\ f' = f /\ n' = n + 1 /\ n \in Nat /\ f \in Nat
      /\ pc = "read" /\ pc' = "read" /\ Wanted(TheLine)
      /\ records' = Append(records, new)
  BY DEF ReadLine, TypeOK
<1>2. records \in Seq(RecordOf) /\ Len(records) \in Nat
  BY DEF TypeOK
<1>3. /\ Len(records') = Len(records) + 1
      /\ \A k \in 1..Len(records) : records'[k] = records[k]
      /\ records'[Len(records) + 1] = new
  BY <1>1, <1>2
<1>4. /\ new.from = <<f, n>>
      /\ TheLine.option = Option
      /\ new.key = <<TheLine.model, TheFile.product>>
      /\ new.executor = TheLine.executor
  BY <1>1 DEF Record, Wanted
<1> HIDE DEF new
<1>5. ASSUME NEW k \in 1..Len(records)
      PROVE  /\ records[k].from \in Nat \X Nat
             /\ Passed(records[k].from[1], records[k].from[2])
  BY <1>1, FromType DEF ReadInv
<1>6. ASSUME NEW k \in 1..Len(records) PROVE records[k].from # <<f, n>>
  <2> SUFFICES ASSUME records[k].from = <<f, n>> PROVE FALSE
    OBVIOUS
  <2>1. Passed(f, n)
    BY <1>5
  <2>2. QED
    BY <2>1, <1>1 DEF Passed
<1>7. FromApart'
  <2> SUFFICES ASSUME NEW j \in 1..Len(records'), NEW k \in 1..Len(records'),
                      records'[j].from = records'[k].from
               PROVE  j = k
    BY DEF FromApart
  <2>1. CASE j \in 1..Len(records) /\ k \in 1..Len(records)
    BY <2>1, <1>3 DEF ReadInv, FromApart
  <2>2. CASE j = Len(records) + 1 /\ k \in 1..Len(records)
    BY <2>2, <1>3, <1>4, <1>6
  <2>3. CASE k = Len(records) + 1 /\ j \in 1..Len(records)
    BY <2>3, <1>3, <1>4, <1>6
  <2>4. QED
    BY <2>1, <2>2, <2>3, <1>2, <1>3
<1>8. FromLines'
  <2> SUFFICES ASSUME NEW k \in 1..Len(records')
               PROVE  LET file == result_files[records'[k].from[1]]
                          line == file.lines[records'[k].from[2]]
                      IN  /\ line.option = Option
                          /\ records'[k].key = <<line.model, file.product>>
                          /\ records'[k].executor = line.executor
    BY <1>1 DEF FromLines
  <2>1. CASE k \in 1..Len(records)
    BY <2>1, <1>3, ZenonT(40) DEF ReadInv, FromLines
  <2>2. CASE k = Len(records) + 1
    BY <2>2, <1>3, <1>4 DEF TheLine, TheFile
  <2>3. k \in 1..Len(records) \/ k = Len(records) + 1
    BY <1>2, <1>3
  <2>4. QED
    BY <2>1, <2>2, <2>3
<1>9. ASSUME NEW k \in 1..Len(records')
      PROVE  Passed(records[k].from[1], records[k].from[2])'
  <2>1. CASE k \in 1..Len(records)
    BY <2>1, <1>1, <1>3, <1>5 DEF Passed
  <2>2. CASE k = Len(records) + 1
    BY <2>2, <1>1, <1>3, <1>4 DEF Passed
  <2>3. QED
    BY <2>1, <2>2, <1>2, <1>3
<1>10. ASSUME NEW g \in 1..Len(result_files), NEW m \in 1..Len(result_files[g].lines), Passed(g, m)'
       PROVE  Recorded(g, m)'
  <2>1. CASE g = f /\ m = n
    <3>1. Len(records) + 1 \in 1..Len(records')
      BY <1>2, <1>3
    <3>2. records'[Len(records) + 1].from = <<g, m>>
      BY <2>1, <1>3, <1>4
    <3>3. QED
      BY <3>1, <3>2, <1>1 DEF Recorded
  <2>2. CASE ~(g = f /\ m = n)
    <3>1. Passed(g, m)
      BY <2>2, <1>10, <1>1 DEF Passed
    <3>2. Recorded(g, m)
      BY <3>1, <1>1 DEF ReadInv
    <3>3. \A k \in 1..Len(records) : k \in 1..Len(records') /\ records'[k].from = records[k].from
      BY <1>2, <1>3
    <3>4. QED
      BY <3>2, <3>3, <1>1 DEF Recorded
  <2>3. QED
    BY <2>1, <2>2
<1>11. QED
  BY <1>1, <1>7, <1>8, <1>9, <1>10 DEF ReadInv

\* The lines before the first of the next file are all lines of the files
\* before it, and the end of the last file is past all lines.
LEMMA NextFileKeeps ==
    ASSUME TypeOK, ReadInv, NextFile \/ EndFiles
    PROVE  ReadInv'
<1>1. /\ result_files' = result_files /\ records' = records /\ pc = "read"
      /\ n \in Nat /\ f \in Nat /\ result_files \in Seq(File)
  BY DEF NextFile, EndFiles, TypeOK
<1>2. FromApart' /\ FromLines'
  BY <1>1 DEF ReadInv, FromApart, FromLines
<1>3. \A k \in 1..Len(records) : records[k].from \in Nat \X Nat
                              /\ Passed(records[k].from[1], records[k].from[2])
  BY <1>1, FromType DEF ReadInv
<1>4. CASE NextFile
  <2>1. f' = f + 1 /\ n' = 1 /\ pc' = "read" /\ n > Len(result_files[f].lines)
    BY <1>1, <1>4 DEF NextFile, TheFile
  <2>2. ASSUME NEW k \in 1..Len(records)
        PROVE  Passed(records[k].from[1], records[k].from[2])'
    BY <1>1, <1>3, <2>1 DEF Passed
  <2>3. ASSUME NEW g \in 1..Len(result_files), NEW m \in 1..Len(result_files[g].lines), Passed(g, m)'
        PROVE  Recorded(g, m)'
    <3>1. Len(result_files[g].lines) \in Nat
      BY <1>1, FileFacts
    <3>2. g < f + 1 \/ (g = f + 1 /\ m < 1)
      BY <2>3, <2>1 DEF Passed
    <3>3. g < f \/ (g = f /\ m <= Len(result_files[f].lines))
      BY <3>1, <3>2, <1>1
    <3>4. Passed(g, m)
      BY <3>1, <3>3, <2>1, <1>1 DEF Passed
    <3>5. QED
      BY <3>4, <1>1 DEF ReadInv, Recorded
  <2>4. QED
    BY <1>1, <1>2, <2>1, <2>2, <2>3 DEF ReadInv
<1>5. CASE EndFiles
  <2>1. pc' = "sort" /\ f > Len(result_files)
    BY <1>5 DEF EndFiles
  <2>2. ASSUME NEW g \in 1..Len(result_files), NEW m \in 1..Len(result_files[g].lines)
        PROVE  Recorded(g, m)'
    <3>1. Len(result_files) \in Nat
      BY <1>1
    <3>2. Passed(g, m)
      BY <3>1, <2>1, <1>1 DEF Passed
    <3>3. QED
      BY <3>2, <1>1 DEF ReadInv, Recorded
  <2>3. QED
    BY <1>1, <1>2, <2>1, <2>2 DEF ReadInv
<1>6. QED
  BY <1>4, <1>5

LEMMA SortKeeps ==
    ASSUME TypeOK, ReadInv, Sort
    PROVE  ReadInv'
<1>1. result_files' = result_files /\ pc = "sort" /\ pc' = "row"
  BY DEF Sort
<1>2. PICK p \in [1..Len(records) -> 1..Len(records)] :
        /\ \A j, k \in 1..Len(records) : p[j] = p[k] => j = k
        /\ \A k \in 1..Len(records) : \E j \in 1..Len(records) : p[j] = k
        /\ \A k \in 1..Len(records) : records'[k] = records[p[k]]
        /\ Len(records') = Len(records)
  BY SortFacts
<1>3. \A k \in 1..Len(records) : p[k] \in 1..Len(records)
  BY <1>2
<1>4. FromApart'
  <2> SUFFICES ASSUME NEW j \in 1..Len(records), NEW k \in 1..Len(records),
                      records'[j].from = records'[k].from
               PROVE  j = k
    BY <1>2 DEF FromApart
  <2>1. records[p[j]].from = records[p[k]].from
    BY <1>2
  <2>2. p[j] = p[k]
    BY <2>1, <1>3 DEF ReadInv, FromApart
  <2>3. QED
    BY <2>2, <1>2
<1>5. FromLines'
  <2> SUFFICES ASSUME NEW k \in 1..Len(records)
               PROVE  LET file == result_files[records'[k].from[1]]
                          line == file.lines[records'[k].from[2]]
                      IN  /\ line.option = Option
                          /\ records'[k].key = <<line.model, file.product>>
                          /\ records'[k].executor = line.executor
    BY <1>1, <1>2 DEF FromLines
  <2>1. records'[k] = records[p[k]] /\ p[k] \in 1..Len(records)
    BY <1>2, <1>3
  <2>2. QED
    BY <2>1 DEF ReadInv, FromLines
<1>6. ASSUME NEW g \in 1..Len(result_files), NEW m \in 1..Len(result_files[g].lines)
      PROVE  Recorded(g, m)'
  <2>1. Recorded(g, m)
    BY <1>1 DEF ReadInv
  <2>2. ASSUME NEW k \in 1..Len(records)
        PROVE  \E j \in 1..Len(records') : records'[j].from = records[k].from
    <3>1. PICK j \in 1..Len(records) : p[j] = k
      BY <1>2
    <3>2. j \in 1..Len(records') /\ records'[j] = records[k]
      BY <3>1, <1>2
    <3>3. QED
      BY <3>2
  <2>3. QED
    BY <2>1, <2>2, <1>1 DEF Recorded
<1>7. QED
  BY <1>1, <1>4, <1>5, <1>6 DEF ReadInv

LEMMA ReadStep == TypeOK /\ ReadInv /\ [Next]_vars => ReadInv'
<1> SUFFICES ASSUME TypeOK, ReadInv, [Next]_vars PROVE ReadInv'
  OBVIOUS
<1>1. CASE ReadLine
  BY <1>1, ReadLineKeeps, ReadLineRecords
<1>2. CASE NextFile \/ EndFiles
  BY <1>2, NextFileKeeps
<1>3. CASE Sort
  BY <1>3, SortKeeps
<1>4. CASE StartRow \/ FillCell \/ EndRow \/ Write
  <2>1. /\ result_files' = result_files /\ records' = records
        /\ pc \in {"row", "cell"} /\ pc' \in {"row", "cell", "done"}
    BY <1>4 DEF StartRow, FillCell, EndRow, Write
  <2>2. QED
    BY <2>1 DEF ReadInv, FromApart, FromLines, Recorded
<1>5. CASE UNCHANGED vars
  BY <1>5 DEF vars, reading, ReadInv, FromApart, FromLines, Passed, Recorded
<1>6. QED
  BY <1>1, <1>2, <1>3, <1>4, <1>5 DEF Next

\* The records are the wanted lines of the files, each once.
THEOREM LinesTheorem == Spec => []RecordsAreLines
<1>1. TypeOK /\ ReadInv => RecordsAreLines
  BY DEF ReadInv, FromApart, FromLines, Recorded, RecordsAreLines
<1>2. QED
  BY <1>1, TypeInit, TypeStep, ReadInit, ReadStep, PTL DEF Spec

-----------------------------------------------------------------------------
(***************************************************************************)
(* All results of a key are in one row.  Once sorted, and if no result is  *)
(* doubled and no two keys look the same, the keys of the rows increase,   *)
(* and the records of the row's key that are not in it are all ahead of    *)
(* the column.                                                             *)
(***************************************************************************)

Sorted == pc \in {"row", "cell", "done"} =>
    \A j, k \in 1..Len(records) : j < k => InOrder(records[j], records[k])

RowsApart ==
    /\ \A r, s \in 1..Len(rows) : r < s => Joined[rows[r].key] < Joined[rows[s].key]
    /\ \A r \in 1..Len(rows), k \in start..Len(records) :
          Joined[rows[r].key] < Joined[records[k].key]
    /\ pc = "cell" => \A k \in i..Len(records) :
          records[k].key = records[model_index].key => records[k].executor >= executor

RowInv ==
    /\ Sorted
    /\ pc \in {"row", "cell", "done"} /\ Distinct /\ JoinedApart => RowsApart

LEMMA RowInit == Init => RowInv
BY DEF Init, RowInv, Sorted

\* In sorted records without look-alikes, a record between two of one key is
\* of that key, and a later record of a key is of a later executor.
LEMMA SortedFacts ==
    ASSUME TypeOK, pc \in {"row", "cell", "done"}, Sorted, Distinct, JoinedApart
    PROVE  /\ \A j, k \in 1..Len(records) : j < k => Joined[records[j].key] <= Joined[records[k].key]
           /\ \A j, k \in 1..Len(records) :
                 j < k /\ records[j].key = records[k].key =>
                     records[j].executor < records[k].executor
           /\ \A j, k, l \in 1..Len(records) :
                 j < k /\ k < l /\ records[j].key = records[l].key => records[k].key = records[j].key
<1>1. ASSUME NEW k \in 1..Len(records)
      PROVE  /\ Joined[records[k].key] \in Nat /\ records[k].executor \in Nat
             /\ records[k].key \in Key
  BY TableTypes, Constants DEF Executor
<1>2. ASSUME NEW j \in 1..Len(records), NEW k \in 1..Len(records), j < k
      PROVE  InOrder(records[j], records[k])
  BY <1>2 DEF Sorted
<1>3. ASSUME NEW j \in 1..Len(records), NEW k \in 1..Len(records), j < k
      PROVE  Joined[records[j].key] <= Joined[records[k].key]
  BY <1>1, <1>2, <1>3 DEF InOrder
<1>4. ASSUME NEW j \in 1..Len(records), NEW k \in 1..Len(records), j < k,
             records[j].key = records[k].key
      PROVE  records[j].executor < records[k].executor
  <2>1. records[j].executor <= records[k].executor
    BY <1>1, <1>2, <1>4 DEF InOrder
  <2>2. j # k
    BY <1>4
  <2>3. records[j].executor # records[k].executor
    BY <2>2, <1>4 DEF Distinct
  <2>4. QED
    BY <2>1, <2>3, <1>1
<1>5. ASSUME NEW j \in 1..Len(records), NEW k \in 1..Len(records), NEW l \in 1..Len(records),
             j < k, k < l, records[j].key = records[l].key
      PROVE  records[k].key = records[j].key
  <2>1. Joined[records[j].key] <= Joined[records[k].key]
    BY <1>3, <1>5
  <2>2. Joined[records[k].key] <= Joined[records[l].key]
    BY <1>3, <1>5
  <2>3. Joined[records[k].key] = Joined[records[j].key]
    BY <2>1, <2>2, <1>5, <1>1
  <2>4. QED
    BY <2>3 DEF JoinedApart
<1>6. QED
  BY <1>3, <1>4, <1>5

\* A cell: the records of the row's key from i on are ahead of the column.
LEMMA FillCellApart ==
    ASSUME TypeOK, TableInv, FillCell, Sorted, Distinct, JoinedApart, RowsApart
    PROVE  RowsApart'
<1>1. /\ records' = records /\ rows' = rows /\ start' = start /\ pc = "cell" /\ pc' = "cell"
      /\ model_index' = model_index /\ executor' = executor + 1 /\ executor \in Nat
      /\ model_index \in 1..Len(records) /\ model_index <= i
      /\ i \in Nat /\ i >= 1 /\ Len(records) \in Nat
  BY Constants, TableTypes DEF FillCell, start, TypeOK, TableInv, CellsShow
<1>2. ASSUME NEW k \in i'..Len(records), records[k].key = records[model_index].key
      PROVE  records[k].executor >= executor + 1
  <2>1. i' \in {i, i + 1}
    BY DEF FillCell
  <2>2. k \in i..Len(records) /\ k \in 1..Len(records) /\ k \in Nat
    BY <2>1, <1>1, <1>2
  <2>3. records[k].executor >= executor /\ records[k].executor \in Nat
    BY <2>2, <1>1, <1>2, TableTypes, Constants DEF RowsApart, Executor
  <2>4. CASE Fits
    <3>1. i' = i + 1 /\ i \in 1..Len(records)
      BY <2>4, <1>1 DEF FillCell, Fits
    <3>2. records[i].executor = executor /\ records[i].key = records[k].key /\ i < k
      BY <2>4, <3>1, <1>1, <1>2 DEF Fits
    <3>3. records[i].executor < records[k].executor
      BY <3>1, <3>2, <2>2, <1>1, SortedFacts
    <3>4. QED
      BY <3>2, <3>3, <2>3, <1>1
  <2>5. CASE ~Fits /\ k = i
    <3>1. records[i].executor # executor
      BY <2>5, <2>2, <1>2, <1>1 DEF Fits
    <3>2. QED
      BY <3>1, <2>5, <2>3, <1>1
  <2>6. CASE ~Fits /\ k # i
    <3>1. i < k /\ i \in 1..Len(records)
      BY <2>6, <2>2, <1>1
    <3>2. records[i].key = records[model_index].key
      <4>1. CASE model_index = i
        BY <4>1
      <4>2. CASE model_index # i
        <5>1. model_index < i
          BY <4>2, <1>1
        <5>2. QED
          BY <5>1, <3>1, <2>2, <1>1, <1>2, SortedFacts
      <4>3. QED
        BY <4>1, <4>2
    <3>3. records[i].executor # executor
      BY <3>1, <3>2, <2>6, <1>1 DEF Fits
    <3>4. i \in i..Len(records)
      BY <3>1, <1>1
    <3>5. records[i].executor >= executor /\ records[i].executor \in Nat
      BY <3>1, <3>2, <3>4, <1>1, TableTypes, Constants DEF RowsApart, Executor
    <3>6. records[i].executor < records[k].executor
      BY <3>1, <3>2, <2>2, <1>1, <1>2, SortedFacts
    <3>7. QED
      BY <3>3, <3>5, <3>6, <2>3, <1>1
  <2>7. QED
    BY <2>4, <2>5, <2>6
<1>3. QED
  BY <1>1, <1>2 DEF RowsApart

\* The end of a row: no record of its key is left.
LEMMA EndRowApart ==
    ASSUME TypeOK, TableInv, EndRow, Sorted, Distinct, JoinedApart, RowsApart
    PROVE  RowsApart'
<1> DEFINE new == [key |-> records[model_index].key, cells |-> cells]
<1>1. /\ rows' = Append(rows, new) /\ records' = records /\ pc = "cell" /\ pc' = "row"
      /\ start = model_index /\ start' = i
      /\ model_index \in 1..Len(records) /\ model_index <= i
      /\ executor > NumExecutors /\ executor \in Nat
      /\ i \in Nat /\ Len(records) \in Nat /\ Len(rows) \in Nat
  BY Constants, TableTypes DEF EndRow, RowFull, start, TypeOK, TableInv, CellsShow
<1>2. /\ Len(rows') = Len(rows) + 1
      /\ \A r \in 1..Len(rows) : rows'[r] = rows[r]
      /\ rows'[Len(rows) + 1].key = records[model_index].key
  BY <1>1
<1> HIDE DEF new
<1>3. ASSUME NEW r \in 1..Len(rows), NEW k \in model_index..Len(records)
      PROVE  Joined[rows'[r].key] < Joined[records[k].key]
  BY <1>1, <1>2 DEF RowsApart
<1>4. ASSUME NEW k \in i..Len(records)
      PROVE  Joined[records[model_index].key] < Joined[records[k].key]
  <2>1. k \in 1..Len(records)
    BY <1>1
  <2>2. records[k].executor \in 1..NumExecutors
    BY <2>1, TableTypes DEF Executor
  <2>3. records[k].key # records[model_index].key
    BY <2>2, <1>1, Constants DEF RowsApart
  <2>4. k # model_index
    BY <2>3
  <2>5. model_index < k
    BY <2>4, <1>1
  <2>6. Joined[records[model_index].key] <= Joined[records[k].key]
    BY <2>1, <2>5, <1>1, SortedFacts
  <2>7. Joined[records[model_index].key] # Joined[records[k].key]
    BY <2>1, <2>3, <1>1 DEF JoinedApart
  <2>8. Joined[records[model_index].key] \in Nat /\ Joined[records[k].key] \in Nat
    BY <2>1, <1>1, TableTypes, Constants
  <2>9. QED
    BY <2>6, <2>7, <2>8
<1>5. ASSUME NEW r \in 1..Len(rows'), NEW k \in i..Len(records)
      PROVE  Joined[rows'[r].key] < Joined[records[k].key]
  <2>1. CASE r \in 1..Len(rows)
    BY <2>1, <1>3, <1>1
  <2>2. CASE r = Len(rows) + 1
    BY <2>2, <1>4, <1>2
  <2>3. QED
    BY <2>1, <2>2, <1>1, <1>2
<1>6. ASSUME NEW r \in 1..Len(rows'), NEW s \in 1..Len(rows'), r < s
      PROVE  Joined[rows'[r].key] < Joined[rows'[s].key]
  <2>1. CASE s \in 1..Len(rows)
    BY <2>1, <1>1, <1>2, <1>6 DEF RowsApart
  <2>2. CASE s = Len(rows) + 1
    <3>1. r \in 1..Len(rows) /\ model_index \in model_index..Len(records)
      BY <2>2, <1>1, <1>2, <1>6
    <3>2. QED
      BY <3>1, <2>2, <1>2, <1>3
  <2>3. QED
    BY <2>1, <2>2, <1>1, <1>2
<1>7. QED
  BY <1>1, <1>5, <1>6 DEF RowsApart

LEMMA RowStep == TypeOK /\ TypeOK' /\ TableInv /\ RowInv /\ [Next]_vars => RowInv'
<1> SUFFICES ASSUME TypeOK, TypeOK', TableInv, RowInv, [Next]_vars PROVE RowInv'
  OBVIOUS
<1>1. CASE ReadLine \/ NextFile \/ EndFiles
  BY <1>1 DEF ReadLine, NextFile, EndFiles, RowInv, Sorted
<1>2. CASE Sort
  <2>1. Sorted'
    BY <1>2, SortFacts DEF Sorted
  <2>2. rows' = <<>> /\ pc' = "row"
    BY <1>2 DEF Sort, TableInv, Before, table
  <2>3. RowsApart'
    BY <2>2 DEF RowsApart
  <2>4. QED
    BY <2>1, <2>3 DEF RowInv
<1>3. CASE StartRow \/ FillCell \/ EndRow \/ Write
  <2>1. /\ records' = records
        /\ pc \in {"row", "cell"} /\ pc' \in {"row", "cell", "done"}
    BY <1>3 DEF StartRow, FillCell, EndRow, Write, table
  <2>2. Sorted'
    BY <2>1 DEF RowInv, Sorted
  <2>3. SUFFICES ASSUME Distinct', JoinedApart' PROVE RowsApart'
    BY <2>2 DEF RowInv
  <2>4. Sorted /\ Distinct /\ JoinedApart /\ RowsApart
    BY <2>1, <2>3 DEF RowInv, Distinct, JoinedApart
  <2>5. CASE StartRow
    <3>1. /\ start' = start /\ rows' = rows /\ executor' = 1 /\ i' = i
          /\ i \in Nat /\ i >= 1 /\ Len(records) \in Nat
      BY <2>5, TableTypes DEF StartRow, start
    <3>2. ASSUME NEW k \in i..Len(records) PROVE records[k].executor >= 1
      <4>1. k \in 1..Len(records)
        BY <3>1
      <4>2. QED
        BY <4>1, TableTypes, Constants DEF Executor
    <3>3. QED
      BY <3>1, <3>2, <2>1, <2>4 DEF RowsApart
  <2>6. CASE FillCell
    BY <2>4, <2>6, FillCellApart
  <2>7. CASE EndRow
    BY <2>4, <2>7, EndRowApart
  <2>8. CASE Write
    BY <2>4, <2>8 DEF Write, table, RowsApart, start
  <2>9. QED
    BY <1>3, <2>5, <2>6, <2>7, <2>8
<1>4. CASE UNCHANGED vars
  BY <1>4 DEF vars, table, RowInv, Sorted, Distinct, JoinedApart, RowsApart, start
<1>5. QED
  BY <1>1, <1>2, <1>3, <1>4 DEF Next

\* When no result is doubled and no two keys look the same, all results of a
\* key are in one row.
THEOREM OneRowTheorem == Spec => []OneRowPerKey
<1>1. TypeOK /\ RowInv => OneRowPerKey
  <2> SUFFICES ASSUME TypeOK, RowInv, pc = "done", Distinct, JoinedApart,
                      NEW r \in 1..Len(rows), NEW s \in 1..Len(rows), rows[r].key = rows[s].key
               PROVE  r = s
    BY DEF OneRowPerKey
  <2>1. \A x, y \in 1..Len(rows) : x < y => Joined[rows[x].key] < Joined[rows[y].key]
    BY DEF RowInv, RowsApart
  <2>2. Joined[rows[r].key] \in Nat
    BY TableTypes, Constants
  <2>3. ~(r < s) /\ ~(s < r)
    BY <2>1, <2>2
  <2>4. QED
    BY <2>3
<1>2. QED
  BY <1>1, TypeInit, TypeStep, TableInit, TableStep, RowInit, RowStep, PTL DEF Spec

-----------------------------------------------------------------------------
(***************************************************************************)
(* The report is finished at some time.                                    *)
(***************************************************************************)

PhasesLeft ==
    CASE pc = "read"            -> 3
      [] pc = "sort"            -> 2
      [] pc \in {"row", "cell"} -> 1
      [] OTHER                  -> 0

\* One line or one file fewer to read.
ReadsOn ==
    /\ pc = "read" /\ UNCHANGED <<pc, result_files>>
    /\ f <= Len(result_files)
    /\ \/ f' = f + 1
       \/ f' = f /\ n <= Len(TheFile.lines) /\ n' = n + 1

ColumnsLeft == NumExecutors + 2 - (IF pc = "row" THEN 0 ELSE executor)

\* The table comes to a row that begins with a later record, or to the next
\* column of this row.
FillsOn ==
    /\ {pc, pc'} \subseteq {"row", "cell"} /\ UNCHANGED records
    /\ \/ start' > start /\ start' <= Len(records) + 1
       \/ start' = start /\ ColumnsLeft \in Nat /\ ColumnsLeft' < ColumnsLeft

GoesOn == PhasesLeft' < PhasesLeft \/ ReadsOn \/ FillsOn

LEMMA StepGoesOn == TypeOK /\ TypeOK' /\ TableInv /\ Next => GoesOn
<1> SUFFICES ASSUME TypeOK, TypeOK', TableInv, Next PROVE GoesOn
  OBVIOUS
<1> USE Constants
<1>0. /\ executor \in Nat /\ executor >= 1 /\ executor <= NumExecutors + 1
      /\ NumExecutors \in Nat
      /\ i \in Nat /\ Len(records) \in Nat /\ i <= Len(records) + 1
  <2>1. executor \in 1..(NumExecutors + 1)
    BY DEF TypeOK
  <2>2. QED
    BY <2>1, TableTypes
<1>1. CASE ReadLine
  BY <1>1 DEF ReadLine, GoesOn, ReadsOn, PhasesLeft
<1>2. CASE NextFile
  BY <1>2 DEF NextFile, GoesOn, ReadsOn
<1>3. CASE EndFiles \/ Sort \/ Write
  BY <1>3 DEF EndFiles, Sort, Write, GoesOn, PhasesLeft
<1>4. CASE StartRow
  <2>1. pc = "row" /\ pc' = "cell" /\ start' = start /\ executor' = 1 /\ UNCHANGED records
    BY <1>4 DEF StartRow, start
  <2>2. ColumnsLeft \in Nat /\ ColumnsLeft' < ColumnsLeft
    BY <1>0, <2>1 DEF ColumnsLeft
  <2>3. QED
    BY <2>1, <2>2 DEF GoesOn, FillsOn
<1>5. CASE FillCell
  <2>1. pc = "cell" /\ pc' = "cell" /\ start' = start /\ executor' = executor + 1 /\ UNCHANGED records
    BY <1>5 DEF FillCell, start
  <2>2. ColumnsLeft \in Nat /\ ColumnsLeft' < ColumnsLeft
    BY <1>0, <2>1 DEF ColumnsLeft
  <2>3. QED
    BY <2>1, <2>2 DEF GoesOn, FillsOn
<1>6. CASE EndRow
  <2>1. /\ pc = "cell" /\ pc' = "row" /\ UNCHANGED records
        /\ start = model_index /\ start' = i
        /\ model_index \in 1..Len(records) /\ executor > NumExecutors
    BY <1>6 DEF EndRow, RowFull, start, TypeOK
  <2>2. CellsShow
    BY <2>1 DEF TableInv
  <2>3. records[model_index].executor \in 1..NumExecutors
    BY <2>1, TableTypes DEF Executor
  <2>4. i # model_index /\ model_index <= i
    BY <1>0, <2>1, <2>2, <2>3 DEF CellsShow
  <2>5. start' > start /\ start' <= Len(records) + 1
    BY <1>0, <2>1, <2>4
  <2>6. QED
    BY <2>1, <2>5 DEF GoesOn, FillsOn
<1>7. QED
  BY <1>1, <1>2, <1>3, <1>4, <1>5, <1>6 DEF Next

\* Every step takes the report further: from reading to the end, through the
\* lines of the files, and then through the table, each row of which begins
\* with a later record than the one before.  So the while loop ends for all
\* result files, doubled results among them (lines 36-46).
THEOREM StepsTheorem == Spec => [][GoesOn]_vars
<1>1. TypeOK /\ TypeOK' /\ TableInv /\ [Next]_vars => [GoesOn]_vars
  BY StepGoesOn
<1>2. QED
  BY <1>1, TableTheorem, PTL DEF Spec

=============================================================================
