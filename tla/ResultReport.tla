---------------------------- MODULE ResultReport ----------------------------
(***************************************************************************)
(* The end of a run of benchmark.py: process_result reads the result files *)
(* of the devices, keeps the lines of its own benchmark option, and writes *)
(* a table with a row per model, device and product, and a column per      *)
(* executor (format_with_executor).                                        *)
(*                                                                         *)
(* A key stands for the first columns of a row: model, quantization,       *)
(* product, SoC, ABI and device type.  The code sorts by the columns       *)
(* joined to one string, which two keys may share; Joined(key) stands for  *)
(* that string.  A cell holds the number of the record whose value the     *)
(* code writes there, or 0 for an empty cell.                              *)
(*                                                                         *)
(* A performance benchmark makes two such tables, of the same keys.        *)
(***************************************************************************)
EXTENDS Integers, Sequences, Functions

CONSTANTS
    Option,        \* --benchmark_option
    Model,         \* the keys' part that is in a line
    Product,       \* and the one that is in the name of its file
    Joined,        \* the order of the keys, joined to strings
    NumExecutors,  \* the number of columns for executors
    Inputs         \* the result files there may be

Executor == 1..NumExecutors
Key      == Model \X Product
Line     == [option : {"Performance", "Precision"}, executor : Executor,
             model : Model, known : BOOLEAN]
File     == [product : Product, lines : Seq(Line)]

\* The number of an executor has one digit, so that strings of them are in
\* the order of the numbers.
ASSUME ResultReportAssumption ==
    /\ Option \in {"Performance", "Precision"}
    /\ NumExecutors \in 1..9
    /\ Joined \in [Key -> Nat]
    /\ Inputs \subseteq Seq(File)

VARIABLES
    result_files,  \* the files
    pc,            \* read, sort, row, cell, done, or failed
    f, n,          \* the next line: file and line number
    records,       \* the records made of the lines
    i,             \* the record the table has come to
    model_index,   \* the first record of the row
    executor,      \* the column, an executor or one past the last
    cells,         \* the cells of the row
    rows           \* the rows done

reading == <<f, n>>
table   == <<i, model_index, executor, cells, rows>>
vars    == <<result_files, pc, reading, records, table>>

Empty == [e \in Executor |-> 0]

Init ==
    /\ result_files \in Inputs
    /\ pc = "read"
    /\ f = 1 /\ n = 1
    /\ records = <<>>
    /\ i = 1 /\ model_index = 1 /\ executor = 1
    /\ cells = Empty
    /\ rows = <<>>

-----------------------------------------------------------------------------
(***************************************************************************)
(* process_result and the processors' process.                             *)
(***************************************************************************)

TheFile == result_files[f]
TheLine == TheFile.lines[n]

\* The head of a line says what benchmark it is of.
Wanted(line) == line.option = Option

\* The product is taken from the name of the file.
Record_FirstProduct(line) ==
    [key |-> <<line.model, result_files[1].product>>, executor |-> line.executor,
     from |-> <<f, n>>]
Record(line) ==
    [key |-> <<line.model, TheFile.product>>, executor |-> line.executor,
     from |-> <<f, n>>]

\* A precision line must be of the one evaluator there is, or all ends.
ReadLine ==
    /\ pc = "read"
    /\ f <= Len(result_files)
    /\ n <= Len(TheFile.lines)
    /\ \/ /\ ~Wanted(TheLine)
          /\ n' = n + 1
          /\ UNCHANGED <<pc, records>>
       \/ /\ Wanted(TheLine)
          /\ Option = "Precision" => TheLine.known
          /\ records' = Append(records, Record(TheLine))
          /\ n' = n + 1
          /\ UNCHANGED pc
       \/ /\ Wanted(TheLine)
          /\ Option = "Precision" /\ ~TheLine.known
          /\ pc' = "failed"
          /\ UNCHANGED <<n, records>>
    /\ UNCHANGED <<result_files, f, table>>

NextFile ==
    /\ pc = "read"
    /\ f <= Len(result_files)
    /\ n > Len(TheFile.lines)
    /\ f' = f + 1
    /\ n' = 1
    /\ UNCHANGED <<result_files, pc, records, table>>

EndFiles ==
    /\ pc = "read"
    /\ f > Len(result_files)
    /\ pc' = "sort"
    /\ UNCHANGED <<result_files, reading, records, table>>

-----------------------------------------------------------------------------
(***************************************************************************)
(* format_with_executor.                                                   *)
(***************************************************************************)

\* The order of the records as strings, up to the values at their ends.
InOrder_ExecutorFirst(r, s) ==
    r.executor < s.executor
    \/ (r.executor = s.executor /\ Joined[r.key] <= Joined[s.key])
InOrder(r, s) ==
    Joined[r.key] < Joined[s.key]
    \/ (Joined[r.key] = Joined[s.key] /\ r.executor <= s.executor)

Sort ==
    /\ pc = "sort"
    /\ \E p \in Bijection(1..Len(records), 1..Len(records)) :
          /\ \A j, k \in 1..Len(records) : j < k => InOrder(records[p[j]], records[p[k]])
          /\ records' = [k \in 1..Len(records) |-> records[p[k]]]
    /\ pc' = "row"
    /\ UNCHANGED <<result_files, reading, table>>

\* The head of the while loop.
StartRow ==
    /\ pc = "row"
    /\ i <= Len(records)
    /\ model_index' = i
    /\ executor' = 1
    /\ cells' = Empty
    /\ pc' = "cell"
    /\ UNCHANGED <<result_files, reading, records, i, rows>>

\* The for loop is through all executors.
RowFull_OffByOne == executor >= NumExecutors
RowFull == executor > NumExecutors

\* The record belongs into the cell of this row and column.
Fits_AnyRow == i <= Len(records) /\ records[i].executor = executor
Fits ==
    /\ i <= Len(records)
    /\ records[model_index].key = records[i].key
    /\ records[i].executor = executor

FillCell_NextAnyway ==
    /\ pc = "cell"
    /\ ~RowFull
    /\ cells' = IF Fits THEN [cells EXCEPT ![executor] = i] ELSE cells
    /\ i' = i + 1
    /\ executor' = executor + 1
    /\ UNCHANGED <<result_files, pc, reading, records, model_index, rows>>

FillCell ==
    /\ pc = "cell"
    /\ ~RowFull
    /\ IF Fits
       THEN cells' = [cells EXCEPT ![executor] = i] /\ i' = i + 1
       ELSE UNCHANGED <<cells, i>>
    /\ executor' = executor + 1
    /\ UNCHANGED <<result_files, pc, reading, records, model_index, rows>>

EndRow ==
    /\ pc = "cell"
    /\ RowFull
    /\ rows' = Append(rows, [key |-> records[model_index].key, cells |-> cells])
    /\ pc' = "row"
    /\ UNCHANGED <<result_files, reading, records, i, model_index, executor, cells>>

Write ==
    /\ pc = "row"
    /\ i > Len(records)
    /\ pc' = "done"
    /\ UNCHANGED <<result_files, reading, records, table>>

Next == ReadLine \/ NextFile \/ EndFiles \/ Sort \/ StartRow \/ FillCell \/ EndRow \/ Write

Spec == Init /\ [][Next]_vars

-----------------------------------------------------------------------------
(***************************************************************************)
(* Properties.                                                             *)
(***************************************************************************)

RecordOf == [key : Key, executor : Executor, from : Nat \X Nat]

\* The types, with the bound the guard of line 41 is for: the table never
\* runs past the last record, though each row looks for one in all columns.
TypeOK ==
    /\ result_files \in Seq(File)
    /\ pc \in {"read", "sort", "row", "cell", "done", "failed"}
    /\ f \in Nat \ {0} /\ n \in Nat \ {0}
    /\ records \in Seq(RecordOf)
    /\ i \in 1..(Len(records) + 1)
    /\ model_index \in Nat
    /\ pc = "cell" => model_index \in 1..Len(records)
    /\ executor \in 1..(NumExecutors + 1)
    /\ cells \in [Executor -> Nat]
    /\ rows \in Seq([key : Key, cells : [Executor -> Nat]])

\* Record k is in the column of its executor, in a row of its key.
Shown(k, r, e) ==
    /\ rows[r].cells[e] = k
    /\ rows[r].key = records[k].key
    /\ records[k].executor = e

\* The finished table shows every record in one cell and in no other, in its
\* own column and in a row of its own key.  This holds for doubled results and
\* for keys that are joined to the same string (lines 36-46).
EveryResultOnce ==
    pc = "done" =>
        /\ \A k \in 1..Len(records) : \E r \in 1..Len(rows), e \in Executor : Shown(k, r, e)
        /\ \A r, s \in 1..Len(rows), d, e \in Executor :
              rows[r].cells[d] = rows[s].cells[e] /\ rows[r].cells[d] # 0 => r = s /\ d = e

\* Every row shows a record, which is what makes the while loop end: a record
\* of an executor without a column would be looked for in one row after
\* another (lines 36-46).
EveryRowShows ==
    \A r \in 1..Len(rows) : \E e \in Executor : rows[r].cells[e] # 0

\* The records are the wanted lines of the files, each once.
RecordsAreLines ==
    /\ \A j, k \in 1..Len(records) : records[j].from = records[k].from => j = k
    /\ \A k \in 1..Len(records) :
          LET file == result_files[records[k].from[1]]
              line == file.lines[records[k].from[2]]
          IN  /\ line.option = Option
              /\ records[k].key = <<line.model, file.product>>
              /\ records[k].executor = line.executor
    /\ pc \notin {"read", "failed"} =>
          \A g \in 1..Len(result_files) : \A m \in 1..Len(result_files[g].lines) :
              result_files[g].lines[m].option = Option =>
                  \E k \in 1..Len(records) : records[k].from = <<g, m>>

\* What a reader of the table expects: when no result is doubled, and no two
\* keys look the same when joined, all results of a key are in one row.
Distinct == \A j, k \in 1..Len(records) :
    records[j].key = records[k].key /\ records[j].executor = records[k].executor => j = k
JoinedApart == \A j, k \in 1..Len(records) :
    Joined[records[j].key] = Joined[records[k].key] => records[j].key = records[k].key
OneRowPerKey ==
    pc = "done" /\ Distinct /\ JoinedApart =>
        \A r, s \in 1..Len(rows) : rows[r].key = rows[s].key => r = s

=============================================================================
