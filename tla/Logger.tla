------------------------------- MODULE Logger -------------------------------
(***************************************************************************)
(* xx::Logger and its SqliteLogWriter (xx_logger.h): callers of Write, the *)
(* detached writer thread, the destructor, and the log table over several  *)
(* runs of the program, each of which opens the same file. Rows are        *)
(* numbered as Write takes them. What a thread does under the mutex or     *)
(* between two reads of the unsynchronised int "disposing" is one step.    *)
(***************************************************************************)
EXTENDS Integers, SequencesExt

CONSTANTS
    RowsLimit,  \* rowsLimit
    QueueLimit, \* queueLimit
    MaxRows,    \* bound: rows that are written
    MaxRuns     \* bound: runs of the program

ASSUME LoggerAssumption == RowsLimit \in Nat \ {0} /\ QueueLimit \in Nat

VARIABLES
    rows, bgRows, \* the queue of the callers and the one of the writer
    disposing,
    entering,     \* a Write holds the mutex and has found nothing against its row
    worker,       \* the writer thread: "scan" (about to lock), "empty" (found no rows), in
                  \* Save "trim" and "insert", and at last "ended" or "failed"
    owner,        \* "open", in the destructor "closing" and "waiting", "gone" after it;
                  \* "down" between a crash and the next run
    table,        \* the rows in the file, whose ids follow one another
    numRows,
    canDeleteAll, \* query_DeleteAll has its statement
    runs,         \* history: runs of the program
    written,      \* history: rows that Write took
    saved,        \* history: rows that were inserted, or passed over for newer ones
    saves,        \* history: calls of Save that succeeded in this run
    start,        \* history: "written" and Len(saved) when this run began
    promised,     \* history: rows that Write took before the destructor was called
    intact        \* history: no run has ended in the middle of a write to the file

queueVars == <<rows, bgRows, disposing, entering, worker, owner>>
tableVars == <<table, numRows, canDeleteAll>>
history == <<runs, written, saved, saves, start, promised, intact>>
vars == <<queueVars, tableVars, history>>

Init ==
    /\ rows = <<>> /\ bgRows = <<>> /\ disposing = 0 /\ entering = FALSE
    /\ worker = "ended" /\ owner = "down"
    /\ table = <<>> /\ numRows = 0 /\ canDeleteAll = FALSE
    /\ runs = 0 /\ written = 0 /\ saved = <<>> /\ saves = 0
    /\ start = [written |-> 0, saved |-> 0] /\ promised = {} /\ intact = TRUE

Newest(s, n) == IF n < Len(s) THEN SubSeq(s, Len(s) - n + 1, Len(s)) ELSE s

-----------------------------------------------------------------------------
(* A run begins, and may end at any time *)

\* min(id) - max(id) + 1, which on an empty table is 0 - 0 + 1.
CountAtOpen == IF table = <<>> THEN 1 ELSE 2 - Len(table)

\* The constructor. Only the run that creates the table finds none, and leaves
\* query_DeleteAll without its statement.
Open(cleanup) ==
    /\ owner \in {"down", "gone"} /\ runs < MaxRuns
    /\ rows' = <<>> /\ bgRows' = <<>> /\ disposing' = 0 /\ worker' = "scan" /\ owner' = "open"
    /\ canDeleteAll' = (runs > 0)
    /\ LET count == IF runs = 0 \/ cleanup THEN 0 ELSE CountAtOpen
           kept == IF cleanup THEN <<>> ELSE table
       IN IF count > RowsLimit THEN table' = Newest(kept, RowsLimit) /\ numRows' = RowsLimit
          ELSE table' = kept /\ numRows' = count
    /\ runs' = runs + 1 /\ saves' = 0 /\ promised' = {}
    /\ start' = [written |-> written, saved |-> Len(saved)]
    /\ UNCHANGED <<entering, written, saved, intact>>

\* The journal of the database is kept in memory only (journal_mode = MEMORY,
\* "可能丢数据", may lose data): what a run leaves half written no later run rolls
\* back, and what such a file holds nobody can say. "table" stands for the file as
\* long as it is "intact", and for nothing afterwards.
Spoils == intact' = FALSE

\* A run ends while the constructor creates, clears or cuts the table ...
CrashInOpen ==
    /\ owner \in {"down", "gone"} /\ runs < MaxRuns /\ runs' = runs + 1 /\ Spoils
    /\ owner' = "down" /\ worker' = "ended"
    /\ UNCHANGED <<rows, bgRows, disposing, entering, tableVars, written, saved, saves, start, promised>>

\* ... or later, in a delete or in the transaction of Save, or with the transaction
\* of a Save that failed still open.
Crash ==
    /\ owner \notin {"down", "gone"} /\ owner' = "down" /\ entering' = FALSE /\ worker' = "ended"
    /\ UNCHANGED intact \/ (worker \in {"trim", "insert", "failed"} /\ Spoils)
    /\ UNCHANGED <<rows, bgRows, disposing, tableVars, runs, written, saved, saves, start, promised>>

-----------------------------------------------------------------------------
(* Write, from any thread, the destructor running or not *)

WriteEnter ==
    /\ owner \in {"open", "closing", "waiting"} /\ ~entering
    /\ disposing = 0 /\ (QueueLimit = 0 \/ Len(rows) <= QueueLimit) /\ written < MaxRows
    /\ entering' = TRUE
    /\ UNCHANGED <<rows, bgRows, disposing, worker, owner, tableVars, history>>

WriteLeave ==
    /\ entering /\ entering' = FALSE
    /\ written' = written + 1 /\ rows' = Append(rows, written + 1)
    /\ UNCHANGED <<bgRows, disposing, worker, owner, tableVars, runs, saved, saves, start, promised, intact>>

-----------------------------------------------------------------------------
(* The writer thread *)

Scan ==
    /\ worker = "scan" /\ ~entering
    /\ IF rows = <<>> THEN worker' = "empty" /\ UNCHANGED <<rows, bgRows>>
       ELSE worker' = "trim" /\ rows' = bgRows /\ bgRows' = rows
    /\ UNCHANGED <<disposing, entering, owner, tableVars, history>>

\* The look at "disposing" after an empty scan: the flag asks for one more.
LeavesAtOnce == 1
LeavesAt == 2
LeavesNever == UNCHANGED disposing
Leaves == disposing' = 0
LookAtFlag ==
    /\ worker = "empty"
    /\ IF disposing = LeavesAt THEN Leaves /\ worker' = "ended"
       ELSE /\ disposing' = IF disposing = 1 THEN 2 ELSE disposing
            /\ worker' = "scan"
    /\ UNCHANGED <<rows, bgRows, entering, owner, tableVars, history>>

Fails == worker' = "failed" /\ disposing' = -1

\* Save makes room for the rows: all of it, or what is left of the limit.
KeepOneMore(n) == RowsLimit - n + 1
Keep(n) == RowsLimit - n
Trim ==
    /\ worker = "trim"
    /\ LET n == Len(bgRows) IN
        \/ /\ n >= RowsLimit
           /\ IF numRows = 0 THEN table' = table /\ worker' = "insert" /\ UNCHANGED disposing
              ELSE IF canDeleteAll THEN table' = <<>> /\ worker' = "insert" /\ UNCHANGED disposing
              ELSE table' = table /\ Fails
        \/ /\ n < RowsLimit
           /\ table' = IF numRows > Keep(n) THEN Newest(table, Keep(n)) ELSE table
           /\ worker' = "insert" /\ UNCHANGED disposing
    /\ numRows' = IF worker' = "insert" THEN RowsLimit ELSE numRows
    /\ UNCHANGED <<rows, bgRows, entering, owner, canDeleteAll, history>>

\* And inserts the newest of them in one transaction.
Insert ==
    /\ worker = "insert" /\ worker' = "scan"
    /\ table' = table \o Newest(bgRows, RowsLimit) /\ saved' = saved \o bgRows
    /\ saves' = saves + 1 /\ bgRows' = <<>>
    /\ UNCHANGED <<rows, disposing, entering, owner, numRows, canDeleteAll, runs, written, start,
                   promised, intact>>

\* The database refuses: Save returns -1, and the thread gives up.
SaveFails ==
    /\ worker \in {"trim", "insert"} /\ Fails
    /\ UNCHANGED <<rows, bgRows, entering, owner, tableVars, history>>

-----------------------------------------------------------------------------
(* ~Logger. When it returns the program has no thread left in Write. *)

CloseCalled ==
    /\ owner = "open"
    /\ IF disposing = 0 THEN owner' = "closing" ELSE owner' = "gone" /\ ~entering
    /\ promised' = start.written + 1 .. written
    /\ UNCHANGED <<rows, bgRows, disposing, entering, worker, tableVars, runs, written, saved, saves, start,
                   intact>>

CloseFlags ==
    /\ owner = "closing" /\ owner' = "waiting" /\ disposing' = 1
    /\ UNCHANGED <<rows, bgRows, entering, worker, tableVars, history>>

CloseReturns ==
    /\ owner = "waiting" /\ disposing = 0 /\ ~entering /\ owner' = "gone"
    /\ UNCHANGED <<rows, bgRows, disposing, entering, worker, tableVars, history>>

Next ==
    \/ \E cleanup \in BOOLEAN : Open(cleanup)
    \/ CrashInOpen \/ Crash \/ WriteEnter \/ WriteLeave
    \/ Scan \/ LookAtFlag \/ Trim \/ Insert \/ SaveFails
    \/ CloseCalled \/ CloseFlags \/ CloseReturns

Spec == Init /\ [][Next]_vars

\* The writer thread runs, a caller leaves the mutex, a destructor goes on.
FairSpec ==
    /\ Spec
    /\ WF_vars(Scan) /\ WF_vars(LookAtFlag) /\ WF_vars(Trim) /\ WF_vars(Insert \/ SaveFails)
    /\ WF_vars(WriteLeave) /\ WF_vars(CloseFlags) /\ WF_vars(CloseReturns)

-----------------------------------------------------------------------------
(* Properties *)

\* A destructor that returns has left no row behind that Write took before it
\* was called, unless Save failed: hence the two empty scans. (That a file which
\* an earlier run spoiled gives the rows back is not said.)
EveryRowSaved == owner = "gone" /\ worker = "ended" => promised \subseteq ToSet(saved)

\* "rowsLimit: ... deletes the oldest data to keep the number of rows": rows are
\* saved in the order of Write, over any number of runs. As long as no run ended in
\* the middle of a write to the file, the table keeps that order; its newest rows,
\* as many as the limit allows, are the newest ever saved, with none left out; of
\* the rows of this run no more are dropped than the limit asks for; and the limit
\* is kept, in a run that found a table from its second Save on.
Increasing(s) == \A i, j \in DOMAIN s : i < j => s[i] < s[j]

TableKept ==
    /\ Increasing(table) /\ ToSet(table) \subseteq ToSet(saved)
    /\ IsSuffix(Newest(table, RowsLimit), saved)
    /\ owner # "down" /\ worker \notin {"insert", "failed"} =>
        \/ Len(table) >= RowsLimit
        \/ Len(table) >= Len(saved) - start.saved
    /\ runs = 1 \/ saves > 1 => Len(table) <= RowsLimit

NewestKept == Increasing(saved) /\ (intact => TableKept)

\* The destructor returns, unless Save fails.
DestructorReturns ==
    owner = "closing" ~> (owner \in {"gone", "down"} \/ worker = "failed")
=============================================================================
