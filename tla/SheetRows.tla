------------------------------ MODULE SheetRows ------------------------------
(***************************************************************************)
(* The rows of one worksheet under the writing tools of                    *)
(* tools/google_sheets.py: append, append_top, update_row and              *)
(* find_or_create_row, with lookup_row as the reading half of the latter.  *)
(*                                                                         *)
(* A run is one call of a tool; several nodes and workflows run at the     *)
(* same time on one sheet.  A tool makes one HTTP call after another.      *)
(* The Sheets API is external: a call is answered with success or with an  *)
(* error, or the client gives up on it; such a call may still be applied   *)
(* at any later time, or never.                                            *)
(***************************************************************************)
EXTENDS SequencesExt

CONSTANTS
    Run,        \* runs of the tools
    Initial,    \* the sheet's rows at first; row 1 is its heading
    Sought,     \* the rows that the look-ups match
    Jobs,       \* bound: the tools called in an instance
    MaxNumber   \* bound: row numbers given to update_row

\* The row a run inserts empty, and the row it writes.
BlankOf(r) == [by |-> r, full |-> FALSE]
RowOf(r) == [by |-> r, full |-> TRUE]

Rows == [by : Run, full : BOOLEAN]

Old == Range(Initial)

ASSUME RunAssumption == IsFiniteSet(Run)

ASSUME SheetAssumption ==
    /\ Initial \in Seq(Old)
    /\ Len(Initial) >= 1
    /\ \A a, b \in 1..Len(Initial) : Initial[a] = Initial[b] => a = b
    /\ Old \cap Rows = {}
    /\ Jobs \subseteq {"append", "top", "update", "find"}
    /\ MaxNumber \in Nat

VARIABLES
    rows,       \* the rows of the sheet's grid
    pc,         \* the HTTP call a run is waiting for
    job,        \* the tool a run calls
    number,     \* the row_number argument of update_row
    late,       \* writes the client gave up on, which may still be applied
    answer,     \* what the run returned, and the call at which it was decided
    lost,       \* history: rows overwritten by update_row or by a late write of row 2
    mixed       \* history: runs of append_top that met another run's write between insert and answer

vars == <<rows, pc, job, number, late, answer, lost, mixed>>

------------------------------------------------------------------------------
Writes == {"insert", "put", "undo", "append", "update"}

Places == Writes \cup {"idle", "open", "done"}

Answer == [kind : {"none", "success", "found", "error", "warned", "timeout"}, at : Places]

Content == Old \cup Rows

TypeOK ==
    /\ rows \in Seq(Content)
    /\ pc \in [Run -> Places]
    /\ job \in [Run -> Jobs \cup {"none"}]
    /\ number \in [Run -> Nat]
    /\ late \in SUBSET (Writes \X Run)
    /\ answer \in [Run -> Answer]
    /\ lost \subseteq Content
    /\ mixed \subseteq Run

Init ==
    /\ rows = Initial
    /\ pc = [r \in Run |-> "idle"]
    /\ job = [r \in Run |-> "none"]
    /\ number = [r \in Run |-> 0]
    /\ late = {}
    /\ answer = [r \in Run |-> [kind |-> "none", at |-> "idle"]]
    /\ lost = {}
    /\ mixed = {}

------------------------------------------------------------------------------
(* What the API does *)

\* The runs of append_top whose empty row is in the sheet and not yet decided.
Owing == {r \in Run : pc[r] \in {"put", "undo"}}

\* The table that starts at A1 ends before an empty row or at the end of the
\* grid: the API decides.
TableEnds ==
    {p \in 1..Len(rows) : p = Len(rows) \/ rows[p + 1] \in {BlankOf(r) : r \in Run}}

WriteRow(n, row) == rows' = ReplaceAt(rows, n, row)

\* insertDimension, startIndex 1.
InsertBlank(r) == rows' = InsertAt(rows, 2, BlankOf(r)) /\ UNCHANGED lost

\* PUT of A2: row 2 is overwritten, whatever it is.  A write that arrives after
\* its run has gone on may hit any row.
PutSecond(r) ==
    /\ Len(rows) >= 2
    /\ WriteRow(2, RowOf(r))
    /\ lost' = IF r \in Owing THEN lost ELSE lost \cup {rows[2]}

\* deleteDimension, startIndex 1.
DeleteSecond(r) == Len(rows) >= 2 /\ rows' = RemoveAt(rows, 2) /\ UNCHANGED lost

\* values:append with INSERT_ROWS.
AppendToTable(r) ==
    /\ \E p \in TableEnds : rows' = InsertAt(rows, p + 1, RowOf(r))
    /\ UNCHANGED lost

\* PUT of A<row_number>.
PutNumbered(r) ==
    /\ number[r] \in 1..Len(rows)
    /\ WriteRow(number[r], RowOf(r))
    /\ lost' = lost \cup {rows[number[r]]}

\* A write is applied, and every other run of append_top that is under way notices it.
Applied(c, r) ==
    /\ \/ c = "insert" /\ InsertBlank(r)
       \/ c = "put"    /\ PutSecond(r)
       \/ c = "undo"   /\ DeleteSecond(r)
       \/ c = "append" /\ AppendToTable(r)
       \/ c = "update" /\ PutNumbered(r)
    /\ mixed' = mixed \cup (Owing \ {r}) \cup (IF pc[r] = c THEN {} ELSE {r})

------------------------------------------------------------------------------
(* The tools *)

Goto(r, place) ==
    /\ pc' = [pc EXCEPT ![r] = place]
    /\ UNCHANGED answer

Return(r, kind) ==
    /\ pc' = [pc EXCEPT ![r] = "done"]
    /\ answer' = [answer EXCEPT ![r] = [kind |-> kind, at |-> pc[r]]]

\* The call a run waits for is applied and answered.
Answered(r) == Applied(pc[r], r) /\ UNCHANGED <<job, number, late>>

\* The call fails: it is refused, or the client gives up on it.
Failed(r) ==
    /\ late' \in {late, late \cup {<<pc[r], r>>}}
    /\ UNCHANGED <<rows, job, number, lost, mixed>>

\* _check accepts the arguments.
Start(r) ==
    /\ pc[r] = "idle"
    /\ \E j \in Jobs : job' = [job EXCEPT ![r] = j]
    /\ \E n \in 1..MaxNumber :
         number' = [number EXCEPT ![r] = IF job'[r] = "update" THEN n ELSE 0]
    /\ Goto(r, "open")
    /\ UNCHANGED <<rows, late, lost, mixed>>

\* The worksheet and its heading are read, and the columns resolved.
Open(r) ==
    /\ pc[r] = "open" /\ job[r] # "find"
    /\ Goto(r, IF job[r] = "top" THEN "insert" ELSE job[r])
    /\ UNCHANGED <<rows, job, number, late, lost, mixed>>

\* The whole sheet is read: the row is returned, or appended when there is none.
LookUp(r) ==
    /\ pc[r] = "open" /\ job[r] = "find"
    /\ IF \E i \in 2..Len(rows) : rows[i] \in Sought
         THEN Return(r, "found")
         ELSE Goto(r, "append")
    /\ UNCHANGED <<rows, job, number, late, lost, mixed>>

\* The arguments, a look-up, a heading or a column is refused before anything is written.
Refuse(r) ==
    /\ pc[r] \in {"idle", "open"}
    /\ Return(r, "error")
    /\ UNCHANGED <<rows, job, number, late, lost, mixed>>

\* Mutant of InsertRow: the insert is inside the try block of the write.
InsertOrUndo(r) ==
    /\ pc[r] = "insert"
    /\ \/ Answered(r) /\ Goto(r, "put")
       \/ Failed(r) /\ Goto(r, "undo")

InsertRow(r) ==
    /\ pc[r] = "insert"
    /\ \/ Answered(r) /\ Goto(r, "put")
       \/ Failed(r) /\ Return(r, "error")

\* Mutant of PutRow: the empty row is left when the write fails.
PutOrLeave(r) ==
    /\ pc[r] = "put"
    /\ \/ Answered(r) /\ Return(r, "success")
       \/ Failed(r) /\ Return(r, "error")

PutRow(r) ==
    /\ pc[r] = "put"
    /\ \/ Answered(r) /\ Return(r, "success")
       \/ Failed(r) /\ Goto(r, "undo")

UndoInsert(r) ==
    /\ pc[r] = "undo"
    /\ \/ Answered(r) /\ Return(r, "error")
       \/ Failed(r) /\ Return(r, "warned")

\* Mutant of AppendRow: a failed append is tried again.
AppendAgain(r) ==
    /\ pc[r] = "append"
    /\ \/ Answered(r) /\ Return(r, "success")
       \/ Failed(r) /\ Goto(r, "append")

AppendRow(r) ==
    /\ pc[r] = "append"
    /\ \/ Answered(r) /\ Return(r, "success")
       \/ Failed(r) /\ Return(r, "error")

UpdateRow(r) ==
    /\ pc[r] = "update"
    /\ \/ Answered(r) /\ Return(r, "success")
       \/ Failed(r) /\ Return(r, "error")

\* Mutant of TimeOut: a read that the client gives up on is treated like a write.
TimeOutAnywhere(r) ==
    /\ pc[r] \in Writes \cup {"open"}
    /\ late' \in {late, late \cup {<<pc[r], r>>}}
    /\ Return(r, "timeout")
    /\ UNCHANGED <<rows, job, number, lost, mixed>>

\* wait_for's limit (core/action_executor.py): the run is cancelled where it waits.
TimeOut(r) ==
    /\ pc[r] \in Writes \cup {"open"}
    /\ late' \in {late, late \cup ({pc[r]} \cap Writes) \X {r}}
    /\ Return(r, "timeout")
    /\ UNCHANGED <<rows, job, number, lost, mixed>>

\* A call its client gave up on reaches the sheet after all.
Arrive(c, r) ==
    /\ <<c, r>> \in late
    /\ Applied(c, r)
    /\ late' = late \ {<<c, r>>}
    /\ UNCHANGED <<pc, job, number, answer>>

Writing(r) == InsertRow(r) \/ PutRow(r) \/ UndoInsert(r) \/ AppendRow(r) \/ UpdateRow(r)

Next ==
    \/ \E r \in Run :
         Start(r) \/ Open(r) \/ LookUp(r) \/ Refuse(r) \/ Writing(r) \/ TimeOut(r)
    \/ \E r \in Run, c \in Writes : Arrive(c, r)

Spec == Init /\ [][Next]_vars

------------------------------------------------------------------------------
(* Properties *)

\* Whatever the runs do at the same time, and whichever of their calls fail or
\* arrive late, the rows that were in the sheet stay, in their order: none is
\* deleted by a rollback of append_top, and one is overwritten only by an
\* update_row that names its number, or by a write of row 2 that the service
\* gave up on before (google_sheets.py:373-385).
OldRowsKept ==
    /\ \A o \in Old \ lost : \E i \in 1..Len(rows) : rows[i] = o
    /\ \A i, j \in 1..Len(rows), a, b \in 1..Len(Initial) :
         i < j /\ rows[i] = Initial[a] /\ rows[j] = Initial[b] => a < b

\* A run writes its row at most once, also when a call is not answered: no
\* tool sends a write again that may have been applied.
RowOnce ==
    \A i, j \in 1..Len(rows) :
        rows[i] \in Rows /\ rows[j] = rows[i] => i = j

\* An append_top that fails in the write of its row and returns no warning has
\* undone what it did: neither its row nor its empty row is left, provided no
\* other run wrote to the sheet meanwhile and the write does not arrive later
\* (google_sheets.py:380-385).
FailureIsUndone ==
    \A r \in Run : answer[r].kind = "error" /\ job[r] = "top" /\ answer[r].at \in {"put", "undo"}
                     /\ r \notin mixed =>
        \A i \in 1..Len(rows) : rows[i] \notin {BlankOf(r), RowOf(r)}

\* "Undoes by deleting the empty row it inserted" (google_sheets.py:381): the
\* rollback of a run deletes an empty row, or the row it wrote itself.
RollbackDeletesEmptyRow ==
    [][\A r \in Run : pc[r] = "undo" /\ pc'[r] = "done" /\ Len(rows') < Len(rows) =>
         rows[2] \in {BlankOf(s) : s \in Run} \cup {RowOf(r)}]_vars

==============================================================================
