----------------------------- MODULE Transport -----------------------------
(***************************************************************************)
(* Across clusters a sandbox table is populated by a stream (populate in   *)
(* anon/internal/discover/sandbox.go, QueryStream, InsertStream and        *)
(* procReader in anon/internal/chclient): the client process of the source *)
(* writes the masked rows into a pipe, a goroutine of anond copies them    *)
(* into the standard input of the client process of the destination.       *)
(*                                                                         *)
(* This module is one call of populate.  anond's main thread, the copying  *)
(* goroutine (pump) and the two client processes take part; the processes  *)
(* may fail at any time.  A pipe is the number of rows in it.              *)
(***************************************************************************)
EXTENDS Naturals

CONSTANTS
  MaxRows,   \* bound: how many rows the query may return
  PipeRows   \* how many rows a pipe holds

ASSUME TransportAssumption == MaxRows \in Nat /\ PipeRows \in Nat \ {0}

VARIABLES
  rows,               \* what the query returns
  source, dest,       \* "none", "running" or how the process ended
  sent, stored,       \* rows the source has written, the table has
  pipe, pipeOpen,     \* source's stdout: rows in it, read end open
  stdin, held, taken, \* dest's stdin, row in the pump's buffer, rows dest has read
  main, pump,         \* where the two threads of anond are
  waited, waitErr,    \* procReader: process reaped, and the error it cached
  copyErr,            \* error of the copying goroutine
  insErr,             \* error of InsertStream
  result              \* what populate returned

procVars  == <<source, dest, sent, stored, taken>>
pipeVars  == <<pipe, pipeOpen, stdin, held>>
anondVars == <<main, pump, waited, waitErr, copyErr, insErr, result>>
vars      == <<rows, procVars, pipeVars, anondVars>>

SourceStates == {"none", "running", "ok", "failed"}
DestStates   == {"none", "running", "ok", "empty", "failed"}
InsErrors    == {"none", "copy", "nodata", "failed"}
Results      == {"none", "ok", "error"}

Init ==
  /\ rows \in 0..MaxRows
  /\ source = "none" /\ dest = "none" /\ sent = 0 /\ stored = 0 /\ taken = 0
  /\ pipe = 0 /\ pipeOpen = FALSE /\ stdin = 0 /\ held = 0
  /\ main = "query" /\ pump = "none" /\ waited = FALSE /\ waitErr = FALSE
  /\ copyErr = FALSE /\ insErr = "none" /\ result = "none"

-----------------------------------------------------------------------------
(* The main thread.                                                        *)

Return(value) == main' = "done" /\ result' = value

\* QueryStream: the source process may not start.
QueryStream ==
  /\ main = "query"
  /\ \/ /\ source' = "running" /\ pipeOpen' = TRUE
        /\ main' = "insert" /\ UNCHANGED result
     \/ Return("error") /\ UNCHANGED <<source, pipeOpen>>
  /\ UNCHANGED <<rows, dest, sent, stored, taken, pipe, stdin, held,
                 pump, waited, waitErr, copyErr, insErr>>

\* InsertStream starts the destination's process and the copying goroutine.
InsertStream ==
  /\ main = "insert"
  /\ \/ dest' = "running" /\ pump' = "read" /\ main' = "wait" /\ UNCHANGED insErr
     \/ insErr' = "failed" /\ main' = "close" /\ UNCHANGED <<dest, pump>>
  /\ UNCHANGED <<rows, source, sent, stored, taken, pipeVars, waited, waitErr,
                 copyErr, result>>

Over(process) == process \notin {"none", "running"}

\* Mutant: an exit code other than 0 is handed on as it is.
RunErrorRaw == IF dest = "ok" THEN (IF copyErr THEN "copy" ELSE "none") ELSE dest

\* What cmd.Run says: the exit of the process first, then the copy's error.
RunError ==
  CASE dest = "ok" -> IF copyErr THEN "copy" ELSE "none"
    [] dest = "empty" -> "nodata"
    [] OTHER -> "failed"

\* Mutant: the exit of the destination's process is not awaited.
InsertReturnsEarly ==
  /\ main = "wait" /\ pump = "ended"
  /\ insErr' = RunError
  /\ main' = "close"
  /\ UNCHANGED <<rows, procVars, pipeVars, pump, waited, waitErr, copyErr, result>>

\* cmd.Run returns when the process has ended and the goroutine too.
InsertReturns ==
  /\ main = "wait" /\ Over(dest) /\ pump = "ended"
  /\ insErr' = RunError
  /\ main' = "close"
  /\ UNCHANGED <<rows, procVars, pipeVars, pump, waited, waitErr, copyErr, result>>

\* Mutant: the pipe stays open until the source has ended.
CloseReapsFirst ==
  /\ main = "close"
  /\ waited \/ Over(source)
  /\ pipeOpen' = FALSE
  /\ main' = "reap"
  /\ UNCHANGED <<rows, procVars, pipe, stdin, held, pump, waited, waitErr,
                 copyErr, insErr, result>>

\* procReader.Close closes the pipe, so that a source that still writes ends.
Close ==
  /\ main = "close"
  /\ pipeOpen' = FALSE
  /\ main' = "reap"
  /\ UNCHANGED <<rows, procVars, pipe, stdin, held, pump, waited, waitErr,
                 copyErr, insErr, result>>

\* The error of wait: the first call reaps the process, later ones repeat it.
WaitError == IF waited THEN waitErr ELSE source = "failed"

\* Mutant: the error of Close replaces that of the insert.
OutcomeOfClose(closeErr) == IF closeErr THEN "error" ELSE "ok"

\* Mutant: an empty insert is a failure.
OutcomeStrict(closeErr) == IF insErr = "none" /\ ~closeErr THEN "ok" ELSE "error"

\* An error of the insert goes first; NO_DATA_TO_INSERT is none.
Outcome(closeErr) ==
  CASE insErr = "none" -> IF closeErr THEN "error" ELSE "ok"
    [] insErr = "nodata" -> "ok"
    [] OTHER -> "error"

\* Mutant: Close does not wait for the process.
ReapAbandons ==
  /\ main = "reap"
  /\ waited' = TRUE /\ waitErr' = WaitError
  /\ Return(Outcome(WaitError))
  /\ UNCHANGED <<rows, procVars, pipeVars, pump, copyErr, insErr>>

\* The rest of Close, and the end of populate.
Reap ==
  /\ main = "reap"
  /\ waited \/ Over(source)
  /\ waited' = TRUE /\ waitErr' = WaitError
  /\ Return(Outcome(WaitError))
  /\ UNCHANGED <<rows, procVars, pipeVars, pump, copyErr, insErr>>

Main == QueryStream \/ InsertStream \/ InsertReturns \/ Close \/ Reap

-----------------------------------------------------------------------------
(* The copying goroutine of cmd.Run.                                       *)

PumpRead ==
  /\ pump = "read" /\ pipe > 0
  /\ pipe' = pipe - 1 /\ held' = 1
  /\ pump' = "write"
  /\ UNCHANGED <<rows, procVars, pipeOpen, stdin, main, waited, waitErr, copyErr,
                 insErr, result>>

\* A write to a process that has ended is the end of the copy, not an error.
PumpWrite ==
  /\ pump = "write"
  /\ \/ /\ dest = "running" /\ stdin < PipeRows
        /\ stdin' = stdin + 1 /\ held' = 0 /\ pump' = "read"
     \/ /\ Over(dest)
        /\ held' = 0 /\ pump' = "ended" /\ UNCHANGED stdin
  /\ UNCHANGED <<rows, procVars, pipe, pipeOpen, main, waited, waitErr, copyErr,
                 insErr, result>>

\* procReader.Read at the end of the pipe reaps the source and turns its
\* failure into an error of the copy.  Either way stdin is closed.
PumpEOF ==
  /\ pump = "read" /\ pipe = 0 /\ Over(source)
  /\ waited' = TRUE /\ waitErr' = WaitError
  /\ copyErr' = WaitError
  /\ pump' = "ended"
  /\ UNCHANGED <<rows, procVars, pipeVars, main, insErr, result>>

Pump == PumpRead \/ PumpWrite \/ PumpEOF

-----------------------------------------------------------------------------
(* The client processes.                                                   *)

SourceWrite ==
  /\ source = "running" /\ pipeOpen /\ sent < rows /\ pipe < PipeRows
  /\ sent' = sent + 1 /\ pipe' = pipe + 1
  /\ UNCHANGED <<rows, source, dest, stored, taken, pipeOpen, stdin, held, anondVars>>

\* It ends when all is written, or by the write to a closed pipe.
SourceEnds ==
  /\ source = "running"
  /\ \/ sent = rows /\ source' = "ok"
     \/ sent < rows /\ ~pipeOpen /\ source' = "failed"
  /\ UNCHANGED <<rows, dest, sent, stored, taken, pipeVars, anondVars>>

\* The query fails, or the process is killed.
SourceFails ==
  /\ source = "running" /\ source' = "failed"
  /\ UNCHANGED <<rows, dest, sent, stored, taken, pipeVars, anondVars>>

DestReads ==
  /\ dest = "running" /\ stdin > 0
  /\ stdin' = stdin - 1 /\ taken' = taken + 1
  /\ UNCHANGED <<rows, source, dest, sent, stored, pipe, pipeOpen, held, anondVars>>

\* Its input is over; without a row it ends with NO_DATA_TO_INSERT.
DestEnds ==
  /\ dest = "running" /\ stdin = 0 /\ pump = "ended"
  /\ dest' = IF taken = 0 THEN "empty" ELSE "ok"
  /\ stored' = taken
  /\ UNCHANGED <<rows, source, sent, taken, pipeVars, anondVars>>

\* The insert fails; blocks sent earlier may be in the table.
DestFails ==
  /\ dest = "running" /\ dest' = "failed"
  /\ stored' \in 0..taken
  /\ UNCHANGED <<rows, source, sent, taken, pipeVars, anondVars>>

Source == SourceWrite \/ SourceEnds
Dest   == DestReads \/ DestEnds

Next == Main \/ Pump \/ Source \/ SourceFails \/ Dest \/ DestFails

\* anond's threads run, and each client process goes on as long as its pipes
\* let it; failures need not happen.
Fairness == WF_vars(Main) /\ WF_vars(Pump) /\ WF_vars(Source) /\ WF_vars(Dest)

Spec == Init /\ [][Next]_vars /\ Fairness

-----------------------------------------------------------------------------

\* Every variable holds values of its type, and no pipe holds more than fits.
TypeOK ==
  /\ rows \in 0..MaxRows
  /\ source \in SourceStates /\ dest \in DestStates
  /\ sent \in 0..rows /\ taken \in 0..rows /\ stored \in 0..rows
  /\ pipe \in 0..PipeRows /\ stdin \in 0..PipeRows /\ held \in {0, 1}
  /\ main \in {"query", "insert", "wait", "close", "reap", "done"}
  /\ pump \in {"none", "read", "write", "ended"}
  /\ {pipeOpen, waited, waitErr, copyErr} \subseteq BOOLEAN
  /\ insErr \in InsErrors /\ result \in Results

\* chclient.go:276: a populate that reports no error has stored every row of
\* the query, never a truncated sample, whichever process failed at whatever
\* time; the one exception is a source that fails before its first row.
OkMeansAllRows ==
  result = "ok" => stored = rows \/ (stored = 0 /\ source = "failed")

\* sandbox.go:300: two processes that did their part make no error, also when
\* there was nothing to insert.
NoFalseAlarm ==
  result = "error" => source # "ok" \/ dest \notin {"ok", "empty"}

\* chclient.go:258: when populate has returned, no thread of it is left: the
\* source is reaped, the destination's process and the goroutine have ended.
NothingLeftRunning ==
  main = "done" =>
    /\ source # "running" /\ (source # "none" => waited)
    /\ dest # "running" /\ pump \in {"none", "ended"}

Sample == INSTANCE SampleInsert

\* sandbox.go:320: what populate has done is settled when it returns: rows
\* reach the table once, never after it has reported, and success means all of
\* them or none.
InsertsOnce == Sample!Spec

\* chclient.go:285: populate comes to an end, however the processes fail and
\* however full the pipes are.
PopulateReturns == <>(main = "done")
=============================================================================
