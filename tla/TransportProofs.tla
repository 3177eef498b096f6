-------------------------- MODULE TransportProofs --------------------------
(***************************************************************************)
(* Theorems about Transport: a populate that reports success has stored    *)
(* every row, for any number of rows and pipes of any size, and leaves     *)
(* nothing running.                                                        *)
(***************************************************************************)
EXTENDS Transport, TLAPS

\* Where the main thread is tells which processes there are.
MainInv ==
  /\ main = "query" => source = "none"
  /\ main \in {"query", "insert"} => dest = "none"
  /\ main \in {"insert", "wait", "close", "reap"} => source # "none"
  /\ main = "wait" => dest # "none"
  /\ main \in {"close", "reap", "done"} =>
       /\ dest # "running"
       /\ dest # "none" => pump = "ended"
  /\ main = "done" <=> result # "none"
  /\ dest = "none" <=> pump = "none"

\* Each row the source has written is in a pipe, in the goroutine's buffer or
\* with the destination, as long as the destination reads.
RowsInv ==
  /\ held = (IF pump = "write" THEN 1 ELSE 0)
  /\ dest \in {"none", "running"} => sent = pipe + held + stdin + taken
  /\ dest \notin {"none", "running"} => pipe + held + stdin + taken <= sent
  /\ source = "none" => sent = 0
  /\ source = "ok" => sent = rows

\* The source has been reaped only after its end, with the error it ended with.
WaitInv == waited => Over(source) /\ waitErr = (source = "failed")

\* A destination that was not cut short has got everything the source wrote,
\* and knows less than all only if the copy ended with an error.
EndInv ==
  /\ pump = "ended" /\ dest = "running" => pipe = 0 /\ waited /\ copyErr = waitErr
  /\ dest \in {"ok", "empty"} =>
       /\ pump = "ended" /\ waited /\ copyErr = waitErr
       /\ taken = sent /\ stored = taken
  /\ dest = "empty" => taken = 0

\* What InsertStream and populate returned.
ResultInv ==
  /\ main \in {"close", "reap"} /\ insErr = "none" => dest = "ok" /\ ~copyErr
  /\ main \in {"close", "reap"} /\ insErr = "nodata" => dest = "empty"
  /\ main \in {"close", "reap"} /\ insErr = "failed" => dest \in {"none", "failed"}
  /\ main \in {"close", "reap"} /\ insErr = "copy" => dest = "ok" /\ copyErr
  /\ main = "done" => source = "none" \/ waited

Inv == /\ TypeOK /\ MainInv /\ RowsInv /\ WaitInv /\ EndInv /\ ResultInv
       /\ OkMeansAllRows /\ NoFalseAlarm

-----------------------------------------------------------------------------
(* The invariant is inductive.                                             *)

LEMMA InvInit == Init => Inv
<1> SUFFICES ASSUME Init PROVE Inv
  OBVIOUS
<1>1. TypeOK
  <2>1. /\ rows \in 0..MaxRows /\ sent \in 0..rows /\ taken \in 0..rows /\ stored \in 0..rows
        /\ pipe \in 0..PipeRows /\ stdin \in 0..PipeRows
    BY TransportAssumption DEF Init
  <2>2. {pipeOpen, waited, waitErr, copyErr} \subseteq BOOLEAN
    BY Zenon DEF Init
  <2> QED
    BY <2>1, <2>2 DEF Init, TypeOK, SourceStates, DestStates, InsErrors, Results
<1>2. MainInv /\ WaitInv /\ EndInv /\ ResultInv /\ OkMeansAllRows /\ NoFalseAlarm
  BY DEF Init, MainInv, WaitInv, EndInv, ResultInv, OkMeansAllRows, NoFalseAlarm
<1>3. RowsInv
  BY DEF Init, RowsInv
<1> QED
  BY <1>1, <1>2, <1>3 DEF Inv

LEMMA TypeNext == Inv /\ [Next]_vars => TypeOK'
<1> SUFFICES ASSUME Inv, [Next]_vars PROVE TypeOK'
  OBVIOUS
<1>0. /\ MaxRows \in Nat /\ PipeRows \in Nat /\ PipeRows > 0
      /\ rows \in Nat /\ sent \in Nat /\ taken \in Nat /\ stored \in Nat
      /\ pipe \in Nat /\ stdin \in Nat /\ held \in {0, 1}
      /\ sent <= rows /\ taken <= rows /\ rows <= MaxRows
      /\ pipe + held + stdin + taken <= sent
  BY TransportAssumption DEF Inv, TypeOK, RowsInv, DestStates
<1> USE <1>0 DEF Inv, TypeOK, SourceStates, DestStates, InsErrors, Results
<1>1. CASE QueryStream
  BY <1>1 DEF QueryStream, pipeVars, procVars, anondVars, Return, RunError, WaitError, Outcome, Over
<1>2. CASE InsertStream
  BY <1>2 DEF InsertStream, pipeVars, procVars, anondVars, Return, RunError, WaitError, Outcome, Over
<1>3. CASE InsertReturns
  BY <1>3 DEF InsertReturns, pipeVars, procVars, anondVars, Return, RunError, WaitError, Outcome, Over
<1>4. CASE Close
  <2>1. pipeOpen' \in BOOLEAN /\ main' = "reap"
    BY <1>4 DEF Close
  <2>2. UNCHANGED <<rows, procVars, pipe, stdin, held, pump, waited, waitErr,
                    copyErr, insErr, result>>
    BY <1>4 DEF Close
  <2> QED
    BY <2>1, <2>2 DEF procVars
<1>5. CASE Reap
  BY <1>5 DEF Reap, pipeVars, procVars, anondVars, Return, RunError, WaitError, Outcome, Over
<1>6. CASE PumpRead
  BY <1>6 DEF PumpRead, pipeVars, procVars, anondVars, Return, RunError, WaitError, Outcome, Over
<1>7. CASE PumpWrite
  <2>1. stdin' \in 0..PipeRows /\ held' \in {0, 1} /\ pump' \in {"read", "ended"}
    BY <1>7 DEF PumpWrite
  <2>2. UNCHANGED <<rows, procVars, pipe, pipeOpen, main, waited, waitErr, copyErr, insErr, result>>
    BY <1>7 DEF PumpWrite
  <2> QED
    BY <2>1, <2>2 DEF procVars
<1>8. CASE PumpEOF
  <2>1. waited' \in BOOLEAN /\ waitErr' \in BOOLEAN /\ copyErr' \in BOOLEAN
    BY <1>8 DEF PumpEOF, WaitError
  <2>2. UNCHANGED <<rows, procVars, pipeVars, main, insErr, result>> /\ pump' = "ended"
    BY <1>8 DEF PumpEOF
  <2> QED
    BY <2>1, <2>2 DEF procVars, pipeVars
<1>9. CASE SourceWrite
  <2>1. sent' \in 0..rows /\ pipe' \in 0..PipeRows
    BY <1>9 DEF SourceWrite
  <2>2. UNCHANGED <<rows, source, dest, stored, taken, pipeOpen, stdin, held, anondVars>>
    BY <1>9 DEF SourceWrite
  <2> QED
    BY <2>1, <2>2 DEF anondVars
<1>10. CASE SourceEnds
  BY <1>10 DEF SourceEnds, pipeVars, procVars, anondVars, Return, RunError, WaitError, Outcome, Over
<1>11. CASE SourceFails
  BY <1>11 DEF SourceFails, pipeVars, procVars, anondVars, Return, RunError, WaitError, Outcome, Over
<1>12. CASE DestReads
  <2>1. taken' \in 0..rows /\ stdin' \in 0..PipeRows
    BY <1>12 DEF DestReads
  <2>2. UNCHANGED <<rows, source, dest, sent, stored, pipe, pipeOpen, held, anondVars>>
    BY <1>12 DEF DestReads
  <2> QED
    BY <2>1, <2>2 DEF anondVars
<1>13. CASE DestEnds
  BY <1>13 DEF DestEnds, pipeVars, procVars, anondVars, Return, RunError, WaitError, Outcome, Over
<1>14. CASE DestFails
  <2>1. stored' \in 0..rows /\ dest' = "failed"
    BY <1>14 DEF DestFails
  <2>2. UNCHANGED <<rows, source, sent, taken, pipeVars, anondVars>>
    BY <1>14 DEF DestFails
  <2> QED
    BY <2>1, <2>2 DEF pipeVars, anondVars
<1>15. CASE UNCHANGED vars
  BY <1>15 DEF vars, procVars, pipeVars, anondVars
<1> QED
  BY <1>1, <1>2, <1>3, <1>4, <1>5, <1>6, <1>7, <1>8, <1>9, <1>10, <1>11, <1>12, <1>13, <1>14, <1>15 DEF Next, Main, Pump, Source, Dest

LEMMA InvNext == Inv /\ [Next]_vars => Inv'
<1> SUFFICES ASSUME Inv, [Next]_vars PROVE Inv'
  OBVIOUS
<1>0. TypeOK'
  BY TypeNext
<1>a. /\ rows \in Nat /\ sent \in Nat /\ taken \in Nat /\ stored \in Nat
      /\ pipe \in Nat /\ stdin \in Nat /\ held \in {0, 1}
      /\ source \in SourceStates /\ dest \in DestStates
      /\ insErr \in InsErrors /\ waitErr \in BOOLEAN /\ copyErr \in BOOLEAN /\ waited \in BOOLEAN
  BY DEF Inv, TypeOK
<1>b. MainInv /\ RowsInv /\ WaitInv /\ EndInv /\ ResultInv /\ OkMeansAllRows /\ NoFalseAlarm
  BY DEF Inv
<1> SUFFICES MainInv' /\ RowsInv' /\ WaitInv' /\ EndInv' /\ ResultInv' /\ OkMeansAllRows' /\ NoFalseAlarm'
  BY <1>0 DEF Inv
<1> USE <1>a, <1>b DEF SourceStates, DestStates, InsErrors, MainInv, RowsInv, WaitInv, EndInv,
       ResultInv, OkMeansAllRows, NoFalseAlarm, Over
<1>1. CASE QueryStream
  BY <1>1 DEF QueryStream, pipeVars, procVars, anondVars, Return, RunError, WaitError, Outcome
<1>2. CASE InsertStream
  BY <1>2 DEF InsertStream, pipeVars, procVars, anondVars, Return, RunError, WaitError, Outcome
<1>3. CASE InsertReturns
  BY <1>3 DEF InsertReturns, pipeVars, procVars, anondVars, Return, RunError, WaitError, Outcome
<1>4. CASE Close
  BY <1>4 DEF Close, pipeVars, procVars, anondVars, Return, RunError, WaitError, Outcome
<1>5. CASE Reap
  BY <1>5 DEF Reap, pipeVars, procVars, anondVars, Return, RunError, WaitError, Outcome
<1>6. CASE PumpRead
  BY <1>6 DEF PumpRead, pipeVars, procVars, anondVars, Return, RunError, WaitError, Outcome
<1>7. CASE PumpWrite
  BY <1>7 DEF PumpWrite, pipeVars, procVars, anondVars, Return, RunError, WaitError, Outcome
<1>8. CASE PumpEOF
  BY <1>8 DEF PumpEOF, pipeVars, procVars, anondVars, Return, RunError, WaitError, Outcome
<1>9. CASE SourceWrite
  BY <1>9 DEF SourceWrite, pipeVars, procVars, anondVars, Return, RunError, WaitError, Outcome
<1>10. CASE SourceEnds
  BY <1>10 DEF SourceEnds, pipeVars, procVars, anondVars, Return, RunError, WaitError, Outcome
<1>11. CASE SourceFails
  BY <1>11 DEF SourceFails, pipeVars, procVars, anondVars, Return, RunError, WaitError, Outcome
<1>12. CASE DestReads
  BY <1>12 DEF DestReads, pipeVars, procVars, anondVars, Return, RunError, WaitError, Outcome
<1>13. CASE DestEnds
  BY <1>13 DEF DestEnds, pipeVars, procVars, anondVars, Return, RunError, WaitError, Outcome
<1>14. CASE DestFails
  BY <1>14 DEF DestFails, pipeVars, procVars, anondVars, Return, RunError, WaitError, Outcome
<1>15. CASE UNCHANGED vars
  BY <1>15 DEF vars, procVars, pipeVars, anondVars
<1> QED
  BY <1>1, <1>2, <1>3, <1>4, <1>5, <1>6, <1>7, <1>8, <1>9, <1>10, <1>11, <1>12, <1>13, <1>14, <1>15 DEF Next, Main, Pump, Source, Dest

LEMMA Invariance == Spec => []Inv
BY InvInit, InvNext, PTL DEF Spec

-----------------------------------------------------------------------------

\* Every variable keeps its type: no pipe overflows, and the destination never
\* reads a row the query has not.
THEOREM TypeCorrect == Spec => []TypeOK
BY Invariance, PTL DEF Inv

\* A truncated sample is never taken for whole, for any number of rows and any
\* size of the pipes, whichever process fails whenever.
THEOREM SuccessIsComplete == Spec => []OkMeansAllRows
BY Invariance, PTL DEF Inv

\* Two processes that did their part make no error.
THEOREM ErrorHasCause == Spec => []NoFalseAlarm
BY Invariance, PTL DEF Inv

\* A populate that has returned has left no process and no thread behind.
THEOREM CleanReturn == Spec => []NothingLeftRunning
<1>1. Inv => NothingLeftRunning
  BY DEF Inv, MainInv, WaitInv, ResultInv, Over, NothingLeftRunning
<1> QED
  BY <1>1, Invariance, PTL

-----------------------------------------------------------------------------
(* Transport implements SampleInsert.                                      *)

\* A step that stores rows finds none stored: the destination's process is
\* still running, so it has not ended with rows before, and populate waits.
LEMMA StoresWhileRunning ==
  ASSUME Inv, DestEnds \/ DestFails
  PROVE  result = "none" /\ stored' \in 0..rows /\ UNCHANGED <<rows, result>>
<1>1. dest = "running" /\ main # "done"
  BY DEF DestEnds, DestFails, Inv, MainInv
<1>2. taken \in 0..rows /\ rows \in Nat
  BY DEF Inv, TypeOK
<1>3. stored' \in 0..rows
  BY <1>2 DEF DestEnds, DestFails
<1> QED
  BY <1>1, <1>3 DEF DestEnds, DestFails, anondVars, Inv, MainInv

\* Only a process that has ended has stored anything.
NotYetStored == dest \in {"none", "running"} => stored = 0

LEMMA NotYetStoredNext == Inv /\ NotYetStored /\ [Next]_vars => NotYetStored'
BY DEF Inv, MainInv, NotYetStored, Next, Main, QueryStream, InsertStream, InsertReturns, Close,
       Reap, Pump, PumpRead, PumpWrite, PumpEOF, Source, SourceWrite, SourceEnds,
       SourceFails, Dest, DestReads, DestEnds, DestFails, procVars, vars

LEMMA SampleNext ==
  ASSUME Inv, NotYetStored, Inv', [Next]_vars
  PROVE  [Sample!Next]_(Sample!vars)
<1> USE DEF Sample!vars, Sample!Next, Sample!Insert, Sample!Return
<1>1. CASE DestEnds \/ DestFails
  <2>1. stored = 0
    BY <1>1 DEF DestEnds, DestFails, NotYetStored
  <2>2. stored' \in 1..rows \/ stored' = stored
    BY <1>1, <2>1, StoresWhileRunning DEF Inv, TypeOK
  <2> QED
    BY <1>1, <2>1, <2>2, StoresWhileRunning
<1>2. CASE QueryStream \/ Reap
  <2>1. UNCHANGED <<rows, stored>> /\ (UNCHANGED result \/ result' \in {"ok", "error"})
    BY <1>2 DEF QueryStream, Reap, Return, Outcome, procVars
  <2>2. result = "none"
    BY <1>2 DEF QueryStream, Reap, Inv, MainInv
  <2>3. result' = "ok" => stored \in {0, rows}
    BY <2>1 DEF Inv, OkMeansAllRows
  <2> QED
    BY <2>1, <2>2, <2>3
<1>3. CASE ~(DestEnds \/ DestFails \/ QueryStream \/ Reap)
  BY <1>3 DEF Next, Main, InsertStream, InsertReturns, Close, Pump, PumpRead, PumpWrite,
     PumpEOF, Source, SourceWrite, SourceEnds, SourceFails, Dest, DestReads,
     procVars, anondVars, vars
<1> QED
  BY <1>1, <1>2, <1>3

\* Whatever happens to the two processes, populate looks to the rest of anond
\* like one insert, whole or cut short, and one report after it.
THEOREM OneInsert == Spec => InsertsOnce
<1>1. Init => NotYetStored /\ Sample!Init
  BY DEF Init, NotYetStored, Sample!Init
<1> QED
  BY <1>1, Invariance, NotYetStoredNext, SampleNext, PTL DEF Spec, InsertsOnce, Sample!Spec
=============================================================================
