--------------------------- MODULE SandboxProofs ---------------------------
(***************************************************************************)
(* Theorems about Sandbox, for every number of tables, processes, runs and *)
(* foreign objects.                                                        *)
(***************************************************************************)
EXTENDS Sandbox, TLAPS

USE DEF Table, SandboxDB, Name, Run, NoRun, NoRows, Owner, Secret, Absent,
        NoCounts, RunPcs, Pc,
        destVars, metaVars, guideVars, localVars, envVars, vars

-----------------------------------------------------------------------------
(* Type correctness                                                        *)

LEMMA TypeInit == Init => TypeOK
<1> SUFFICES ASSUME Init PROVE TypeOK
  OBVIOUS
<1>1. 1 \in Table /\ NoRows \in Int /\ Absent.owner \in Owner
  BY ConstantsAssumption
<1>2. profile \in [Run -> [Table -> Nat \cup {NoRows}]]
  BY DEF Init
<1>3. counted \in [Procs -> [Table -> Nat \cup {NoRows}]]
  BY DEF Init
<1>4. /\ cur \in [Procs -> Table]
      /\ lastRun \in 0..MaxRuns /\ others \in 0..MaxOthers
      /\ dbOwner \in Owner
  BY <1>1, ConstantsAssumption DEF Init
<1>5. tbl \in [Table -> [owner : Owner, rows : Nat, run : Run \cup {NoRun}]]
  BY DEF Init
<1>6. pc \in [Procs -> Pc] /\ \A p \in Procs : pc[p] \notin RunPcs
  BY DEF Init
<1> QED
  BY <1>2, <1>3, <1>4, <1>5, <1>6 DEF Init, TypeOK

TableType == tbl \in [Table -> [owner : Owner, rows : Nat, run : Run \cup {NoRun}]]
NoOrphans == dbOwner = "none" => \A t \in Table : tbl[t] = Absent

\* Inserting rows into an existing table keeps the catalog well-typed.
LEMMA InsertType ==
  ASSUME TypeOK, UNCHANGED dbOwner, NEW t \in Table, NEW n \in 0..SampleRows,
         InsertRows(t, n)
  PROVE  TableType' /\ NoOrphans'
<1>1. tbl[t].rows \in Nat /\ n \in Nat
  BY ConstantsAssumption DEF TypeOK
<1>2. tbl[t].rows + n \in Nat
  BY <1>1
<1>3. TableType'
  <2>1. [tbl[t] EXCEPT !.rows = @ + n]
          \in [owner : Owner, rows : Nat, run : Run \cup {NoRun}]
    <3>1. tbl[t] \in [owner : Owner, rows : Nat, run : Run \cup {NoRun}]
      BY DEF TypeOK
    <3> QED
      BY <1>2, <3>1
  <2>2. tbl' = [tbl EXCEPT ![t] = [tbl[t] EXCEPT !.rows = @ + n]]
    BY DEF InsertRows
  <2> QED
    BY <2>1, <2>2 DEF TypeOK, TableType
<1>4. dbOwner # "none"
  <2>1. tbl[t] # Absent
    BY DEF InsertRows
  <2> QED
    BY <2>1 DEF TypeOK
<1> QED
  BY <1>3, <1>4 DEF NoOrphans

\* The control state of TypeOK.
ControlType ==
  /\ pc \in [Procs -> Pc] /\ tries \in [Procs -> {1, 2}]
  /\ \A p \in Procs : pc[p] \in RunPcs => run[p] # NoRun

\* However the server answers, a reply leads to the statement named next or
\* back to the one that is repeated.
LEMMA ReplyType ==
  ASSUME TypeOK, NEW p \in Procs, NEW next \in Pc \ RunPcs, Reply(p, next),
         UNCHANGED run
  PROVE  ControlType'
<1> USE DEF Advance, Replay, Reply
<1> HIDE DEF Pc, RunPcs
<1>1. pc' \in [Procs -> Pc] /\ tries' \in [Procs -> {1, 2}]
  <2>1. pc \in [Procs -> Pc] /\ tries \in [Procs -> {1, 2}] /\ next \in Pc
    BY DEF TypeOK
  <2>2. CASE Advance(p, next)
    BY <2>1, <2>2
  <2>3. CASE Replay(p)
    BY <2>1, <2>3
  <2> QED
    BY <2>2, <2>3
<1>2. ASSUME NEW q \in Procs, pc'[q] \in RunPcs
      PROVE  run'[q] # NoRun
  <2>1. pc'[q] = pc[q]
    BY <1>2 DEF TypeOK
  <2> QED
    BY <1>2, <2>1 DEF TypeOK
<1> QED
  BY <1>1, <1>2 DEF ControlType

\* Names only leave the list cleanup works on.
LEMMA TodoType ==
  ASSUME TypeOK, NEW p \in Procs, NEW x, Dropped(p, x)
  PROVE  todo' \in [Procs -> SUBSET Name]
<1>1. todo \in [Procs -> SUBSET Name] /\ todo[p] \ {x} \in SUBSET Name
  BY DEF TypeOK
<1>2. todo' = [todo EXCEPT ![p] = @ \ {x}] \/ todo' = todo
  BY DEF Dropped
<1> HIDE DEF Name
<1> QED
  BY <1>1, <1>2

LEMMA TypeRun ==
  ASSUME TypeOK, NEW p \in Procs, RunStep(p)
  PROVE  TypeOK'
<1> USE ConstantsAssumption DEF TypeOK, Advance, Replay, Reply
<1>1. CASE InitMeta(p)
  BY ZenonT(60), <1>1 DEF InitMeta
<1>2. CASE WritePlan(p)
  BY ZenonT(60), <1>2 DEF WritePlan, WriteTrusted
<1>3. CASE CheckDb(p)
  BY <1>3 DEF CheckDb
<1>4. CASE DbIsOurs(p)
  BY <1>4 DEF DbIsOurs
<1>5. CASE RegisterDb(p)
  BY ZenonT(60), <1>5 DEF RegisterDb, Register
<1>6. CASE CreateDb(p)
  BY ZenonT(60), <1>6 DEF CreateDb
<1>7. CASE CheckTable(p)
  BY <1>7 DEF CheckTable
<1>8. CASE TableIsOurs(p)
  BY <1>8 DEF TableIsOurs
<1>9. CASE RegisterTable(p)
  <2>1. pc' \in [Procs -> Pc] /\ tries' \in [Procs -> {1, 2}]
    <3> DEFINE next == IF seen[p] THEN "drop" ELSE "create"
    <3>1. next \in {"drop", "create"}
      OBVIOUS
    <3> HIDE DEF next
    <3> QED
      BY ZenonT(60), <1>9, <3>1 DEF RegisterTable, next
  <2>2. cur[p] \in Name
    OBVIOUS
  <2>3. \A q \in Procs : pc'[q] \in RunPcs => run'[q] # NoRun
    BY <1>9 DEF RegisterTable, Register
  <2> QED
    BY <1>9, <2>1, <2>2, <2>3 DEF RegisterTable, Register
<1>10. CASE DropTable(p)
  BY ZenonT(60), <1>10 DEF DropTable
<1>11. CASE CreateTable(p)
  BY ZenonT(60), <1>11 DEF CreateTable
<1>12. CASE Populate(p)
  <2>1. PICK n \in 0..SampleRows : InsertRows(cur[p], n)
    BY <1>12 DEF Populate
  <2>2. TableType' /\ NoOrphans'
    <3>1. cur[p] \in Table /\ UNCHANGED dbOwner
      BY <1>12 DEF Populate
    <3> QED
      BY <2>1, <3>1, InsertType
  <2>3. /\ pc' \in [Procs -> Pc] /\ tries' \in [Procs -> {1, 2}]
        /\ \A q \in Procs : pc'[q] \in RunPcs => run'[q] # NoRun
    BY ZenonT(60), <1>12 DEF Populate, AfterPopulate
  <2>4. UNCHANGED <<dbOwner, metaVars, guideVars, trusted, localVars, envVars>>
    BY <1>12 DEF Populate
  <2> QED
    BY <2>2, <2>3, <2>4 DEF TableType, NoOrphans
<1>13. CASE PopulateFails(p)
  <2>1. TableType' /\ NoOrphans'
    <3>1. CASE UNCHANGED tbl
      BY <1>13, <3>1 DEF PopulateFails, TableType, NoOrphans
    <3>2. CASE \E n \in 0..SampleRows : InsertRows(cur[p], n)
      <4>1. PICK n \in 0..SampleRows : InsertRows(cur[p], n)
        BY <3>2
      <4> QED
        <5>1. cur[p] \in Table /\ UNCHANGED dbOwner
          BY <1>13 DEF PopulateFails
        <5> QED
          BY <4>1, <5>1, InsertType
    <3> QED
      BY <1>13, <3>1, <3>2 DEF PopulateFails
  <2>2. /\ pc' \in [Procs -> Pc] /\ tries' \in [Procs -> {1, 2}]
        /\ cur' \in [Procs -> Table]
        /\ \A q \in Procs : pc'[q] \in RunPcs => run'[q] # NoRun
    BY <1>13 DEF PopulateFails, NextTable
  <2>3. UNCHANGED <<dbOwner, metaVars, guideVars, trusted, run, seen, counted,
                    todo, dropMeta, envVars>>
    BY <1>13 DEF PopulateFails
  <2> QED
    BY <2>1, <2>2, <2>3 DEF TableType, NoOrphans
<1>14. CASE CountEmpty(p)
  BY <1>14 DEF CountEmpty
<1>15. CASE CountRows(p)
  <2>1. counted' \in [Procs -> [Table -> Nat \cup {NoRows}]]
    <3>1. tbl[cur[p]].rows \in Nat
      OBVIOUS
    <3>2. [counted[p] EXCEPT ![cur[p]] = tbl[cur[p]].rows]
             \in [Table -> Nat \cup {NoRows}]
      BY <3>1
    <3> QED
      BY <1>15, <3>2 DEF CountRows
  <2> QED
    BY SMTT(30), <1>15, <2>1 DEF CountRows, NextTable
<1>16. CASE WriteMap(p)
  BY ZenonT(60), <1>16 DEF WriteMap, WriteTrusted
<1>17. CASE WriteProfile(p)
  BY ZenonT(60), <1>17 DEF WriteProfile
<1>18. CASE WriteGuide(p)
  BY ZenonT(60), <1>18 DEF WriteGuide
<1>19. CASE Verify(p)
  BY ZenonT(60), <1>19 DEF Verify
<1>20. CASE WriteManifest(p)
  BY ZenonT(60), <1>20 DEF WriteManifest
<1> QED
  BY <1>1, <1>2, <1>3, <1>4, <1>5, <1>6, <1>7, <1>8, <1>9, <1>10, <1>11, <1>12,
     <1>13, <1>14, <1>15, <1>16, <1>17, <1>18, <1>19, <1>20 DEF RunStep

LEMMA TypeStart ==
  ASSUME TypeOK, NEW p \in Procs, Start(p)
  PROVE  TypeOK'
<1> USE ConstantsAssumption DEF TypeOK, Advance
<1>1. CASE StartRun(p)
  <2>1. /\ lastRun' \in 0..MaxRuns /\ run' \in [Procs -> Run \cup {NoRun}]
        /\ cur' \in [Procs -> Table]
    <3>1. lastRun + 1 \in Run /\ lastRun + 1 \in 0..MaxRuns /\ 1 \in Table
      BY <1>1 DEF StartRun
    <3> HIDE DEF Run, Table
    <3> QED
      BY <1>1, <3>1 DEF StartRun
  <2>2. counted' \in [Procs -> [Table -> Nat \cup {NoRows}]]
    <3>1. NoCounts \in [Table -> Nat \cup {NoRows}]
      OBVIOUS
    <3> HIDE DEF NoCounts
    <3> QED
      BY <1>1, <3>1 DEF StartRun
  <2>3. pc' \in [Procs -> Pc] /\ tries' \in [Procs -> {1, 2}]
    BY <1>1 DEF StartRun
  <2>4. \A q \in Procs : pc'[q] \in RunPcs => run'[q] # NoRun
    <3>1. run'[p] # NoRun
      BY <1>1 DEF StartRun
    <3>2. \A q \in Procs \ {p} : pc'[q] = pc[q] /\ run'[q] = run[q]
      BY <1>1 DEF StartRun
    <3> QED
      BY <3>1, <3>2
  <2> QED
    BY <1>1, <2>1, <2>2, <2>3, <2>4 DEF StartRun
<1>2. ASSUME NEW meta \in IncludeMeta, StartCleanup(p, meta)
      PROVE  TypeOK'
  <2>1. meta \in BOOLEAN
    OBVIOUS
  <2> QED
    BY <1>2, <2>1 DEF StartCleanup
<1> QED
  BY <1>1, <1>2 DEF Start

LEMMA TypeCleanup ==
  ASSUME TypeOK, NEW p \in Procs, CleanupStep(p)
  PROVE  TypeOK'
<1> USE ConstantsAssumption DEF TypeOK, Advance, Replay, Reply, Dropped
<1>0. Absent \in [owner : Owner, rows : Nat, run : Run \cup {NoRun}]
  OBVIOUS
<1>5. "cleanup" \in Pc \ RunPcs /\ "idle" \in Pc \ RunPcs
  OBVIOUS
<1>1. CASE CleanupTable(p)
  <2>1. PICK t \in todo[p] \cap Table :
             tbl' = [tbl EXCEPT ![t] = Absent] /\ Dropped(p, t)
    BY <1>1 DEF CleanupTable
  <2>2. /\ tbl' \in [Table -> [owner : Owner, rows : Nat, run : Run \cup {NoRun}]]
        /\ UNCHANGED dbOwner
        /\ dbOwner' = "none" => \A x \in Table : tbl'[x] = Absent
    <3>1. t \in Table /\ UNCHANGED dbOwner
      BY <1>1, <2>1 DEF CleanupTable
    <3>2. tbl' \in [Table -> [owner : Owner, rows : Nat, run : Run \cup {NoRun}]]
      BY <1>0, <2>1, <3>1
    <3>3. \A x \in Table : tbl'[x] \in {tbl[x], Absent}
      BY <2>1
    <3> QED
      BY <3>1, <3>2, <3>3
  <2>3. todo' \in [Procs -> SUBSET Name]
    BY <2>1, TodoType
  <2>4. Reply(p, "cleanup") /\ UNCHANGED run
    BY <2>1
  <2>5. ControlType'
    BY <1>5, <2>4, ReplyType
  <2> QED
    BY <2>1, <2>2, <2>3, <2>5 DEF ControlType
<1>2. CASE CleanupDb(p)
  <2>1. /\ tbl' \in [Table -> [owner : Owner, rows : Nat, run : Run \cup {NoRun}]]
        /\ dbOwner' \in Owner
        /\ \A x \in Table : tbl'[x] = Absent
    <3>1. tbl' = [t \in Table |-> Absent] /\ dbOwner' = "none"
      BY <1>2 DEF CleanupDb
    <3>2. \A x \in Table : tbl'[x] = Absent
      BY <3>1
    <3> HIDE DEF Absent
    <3> QED
      BY <1>0, <3>1, <3>2
  <2>2. todo' \in [Procs -> SUBSET Name]
    BY <1>2, TodoType DEF CleanupDb
  <2>3. Reply(p, "cleanup") /\ UNCHANGED run
    BY <1>2 DEF CleanupDb
  <2>4. ControlType'
    BY <1>5, <2>3, ReplyType
  <2> QED
    BY <1>2, <2>1, <2>2, <2>4 DEF CleanupDb, ControlType
<1>3. CASE CleanupMeta(p)
  <2>1. profile' \in [Run -> [Table -> Nat \cup {NoRows}]]
    <3>1. profile' = [r \in Run |-> NoCounts]
      BY <1>3 DEF CleanupMeta
    <3>2. NoCounts \in [Table -> Nat \cup {NoRows}]
      OBVIOUS
    <3> HIDE DEF NoCounts
    <3> QED
      BY <3>1, <3>2
  <2>2. Reply(p, "idle") /\ UNCHANGED run
    BY <1>3 DEF CleanupMeta
  <2>3. ControlType'
    BY <1>5, <2>2, ReplyType
  <2> QED
    BY <1>3, <2>1, <2>3 DEF CleanupMeta, ControlType
<1>4. CASE CleanupDone(p)
  BY <1>4 DEF CleanupDone
<1> QED
  BY <1>1, <1>2, <1>3, <1>4 DEF CleanupStep

LEMMA TypeOthers ==
  ASSUME TypeOK, Others
  PROVE  TypeOK'
<1> USE ConstantsAssumption DEF TypeOK, Others, Creates
<1>1. CASE OtherCreatesDb
  BY <1>1 DEF OtherCreatesDb
<1>2. CASE OtherDropsDb
  BY <1>2 DEF OtherDropsDb
<1>3. CASE InstallGuide
  BY <1>3 DEF InstallGuide
<1>4. ASSUME NEW t \in Table, OtherCreatesTable(t)
      PROVE  TypeOK'
  BY SMTT(30), <1>4 DEF OtherCreatesTable
<1>5. ASSUME NEW t \in Table, OtherDropsTable(t)
      PROVE  TypeOK'
  BY <1>5 DEF OtherDropsTable
<1> QED
  BY <1>1, <1>2, <1>3, <1>4, <1>5

LEMMA TypeNext == TypeOK /\ [Next]_vars => TypeOK'
<1> SUFFICES ASSUME TypeOK, [Next]_vars PROVE TypeOK'
  OBVIOUS
<1>1. CASE Others
  BY <1>1, TypeOthers
<1>2. ASSUME NEW p \in Procs, Start(p) PROVE TypeOK'
  BY <1>2, TypeStart
<1>3. ASSUME NEW p \in Procs, Step(p) PROVE TypeOK'
  <2>1. CASE RunStep(p)
    BY <2>1, TypeRun
  <2>2. CASE CleanupStep(p)
    BY <2>2, TypeCleanup
  <2>3. CASE Refused(p)
    BY <2>3 DEF Refused, Replay, TypeOK
  <2>4. CASE Exit(p)
    BY SMTT(30), <2>4, ConstantsAssumption DEF Exit, Advance, TypeOK
  <2> QED
    BY <1>3, <2>1, <2>2, <2>3, <2>4 DEF Step
<1>4. CASE UNCHANGED vars
  BY <1>4 DEF TypeOK
<1> QED
  BY <1>1, <1>2, <1>3, <1>4 DEF Next

\* Every reachable state is well-typed, whatever statements fail, are
\* repeated or are cut short, and no table outlives its database.
THEOREM TypeCorrect == Spec => []TypeOK
  BY TypeInit, TypeNext, PTL DEF Spec

-----------------------------------------------------------------------------
(* The registry.  An object is created under a name that was registered    *)
(* two statements earlier; in between, nothing may shrink the registry.    *)
(* Only CleanupMeta does, so it must run alone.                            *)

Solo     == \A p, q \in Procs : p = q
SafeMeta == TRUE \in IncludeMeta => Solo

\* What each process relies on when it is about to create, drop or fill.
Claimed ==
  \A p \in Procs :
    /\ pc[p] = "dbCreate" => SandboxDB \in registry
    /\ pc[p] \in {"drop", "create", "populate", "count", "repopulate",
                  "recount"} => cur[p] \in registry

TodoRegistered ==
  \A p \in Procs :
    /\ dropMeta[p] => TRUE \in IncludeMeta
    /\ pc[p] = "cleanup" => todo[p] \subseteq registry

\* A cleanup that is alone has every object of anond still on its list.
TodoCovers ==
  Solo => \A p \in Procs :
    pc[p] = "cleanup" =>
      /\ dbOwner = "anond" => SandboxDB \in todo[p]
      /\ \A t \in Table : tbl[t].owner = "anond" => t \in todo[p]

RegistryInv ==
  TypeOK /\ CreatedIsRegistered /\ Claimed /\ TodoRegistered /\ TodoCovers

\* What a step of `anond run` does to the state RegistryInv is about.
RunFrame(p) ==
  /\ pc[p] # "cleanup" /\ pc'[p] # "cleanup"
  /\ \A q \in Procs \ {p} : pc'[q] = pc[q] /\ cur'[q] = cur[q]
  /\ registry \subseteq registry' /\ UNCHANGED <<todo, dropMeta>>
  /\ dbOwner' = "anond" => dbOwner = "anond" \/ SandboxDB \in registry
  /\ \A t \in Table :
       tbl'[t].owner = "anond" => tbl[t].owner = "anond" \/ t \in registry
  /\ pc'[p] = "dbCreate" => SandboxDB \in registry'
  /\ pc'[p] \in {"drop", "create", "populate", "count", "repopulate", "recount"}
       => cur'[p] \in registry'

LEMMA RunFramePreserves ==
  ASSUME RegistryInv, TypeOK', NEW p \in Procs, RunFrame(p)
  PROVE  RegistryInv'
<1> USE DEF RegistryInv, RunFrame
<1>1. CreatedIsRegistered'
  BY DEF CreatedIsRegistered
<1>2. Claimed'
  BY DEF Claimed
<1>3. TodoRegistered'
  BY DEF TodoRegistered
<1>4. TodoCovers'
  <2> SUFFICES ASSUME Solo, NEW q \in Procs, pc'[q] = "cleanup" PROVE FALSE
    BY DEF TodoCovers
  <2> QED
    BY DEF Solo
<1> QED
  BY <1>1, <1>2, <1>3, <1>4

LEMMA RunStepFrame ==
  ASSUME TypeOK, Claimed, NEW p \in Procs, RunStep(p)
  PROVE  RunFrame(p)
<1>0. /\ pc \in [Procs -> Pc] /\ cur \in [Procs -> Table]
      /\ tbl \in [Table -> [owner : Owner, rows : Nat, run : Run \cup {NoRun}]]
  BY DEF TypeOK
<1>00. /\ pc[p] = "dbCreate" => SandboxDB \in registry
       /\ pc[p] \in {"drop", "create", "populate", "count", "repopulate",
                     "recount"} => cur[p] \in registry
  BY DEF Claimed
<1> HIDE DEF Name, Run, Owner, Secret, NoCounts, RunPcs, Pc, Table
<1> USE <1>0, <1>00 DEF RunFrame, Advance, Replay, Reply
<1>1. CASE InitMeta(p)
  BY <1>1 DEF InitMeta
<1>2. CASE WritePlan(p)
  BY <1>2 DEF WritePlan, WriteTrusted
<1>3. CASE CheckDb(p)
  BY <1>3 DEF CheckDb
<1>4. CASE DbIsOurs(p)
  BY <1>4 DEF DbIsOurs
<1>5. CASE RegisterDb(p)
  BY <1>5 DEF RegisterDb, Register
<1>6. CASE CreateDb(p)
  BY <1>6 DEF CreateDb
<1>7. CASE CheckTable(p)
  BY <1>7 DEF CheckTable
<1>8. CASE TableIsOurs(p)
  BY <1>8 DEF TableIsOurs
<1>9. CASE RegisterTable(p)
  BY <1>9 DEF RegisterTable, Register
<1>10. CASE DropTable(p)
  BY <1>10 DEF DropTable
<1>11. CASE CreateTable(p)
  BY <1>11 DEF CreateTable
<1>12. CASE Populate(p)
  BY <1>12 DEF Populate, InsertRows, AfterPopulate
<1>13. CASE PopulateFails(p)
  BY <1>13 DEF PopulateFails, InsertRows, NextTable
<1>14. CASE CountEmpty(p)
  BY <1>14 DEF CountEmpty
<1>15. CASE CountRows(p)
  BY <1>15 DEF CountRows, NextTable
<1>16. CASE WriteMap(p)
  BY <1>16 DEF WriteMap, WriteTrusted
<1>17. CASE WriteProfile(p)
  BY <1>17 DEF WriteProfile
<1>18. CASE WriteGuide(p)
  BY <1>18 DEF WriteGuide
<1>19. CASE Verify(p)
  BY <1>19 DEF Verify
<1>20. CASE WriteManifest(p)
  BY <1>20 DEF WriteManifest
<1> QED
  BY <1>1, <1>2, <1>3, <1>4, <1>5, <1>6, <1>7, <1>8, <1>9, <1>10, <1>11, <1>12, <1>13, <1>14, <1>15, <1>16, <1>17, <1>18, <1>19, <1>20 DEF RunStep

LEMMA RegistryStart ==
  ASSUME RegistryInv, NEW p \in Procs, Start(p)
  PROVE  CreatedIsRegistered' /\ Claimed' /\ TodoRegistered' /\ TodoCovers'
<1>0. /\ pc \in [Procs -> Pc] /\ cur \in [Procs -> Table]
      /\ todo \in [Procs -> SUBSET Name] /\ dropMeta \in [Procs -> BOOLEAN]
  BY DEF RegistryInv, TypeOK
<1> HIDE DEF Name, Run, Owner, Secret, NoCounts, RunPcs, Pc, Table
<1> USE <1>0 DEF RegistryInv, CreatedIsRegistered, Claimed, TodoRegistered,
                 TodoCovers, Advance
<1>1. CASE StartRun(p)
  BY <1>1 DEF StartRun
<1>2. ASSUME NEW meta \in IncludeMeta, StartCleanup(p, meta)
      PROVE  CreatedIsRegistered' /\ Claimed' /\ TodoRegistered' /\ TodoCovers'
  BY <1>2 DEF StartCleanup
<1> QED
  BY <1>1, <1>2 DEF Start

LEMMA RegistryCleanup ==
  ASSUME SafeMeta, RegistryInv, NEW p \in Procs, CleanupStep(p)
  PROVE  CreatedIsRegistered' /\ Claimed' /\ TodoRegistered' /\ TodoCovers'
<1>0. /\ pc \in [Procs -> Pc] /\ cur \in [Procs -> Table]
      /\ todo \in [Procs -> SUBSET Name] /\ dropMeta \in [Procs -> BOOLEAN]
      /\ tbl \in [Table -> [owner : Owner, rows : Nat, run : Run \cup {NoRun}]]
      /\ \A t \in Table : t # SandboxDB
  BY ConstantsAssumption DEF RegistryInv, TypeOK
<1> HIDE DEF Name, Run, Owner, Secret, NoCounts, RunPcs, Pc, Table, SandboxDB
<1> USE <1>0 DEF RegistryInv, CreatedIsRegistered, Claimed, TodoRegistered,
                 TodoCovers, Advance, Replay, Reply, Dropped
<1>1. CASE CleanupTable(p)
  <2>1. PICK t \in todo[p] \cap Table :
             tbl' = [tbl EXCEPT ![t] = Absent] /\ Dropped(p, t)
    BY <1>1 DEF CleanupTable
  <2>2. pc' = pc /\ UNCHANGED <<dbOwner, registry, cur, dropMeta>>
    BY <1>1, <2>1 DEF CleanupTable
  <2>3. \A q \in Procs : todo'[q] \subseteq todo[q]
    BY <2>1
  <2>4. \A x \in Table : tbl'[x] \in {tbl[x], Absent}
    BY <2>1
  <2>5. TodoCovers'
    <3>1. \A x \in Name : x # t => \A q \in Procs : x \in todo[q] => x \in todo'[q]
      BY <2>1
    <3>2. SandboxDB \in Name /\ Table \subseteq Name /\ t # SandboxDB
      BY DEF Name
    <3>3. \A x \in Table : tbl'[x].owner = "anond" => x # t /\ tbl[x].owner = "anond"
      BY <2>1
    <3>4. SUFFICES ASSUME Solo, NEW q \in Procs, pc'[q] = "cleanup"
                   PROVE  /\ dbOwner' = "anond" => SandboxDB \in todo'[q]
                          /\ \A x \in Table :
                               tbl'[x].owner = "anond" => x \in todo'[q]
      OBVIOUS
    <3>5. dbOwner' = "anond" => SandboxDB \in todo'[q]
      BY <2>2, <3>1, <3>2, <3>4
    <3>6. \A x \in Table : tbl'[x].owner = "anond" => x \in todo'[q]
      BY <2>2, <3>1, <3>2, <3>3, <3>4
    <3> QED
      BY <3>5, <3>6
  <2>6. CreatedIsRegistered'
    BY <2>2, <2>4
  <2>7. Claimed' /\ TodoRegistered'
    BY <2>2, <2>3
  <2> QED
    BY <2>5, <2>6, <2>7
<1>2. CASE CleanupDb(p)
  <2>1. dbOwner' = "none" /\ \A t \in Table : tbl'[t].owner = "none"
    BY <1>2 DEF CleanupDb
  <2>2. pc' = pc /\ UNCHANGED <<registry, cur, dropMeta>>
    BY <1>2 DEF CleanupDb
  <2>3. \A q \in Procs : todo'[q] \subseteq todo[q]
    BY <1>2 DEF CleanupDb
  <2> QED
    BY <2>1, <2>2, <2>3
<1>3. CASE CleanupMeta(p)
  <2>1. Solo
    BY <1>3 DEF CleanupMeta, SafeMeta
  <2>2. \A q \in Procs : q = p
    BY <2>1 DEF Solo
  <2>3. dbOwner # "anond" /\ \A t \in Table : tbl[t].owner # "anond"
    BY <1>3, <2>1 DEF CleanupMeta
  <2> QED
    BY <1>3, <2>2, <2>3 DEF CleanupMeta
<1>4. CASE CleanupDone(p)
  BY <1>4 DEF CleanupDone
<1> QED
  BY <1>1, <1>2, <1>3, <1>4 DEF CleanupStep

LEMMA RegistryOthers ==
  ASSUME RegistryInv, Others
  PROVE  CreatedIsRegistered' /\ Claimed' /\ TodoRegistered' /\ TodoCovers'
<1>0. tbl \in [Table -> [owner : Owner, rows : Nat, run : Run \cup {NoRun}]]
  BY DEF RegistryInv, TypeOK
<1> HIDE DEF Name, Run, Owner, Secret, NoCounts, RunPcs, Pc, Table
<1>1. /\ dbOwner' = "anond" => dbOwner = "anond"
      /\ \A t \in Table : tbl'[t].owner = "anond" => tbl[t].owner = "anond"
  BY <1>0 DEF Others, OtherCreatesDb, OtherDropsDb, InstallGuide,
              OtherCreatesTable, OtherDropsTable
<1>2. UNCHANGED <<metaVars, pc, localVars>>
  BY DEF Others
<1> QED
  BY <1>1, <1>2 DEF RegistryInv, CreatedIsRegistered, Claimed, TodoRegistered,
                    TodoCovers

LEMMA RegistryNext ==
  ASSUME SafeMeta
  PROVE  RegistryInv /\ [Next]_vars => RegistryInv'
<1> SUFFICES ASSUME RegistryInv, [Next]_vars PROVE RegistryInv'
  OBVIOUS
<1>0. TypeOK'
  BY TypeNext DEF RegistryInv
<1> USE <1>0
<1>1. CASE Others
  BY <1>1, RegistryOthers DEF RegistryInv
<1>2. ASSUME NEW p \in Procs, Start(p) PROVE RegistryInv'
  BY <1>2, RegistryStart DEF RegistryInv
<1>3. ASSUME NEW p \in Procs, Step(p) PROVE RegistryInv'
  <2>1. CASE RunStep(p)
    BY <2>1, RunStepFrame, RunFramePreserves DEF RegistryInv
  <2>2. CASE CleanupStep(p)
    BY <2>2, RegistryCleanup DEF RegistryInv
  <2>3. CASE Refused(p)
    BY <2>3 DEF Refused, Replay, RegistryInv, CreatedIsRegistered, Claimed,
                TodoRegistered, TodoCovers
  <2>4. CASE Exit(p)
    <3>1. /\ \A q \in Procs : pc'[q] \in {pc[q], "idle"}
          /\ \A q \in Procs : q # p =>
               cur'[q] = cur[q] /\ todo'[q] = todo[q] /\ dropMeta'[q] = dropMeta[q]
          /\ pc'[p] = "idle" /\ ~dropMeta'[p]
      BY <2>4 DEF Exit, Advance, RegistryInv, TypeOK
    <3>2. UNCHANGED <<destVars, metaVars>>
      BY <2>4 DEF Exit
    <3> QED
      BY <3>1, <3>2 DEF RegistryInv, CreatedIsRegistered, Claimed,
                        TodoRegistered, TodoCovers
  <2> QED
    BY <1>3, <2>1, <2>2, <2>3, <2>4 DEF Step
<1>4. CASE UNCHANGED vars
  BY <1>4 DEF RegistryInv, CreatedIsRegistered, Claimed, TodoRegistered,
              TodoCovers
<1> QED
  BY <1>1, <1>2, <1>3, <1>4 DEF Next

LEMMA RegistryInit == Init => RegistryInv
<1> SUFFICES ASSUME Init PROVE RegistryInv
  OBVIOUS
<1>1. \A p \in Procs : pc[p] = "idle" /\ ~dropMeta[p]
  BY DEF Init
<1>2. dbOwner # "anond" /\ \A t \in Table : tbl[t].owner # "anond"
  BY ConstantsAssumption DEF Init
<1> QED
  BY <1>1, <1>2, TypeInit DEF RegistryInv, CreatedIsRegistered, Claimed,
                              TodoRegistered, TodoCovers

LEMMA RegistryAlways ==
  ASSUME SafeMeta
  PROVE  Spec => []RegistryInv
  BY RegistryInit, RegistryNext, PTL DEF Spec

\* Whatever the tool has created is in its registry, through every crash,
\* repeated statement and half-finished cleanup, as long as the command that
\* drops the registry itself (cleanup --include-meta) runs alone.
THEOREM RegistryComplete ==
  ASSUME SafeMeta
  PROVE  Spec => []CreatedIsRegistered
<1>1. RegistryInv => CreatedIsRegistered
  BY DEF RegistryInv
<1> QED
  BY <1>1, RegistryAlways, PTL

-----------------------------------------------------------------------------
(* Objects of other people.                                                *)

\* A step of `anond run` leaves an object alone that is not anond's and whose
\* name anond has not claimed, and does not claim it either.
LEMMA ForeignRun ==
  ASSUME TypeOK, Claimed, NEW p \in Procs, RunStep(p)
  PROVE  /\ dbOwner = "other" /\ SandboxDB \notin registry
              /\ pc[p] # "dbRegister"
            => dbOwner' = "other" /\ SandboxDB \notin registry'
                 /\ pc'[p] # "dbRegister"
         /\ \A x \in Table :
              tbl[x].owner = "other" /\ x \notin registry
                /\ ~(x = cur[p] /\ pc[p] = "register")
              => tbl'[x].owner = "other" /\ tbl'[x].rows = tbl[x].rows
                   /\ x \notin registry' /\ ~(x = cur'[p] /\ pc'[p] = "register")
<1>0. /\ pc \in [Procs -> Pc] /\ cur \in [Procs -> Table]
      /\ tbl \in [Table -> [owner : Owner, rows : Nat, run : Run \cup {NoRun}]]
  BY DEF TypeOK
<1>00. /\ pc[p] \in {"drop", "create", "populate", "count", "repopulate",
                     "recount"} => cur[p] \in registry
       /\ \A x \in Table : x # SandboxDB
  BY ConstantsAssumption DEF Claimed
<1> HIDE DEF Name, Run, Owner, Secret, NoCounts, RunPcs, Pc, Table, SandboxDB
<1> USE <1>0, <1>00 DEF Advance, Replay, Reply
<1>1. CASE InitMeta(p)
  BY <1>1 DEF InitMeta
<1>2. CASE WritePlan(p)
  BY <1>2 DEF WritePlan, WriteTrusted
<1>3. CASE CheckDb(p)
  BY <1>3 DEF CheckDb
<1>4. CASE DbIsOurs(p)
  BY <1>4 DEF DbIsOurs
<1>5. CASE RegisterDb(p)
  BY <1>5 DEF RegisterDb, Register
<1>6. CASE CreateDb(p)
  BY <1>6 DEF CreateDb
<1>7. CASE CheckTable(p)
  BY <1>7 DEF CheckTable
<1>8. CASE TableIsOurs(p)
  BY <1>8 DEF TableIsOurs
<1>9. CASE RegisterTable(p)
  BY <1>9 DEF RegisterTable, Register
<1>10. CASE DropTable(p)
  BY <1>10 DEF DropTable
<1>11. CASE CreateTable(p)
  BY <1>11 DEF CreateTable
<1>12. CASE Populate(p)
  BY <1>12 DEF Populate, InsertRows, AfterPopulate
<1>13. CASE PopulateFails(p)
  BY <1>13 DEF PopulateFails, InsertRows, NextTable
<1>14. CASE CountEmpty(p)
  BY <1>14 DEF CountEmpty
<1>15. CASE CountRows(p)
  BY <1>15 DEF CountRows, NextTable
<1>16. CASE WriteMap(p)
  BY <1>16 DEF WriteMap, WriteTrusted
<1>17. CASE WriteProfile(p)
  BY <1>17 DEF WriteProfile
<1>18. CASE WriteGuide(p)
  BY <1>18 DEF WriteGuide
<1>19. CASE Verify(p)
  BY <1>19 DEF Verify
<1>20. CASE WriteManifest(p)
  BY <1>20 DEF WriteManifest
<1> QED
  BY <1>1, <1>2, <1>3, <1>4, <1>5, <1>6, <1>7, <1>8, <1>9, <1>10, <1>11, <1>12, <1>13, <1>14, <1>15, <1>16, <1>17, <1>18, <1>19, <1>20 DEF RunStep

LEMMA ForeignNext ==
  ASSUME SafeMeta, RegistryInv, Next
  PROVE  SparesForeign
<1>0. \A t \in Table : t # SandboxDB
  BY ConstantsAssumption
<1> SUFFICES ASSUME NEW x \in Name, Foreign(x), Unclaimed(x), ~Others,
                    x \in Table => \A p \in Procs : ~CleanupDb(p)
             PROVE  Foreign(x)' /\ Unclaimed(x)' /\ RowsOf(x)' = RowsOf(x)
  BY DEF SparesForeign
<1>1. PICK p \in Procs : Start(p) \/ Step(p)
  BY DEF Next
<1>t. /\ pc \in [Procs -> Pc] /\ cur \in [Procs -> Table]
      /\ todo \in [Procs -> SUBSET Name]
      /\ tbl \in [Table -> [owner : Owner, rows : Nat, run : Run \cup {NoRun}]]
  BY DEF RegistryInv, TypeOK
<1>u. cur' \in [Procs -> Table]
  BY TypeNext DEF RegistryInv, TypeOK
<1> HIDE DEF Run, Owner, Secret, NoCounts, RunPcs, Pc, Table, SandboxDB
<1>2. CASE RunStep(p)
  <2>1. \A q \in Procs \ {p} : pc'[q] = pc[q] /\ cur'[q] = cur[q]
    BY <1>2, RunStepFrame DEF RegistryInv, RunFrame
  <2>2. CASE x = SandboxDB
    <3>1. /\ dbOwner = "other" /\ SandboxDB \notin registry
          /\ \A q \in Procs : pc[q] # "dbRegister"
      BY <2>2 DEF Foreign, Unclaimed, Committed, OwnerOf
    <3>2. /\ dbOwner' = "other" /\ SandboxDB \notin registry'
          /\ \A q \in Procs : pc'[q] # "dbRegister"
      BY <1>2, <2>1, <3>1, ForeignRun DEF RegistryInv
    <3>3. \A q \in Procs : cur'[q] # SandboxDB
      BY <1>0, <1>u
    <3> QED
      BY <2>2, <3>2, <3>3 DEF Foreign, Unclaimed, Committed, OwnerOf, RowsOf
  <2>3. CASE x \in Table
    BY <1>0, <1>2, <2>1, <2>3, ForeignRun
       DEF RegistryInv, Foreign, Unclaimed, Committed, OwnerOf, RowsOf
  <2> QED
    BY <2>2, <2>3
<1>3. ASSUME UNCHANGED destVars, registry' \subseteq registry,
             \A q \in Procs : \/ pc'[q] = pc[q] /\ cur'[q] = cur[q]
                             \/ pc'[q] \in {"init", "cleanup", "idle"}
      PROVE  Foreign(x)' /\ Unclaimed(x)' /\ RowsOf(x)' = RowsOf(x)
  BY <1>3 DEF Foreign, Unclaimed, Committed, OwnerOf, RowsOf
<1>4. CASE Start(p)
  BY <1>3, <1>4, <1>t DEF Start, StartRun, StartCleanup, Advance
<1>5. CASE Refused(p) \/ Exit(p)
  BY <1>3, <1>5, <1>t DEF Refused, Exit, Replay, Advance
<1>6. CASE CleanupStep(p)
  <2>1. CASE CleanupTable(p)
    <3>1. PICK t \in todo[p] \cap Table :
               tbl' = [tbl EXCEPT ![t] = Absent] /\ Dropped(p, t)
      BY <2>1 DEF CleanupTable
    <3>2. t \in registry /\ t # x
      BY <2>1, <3>1 DEF CleanupTable, RegistryInv, TodoRegistered, Unclaimed
    <3>3. UNCHANGED <<dbOwner, registry, pc, cur>>
      BY <1>t, <2>1, <3>1 DEF CleanupTable, Dropped, Advance, Replay
    <3>4. x \in Table => tbl'[x] = tbl[x]
      BY <1>t, <3>1, <3>2
    <3> QED
      BY <1>0, <3>3, <3>4 DEF Foreign, Unclaimed, Committed, OwnerOf, RowsOf
  <2>2. CASE CleanupDb(p)
    <3>1. SandboxDB \in registry
      BY <2>2 DEF CleanupDb, RegistryInv, TodoRegistered
    <3>2. x = SandboxDB
      BY <2>2
    <3> QED
      BY <3>1, <3>2 DEF Unclaimed
  <2>3. CASE CleanupMeta(p)
    BY <1>3, <1>t, <2>3 DEF CleanupMeta, Reply, Advance, Replay
  <2>4. CASE CleanupDone(p)
    BY <1>3, <1>t, <2>4 DEF CleanupDone, Advance
  <2> QED
    BY <1>6, <2>1, <2>2, <2>3, <2>4 DEF CleanupStep
<1> QED
  BY <1>1, <1>2, <1>4, <1>5, <1>6 DEF Step

\* No interleaving of runs, cleanups, crashes, repeated statements and the
\* work of other users makes anond touch an object whose name it has not
\* claimed (sandbox.go:12), as long as cleanup --include-meta runs alone.
THEOREM ForeignSafe ==
  ASSUME SafeMeta
  PROVE  Spec => ForeignUntouched
<1>1. RegistryInv /\ [Next]_vars => [SparesForeign]_vars
  BY ForeignNext
<1> QED
  BY <1>1, RegistryAlways, PTL DEF Spec, ForeignUntouched

-----------------------------------------------------------------------------
(* What a run has published can be translated back.                        *)

\* How far a run has come says which trusted tables it has written.
Secured ==
  \A p \in Procs :
    /\ pc[p] \in RunPcs \ {"init", "plan"} => "masking_plan" \in trusted[run[p]]
    /\ pc[p] \in {"profile", "guide", "verify", "manifest"}
         => "identifier_map" \in trusted[run[p]]

SecretInv == TypeOK /\ Secured /\ PublishedIsReversible

\* What a step of process p does to the state SecretInv is about: nothing is
\* published before its secrets are stored, and no secret is ever lost.
SecretFrame(p) ==
  /\ \A q \in Procs \ {p} : pc'[q] = pc[q] /\ run'[q] = run[q]
  /\ \A r \in Run : trusted[r] \subseteq trusted'[r]
  /\ \A r \in complete' : r \in complete \/ trusted[r] = Secret
  /\ guide' \in {NoRun, guide} \/ trusted[guide'] = Secret
  /\ pc'[p] \in RunPcs \ {"init", "plan"}
       => "masking_plan" \in trusted'[run'[p]]
  /\ pc'[p] \in {"profile", "guide", "verify", "manifest"}
       => "identifier_map" \in trusted'[run'[p]]

LEMMA SecretFramePreserves ==
  ASSUME SecretInv, TypeOK', NEW p \in Procs, SecretFrame(p)
  PROVE  SecretInv'
<1>t. /\ run \in [Procs -> Run \cup {NoRun}]
      /\ \A q \in Procs : pc[q] \in RunPcs => run[q] \in Run
      /\ complete \subseteq Run /\ guide \in Run \cup {NoRun}
      /\ complete' \subseteq Run /\ guide' \in Run \cup {NoRun}
      /\ trusted' \in [Run -> SUBSET Secret]
  BY DEF SecretInv, TypeOK
<1>1. Secured'
  <2> SUFFICES ASSUME NEW q \in Procs
               PROVE  /\ pc'[q] \in RunPcs \ {"init", "plan"}
                           => "masking_plan" \in trusted'[run'[q]]
                      /\ pc'[q] \in {"profile", "guide", "verify", "manifest"}
                           => "identifier_map" \in trusted'[run'[q]]
    BY DEF Secured
  <2>1. CASE q = p
    BY <2>1 DEF SecretFrame
  <2>2. CASE q # p
    <3>1. pc'[q] = pc[q] /\ run'[q] = run[q]
      BY <2>2 DEF SecretFrame
    <3>2. "manifest" \in RunPcs /\ {"profile", "guide", "verify"} \subseteq RunPcs
      OBVIOUS
    <3>3. pc[q] \in RunPcs => trusted[run[q]] \subseteq trusted'[run[q]]
      BY <1>t DEF SecretFrame
    <3> HIDE DEF Run, RunPcs
    <3> QED
      BY <3>1, <3>2, <3>3 DEF SecretInv, Secured
  <2> QED
    BY <2>1, <2>2
<1>2. PublishedIsReversible'
  <2> SUFFICES ASSUME NEW r \in complete' \cup ({guide'} \ {NoRun})
               PROVE  trusted'[r] = Secret
    BY DEF PublishedIsReversible
  <2>0. r \in Run /\ (r \in complete' \/ (r = guide' /\ guide' # NoRun))
    <3>1. r \in complete' \/ (r = guide' /\ guide' # NoRun)
      OBVIOUS
    <3> QED
      BY <1>t, <3>1
  <2>1. trusted[r] = Secret
    <3>1. \A x \in complete \cup ({guide} \ {NoRun}) : trusted[x] = Secret
      BY DEF SecretInv, PublishedIsReversible
    <3> HIDE DEF Run, Secret, NoRun
    <3> QED
      BY <2>0, <3>1 DEF SecretFrame
  <2>2. trusted[r] \subseteq trusted'[r] /\ trusted'[r] \subseteq Secret
    BY <1>t, <2>0 DEF SecretFrame
  <2> QED
    BY <2>1, <2>2
<1> QED
  BY <1>1, <1>2 DEF SecretInv

LEMMA SecretRun ==
  ASSUME SecretInv, NEW p \in Procs, RunStep(p)
  PROVE  SecretFrame(p)
<1>0. /\ pc \in [Procs -> Pc] /\ trusted \in [Run -> SUBSET Secret]
      /\ pc[p] \in RunPcs => run[p] \in Run
  BY DEF SecretInv, TypeOK
<1>00. /\ pc[p] \in RunPcs \ {"init", "plan"}
            => "masking_plan" \in trusted[run[p]]
       /\ pc[p] \in {"profile", "guide", "verify", "manifest"}
            => "identifier_map" \in trusted[run[p]]
  BY DEF SecretInv, Secured
<1> HIDE DEF Name, Run, Owner, NoCounts, Pc, Table
<1> USE <1>0, <1>00 DEF SecretFrame, Advance, Replay, Reply
<1>1. CASE InitMeta(p)
  BY <1>1 DEF InitMeta
<1>2. CASE WritePlan(p)
  BY <1>2 DEF WritePlan, WriteTrusted
<1>3. CASE CheckDb(p)
  BY <1>3 DEF CheckDb
<1>4. CASE DbIsOurs(p)
  BY <1>4 DEF DbIsOurs
<1>5. CASE RegisterDb(p)
  BY <1>5 DEF RegisterDb, Register
<1>6. CASE CreateDb(p)
  BY <1>6 DEF CreateDb
<1>7. CASE CheckTable(p)
  BY <1>7 DEF CheckTable
<1>8. CASE TableIsOurs(p)
  BY <1>8 DEF TableIsOurs
<1>9. CASE RegisterTable(p)
  BY <1>9 DEF RegisterTable, Register
<1>10. CASE DropTable(p)
  BY <1>10 DEF DropTable
<1>11. CASE CreateTable(p)
  BY <1>11 DEF CreateTable
<1>12. CASE Populate(p)
  BY <1>12 DEF Populate, AfterPopulate
<1>13. CASE PopulateFails(p)
  BY <1>13 DEF PopulateFails, NextTable
<1>14. CASE CountEmpty(p)
  BY <1>14 DEF CountEmpty
<1>15. CASE CountRows(p)
  BY <1>15 DEF CountRows, NextTable
<1>16. CASE WriteMap(p)
  BY <1>16 DEF WriteMap, WriteTrusted
<1>17. CASE WriteProfile(p)
  BY <1>17 DEF WriteProfile
<1>18. CASE WriteGuide(p)
  BY <1>18 DEF WriteGuide
<1>19. CASE Verify(p)
  BY <1>19 DEF Verify
<1>20. CASE WriteManifest(p)
  BY <1>20 DEF WriteManifest
<1> QED
  BY <1>1, <1>2, <1>3, <1>4, <1>5, <1>6, <1>7, <1>8, <1>9, <1>10, <1>11, <1>12, <1>13, <1>14, <1>15, <1>16, <1>17, <1>18, <1>19, <1>20 DEF RunStep

LEMMA SecretRest ==
  ASSUME SecretInv, NEW p \in Procs,
         Start(p) \/ CleanupStep(p) \/ Refused(p) \/ Exit(p)
  PROVE  SecretFrame(p)
<1>0. /\ pc \in [Procs -> Pc] /\ run \in [Procs -> Run \cup {NoRun}]
  BY DEF SecretInv, TypeOK
<1>00. /\ pc[p] \in RunPcs \ {"init", "plan"}
            => "masking_plan" \in trusted[run[p]]
       /\ pc[p] \in {"profile", "guide", "verify", "manifest"}
            => "identifier_map" \in trusted[run[p]]
  BY DEF SecretInv, Secured
<1> HIDE DEF Name, Run, Owner, NoCounts, Pc, Table
<1> USE <1>0, <1>00 DEF SecretFrame, Advance, Replay, Reply
<1>1. CASE Start(p)
  BY <1>1 DEF Start, StartRun, StartCleanup
<1>2. CASE CleanupTable(p)
  BY <1>2 DEF CleanupTable, Dropped
<1>3. CASE CleanupDb(p)
  BY <1>3 DEF CleanupDb, Dropped
<1>4. CASE CleanupMeta(p)
  BY <1>4 DEF CleanupMeta
<1>5. CASE CleanupDone(p)
  BY <1>5 DEF CleanupDone
<1>6. CASE Refused(p)
  BY <1>6 DEF Refused
<1>7. CASE Exit(p)
  BY <1>7 DEF Exit
<1> QED
  BY <1>1, <1>2, <1>3, <1>4, <1>5, <1>6, <1>7 DEF CleanupStep

LEMMA SecretAlways == Spec => []SecretInv
<1>1. Init => SecretInv
  <2> SUFFICES ASSUME Init PROVE SecretInv
    OBVIOUS
  <2>1. \A p \in Procs : pc[p] = "idle"
    BY DEF Init
  <2>2. complete = {} /\ guide = NoRun
    BY DEF Init
  <2> QED
    BY <2>1, <2>2, TypeInit DEF SecretInv, Secured, PublishedIsReversible
<1>2. SecretInv /\ [Next]_vars => SecretInv'
  <2> SUFFICES ASSUME SecretInv, [Next]_vars PROVE SecretInv'
    OBVIOUS
  <2>1. TypeOK'
    BY TypeNext DEF SecretInv
  <2>2. CASE UNCHANGED <<pc, run, trusted, complete>> /\ guide' = guide
    BY <2>1, <2>2 DEF SecretInv, Secured, PublishedIsReversible
  <2>3. CASE Others
    <3>1. guide' = guide
      BY <2>3 DEF Others, OtherCreatesDb, OtherDropsDb, InstallGuide,
                  OtherCreatesTable, OtherDropsTable
    <3> QED
      BY <2>2, <2>3, <3>1 DEF Others
  <2>4. CASE UNCHANGED vars
    BY <2>2, <2>4
  <2>5. ASSUME NEW p \in Procs, Start(p) \/ Step(p) PROVE SecretInv'
    BY <2>1, <2>5, SecretRun, SecretRest, SecretFramePreserves DEF Step
  <2> QED
    BY <2>3, <2>4, <2>5 DEF Next
<1> QED
  BY <1>1, <1>2, PTL DEF Spec

\* A reader of the destination never meets a token that the trusted side
\* cannot translate: the secrets of a run are stored before its guide rows
\* and its manifest row (run.go:370-392), whatever fails or runs alongside.
THEOREM Reversible == Spec => []PublishedIsReversible
  BY SecretAlways, PTL DEF SecretInv

-----------------------------------------------------------------------------
(* Sandbox implements RunStore.  A published run must not change, so no    *)
(* process may write rows under the id of a complete run: ids are apart,   *)
(* and the manifest is the last statement of a run.                        *)

RunsApart ==
  /\ complete \subseteq 1..lastRun
  /\ \A p \in Procs : pc[p] \in RunPcs =>
       /\ run[p] \in 1..lastRun
       /\ pc[p] # "manifest" => run[p] \notin complete
  /\ \A p, q \in Procs :
       p # q /\ pc[p] \in RunPcs /\ pc[q] \in RunPcs => run[p] # run[q]

StoreInv == SecretInv /\ RunsApart

\* The statements a reader of runs can notice.
Visible(p) ==
  \/ WritePlan(p) \/ WriteMap(p) \/ WriteProfile(p) \/ WriteGuide(p)
  \/ WriteManifest(p) \/ CleanupMeta(p)

\* What a step of process p does to the state RunsApart is about.
ApartFrame(p) ==
  /\ \A q \in Procs \ {p} : pc'[q] = pc[q] /\ run'[q] = run[q]
  /\ lastRun' \in {lastRun, lastRun + 1}
  /\ pc'[p] \in RunPcs =>
       \/ /\ pc[p] \in RunPcs /\ run'[p] = run[p]
          /\ pc[p] = "manifest" => pc'[p] = "manifest"
       \/ run'[p] = lastRun + 1 /\ lastRun' = lastRun + 1 /\ pc'[p] # "manifest"
  /\ \/ complete' \subseteq complete
     \/ pc[p] = "manifest" /\ complete' = complete \cup {run[p]}
  /\ pc[p] = "manifest" => pc'[p] \in {"manifest", "idle"}

LEMMA ApartFramePreserves ==
  ASSUME TypeOK, TypeOK', RunsApart, NEW p \in Procs, ApartFrame(p)
  PROVE  RunsApart'
<1>0. lastRun \in Nat /\ lastRun' \in Nat /\ "manifest" \in RunPcs
  BY ConstantsAssumption DEF TypeOK
<1> HIDE DEF RunPcs
<1>1. 1..lastRun \subseteq 1..lastRun' /\ lastRun + 1 \notin 1..lastRun
  BY <1>0 DEF ApartFrame
<1>2. complete' \subseteq 1..lastRun
  BY <1>0 DEF ApartFrame, RunsApart
<1>3. complete' \subseteq 1..lastRun'
  BY <1>1, <1>2
<1>4. ASSUME NEW q \in Procs, pc'[q] \in RunPcs
      PROVE  /\ run'[q] \in 1..lastRun'
             /\ pc'[q] # "manifest" => run'[q] \notin complete'
  <2>1. CASE q = p
    <3>1. CASE pc[p] \in RunPcs /\ run'[p] = run[p] /\ (pc[p] = "manifest" => pc'[p] = "manifest")
      <4>1. run'[p] \in 1..lastRun'
        BY <1>1, <3>1 DEF RunsApart
      <4>2. ASSUME pc'[p] # "manifest" PROVE run[p] \notin complete'
        BY <3>1, <4>2 DEF RunsApart, ApartFrame
      <4> QED
        BY <2>1, <3>1, <4>1, <4>2
    <3>2. CASE run'[p] = lastRun + 1 /\ lastRun' = lastRun + 1
      BY <1>0, <1>1, <1>2, <2>1, <3>2
    <3> QED
      BY <1>4, <2>1, <3>1, <3>2 DEF ApartFrame
  <2>2. CASE q # p
    <3>1. pc'[q] = pc[q] /\ run'[q] = run[q]
      BY <2>2 DEF ApartFrame
    <3>2. run'[q] \in 1..lastRun'
      BY <1>1, <1>4, <3>1 DEF RunsApart
    <3>3. ASSUME pc'[q] # "manifest" PROVE run[q] \notin complete'
      <4>1. run[q] \notin complete
        BY <1>4, <3>1, <3>3 DEF RunsApart
      <4>2. pc[p] = "manifest" => run[p] # run[q]
        BY <1>0, <1>4, <2>2, <3>1 DEF RunsApart
      <4> QED
        BY <4>1, <4>2 DEF ApartFrame
    <3> QED
      BY <3>1, <3>2, <3>3
  <2> QED
    BY <2>1, <2>2
<1>5. ASSUME NEW q \in Procs \ {p}, pc'[p] \in RunPcs, pc'[q] \in RunPcs
      PROVE  run'[p] # run'[q]
  <2>1. pc[q] \in RunPcs /\ run'[q] = run[q] /\ run[q] \in 1..lastRun
    BY <1>5 DEF ApartFrame, RunsApart
  <2>2. CASE pc[p] \in RunPcs /\ run'[p] = run[p]
    BY <2>1, <2>2 DEF RunsApart
  <2>3. CASE run'[p] = lastRun + 1
    BY <1>1, <2>1, <2>3
  <2> QED
    BY <1>5, <2>2, <2>3 DEF ApartFrame
<1>6. ASSUME NEW q \in Procs \ {p}, NEW r \in Procs \ {p}, q # r,
             pc'[q] \in RunPcs, pc'[r] \in RunPcs
      PROVE  run'[q] # run'[r]
  BY <1>6 DEF ApartFrame, RunsApart
<1>7. ASSUME NEW q \in Procs, NEW r \in Procs, q # r,
             pc'[q] \in RunPcs, pc'[r] \in RunPcs
      PROVE  run'[q] # run'[r]
  BY <1>5, <1>6, <1>7
<1> QED
  BY <1>3, <1>4, <1>7 DEF RunsApart

LEMMA ApartRun ==
  ASSUME TypeOK, NEW p \in Procs, RunStep(p)
  PROVE  /\ ApartFrame(p)
         /\ Visible(p) \/ UNCHANGED <<trusted, complete, profile, guide>>
<1>0. pc \in [Procs -> Pc]
  BY DEF TypeOK
<1> HIDE DEF Name, Run, Owner, NoCounts, Pc, Table, Secret
<1> USE <1>0 DEF ApartFrame, Visible, Advance, Replay, Reply
<1>1. CASE InitMeta(p)
  BY <1>1 DEF InitMeta
<1>2. CASE WritePlan(p)
  BY <1>2 DEF WritePlan, WriteTrusted
<1>3. CASE CheckDb(p)
  BY <1>3 DEF CheckDb
<1>4. CASE DbIsOurs(p)
  BY <1>4 DEF DbIsOurs
<1>5. CASE RegisterDb(p)
  BY <1>5 DEF RegisterDb, Register
<1>6. CASE CreateDb(p)
  BY <1>6 DEF CreateDb
<1>7. CASE CheckTable(p)
  BY <1>7 DEF CheckTable
<1>8. CASE TableIsOurs(p)
  BY <1>8 DEF TableIsOurs
<1>9. CASE RegisterTable(p)
  BY <1>9 DEF RegisterTable, Register
<1>10. CASE DropTable(p)
  BY <1>10 DEF DropTable
<1>11. CASE CreateTable(p)
  BY <1>11 DEF CreateTable
<1>12. CASE Populate(p)
  BY <1>12 DEF Populate, AfterPopulate
<1>13. CASE PopulateFails(p)
  BY <1>13 DEF PopulateFails, NextTable
<1>14. CASE CountEmpty(p)
  BY <1>14 DEF CountEmpty
<1>15. CASE CountRows(p)
  BY <1>15 DEF CountRows, NextTable
<1>16. CASE WriteMap(p)
  BY <1>16 DEF WriteMap, WriteTrusted
<1>17. CASE WriteProfile(p)
  BY <1>17 DEF WriteProfile
<1>18. CASE WriteGuide(p)
  BY <1>18 DEF WriteGuide
<1>19. CASE Verify(p)
  BY <1>19 DEF Verify
<1>20. CASE WriteManifest(p)
  BY <1>20 DEF WriteManifest
<1> QED
  BY <1>1, <1>2, <1>3, <1>4, <1>5, <1>6, <1>7, <1>8, <1>9, <1>10, <1>11, <1>12, <1>13, <1>14, <1>15, <1>16, <1>17, <1>18, <1>19, <1>20 DEF RunStep

LEMMA ApartRest ==
  ASSUME TypeOK, NEW p \in Procs,
         Start(p) \/ CleanupStep(p) \/ Refused(p) \/ Exit(p)
  PROVE  /\ ApartFrame(p)
         /\ Visible(p) \/ UNCHANGED <<trusted, complete, profile, guide>>
<1>0. pc \in [Procs -> Pc] /\ run \in [Procs -> Run \cup {NoRun}]
  BY DEF TypeOK
<1> HIDE DEF Name, Run, Owner, NoCounts, Pc, Table, Secret
<1> USE <1>0 DEF ApartFrame, Visible, Advance, Replay, Reply
<1>1. CASE Start(p)
  BY <1>1 DEF Start, StartRun, StartCleanup
<1>2. CASE CleanupTable(p)
  BY <1>2 DEF CleanupTable, Dropped
<1>3. CASE CleanupDb(p)
  BY <1>3 DEF CleanupDb, Dropped
<1>4. CASE CleanupMeta(p)
  BY <1>4 DEF CleanupMeta
<1>5. CASE CleanupDone(p)
  BY <1>5 DEF CleanupDone
<1>6. CASE Refused(p)
  BY <1>6 DEF Refused
<1>7. CASE Exit(p)
  BY <1>7 DEF Exit
<1> QED
  BY <1>1, <1>2, <1>3, <1>4, <1>5, <1>6, <1>7 DEF CleanupStep

\* Every statement a reader can notice is one operation of the abstract store,
\* or writes rows nobody can see yet, or repeats what is there already.
LEMMA VisibleStep ==
  ASSUME StoreInv, NEW p \in Procs, Visible(p)
  PROVE  [Store!Next]_(Store!vars)
<1> DEFINE Published == [r \in complete |-> profile[r]]
<1>0. /\ pc[p] \in RunPcs => run[p] \in Run
      /\ profile \in [Run -> [Table -> Nat \cup {NoRows}]] /\ complete \subseteq Run
      /\ "masking_plan" \in Secret /\ "identifier_map" \in Secret
  BY DEF StoreInv, SecretInv, TypeOK
<1>1. ASSUME NEW table \in Secret, pc[p] \in RunPcs, WriteTrusted(p, table)
      PROVE  Store!Next
  <2>1. Store!Store(run[p], table)
    BY <1>1 DEF WriteTrusted, Store!Store
  <2> QED
    BY <1>0, <1>1, <2>1 DEF Store!Next
<1>2. CASE WritePlan(p)
  BY <1>0, <1>1, <1>2 DEF WritePlan
<1>3. CASE WriteMap(p)
  BY <1>0, <1>1, <1>3 DEF WriteMap
<1>s. pc[p] \in {"guide", "manifest"} => run[p] \in Run /\ trusted[run[p]] = Secret
  <2> SUFFICES ASSUME pc[p] \in {"guide", "manifest"}
               PROVE  run[p] \in Run /\ trusted[run[p]] = Secret
    OBVIOUS
  <2>1. run[p] \in Run /\ trusted[run[p]] \subseteq Secret
    BY <1>0 DEF StoreInv, SecretInv, TypeOK
  <2>2. "masking_plan" \in trusted[run[p]] /\ "identifier_map" \in trusted[run[p]]
    BY DEF StoreInv, SecretInv, Secured
  <2> QED
    BY <2>1, <2>2
<1>4. CASE WriteProfile(p)
  <2>1. run[p] \notin complete /\ run[p] \in Run
    BY <1>0, <1>4 DEF WriteProfile, StoreInv, RunsApart
  <2>2. UNCHANGED <<trusted, complete, guide>>
    BY <1>4 DEF WriteProfile
  <2>3. \A r \in complete : profile'[r] = profile[r]
    BY <1>0, <1>4, <2>1 DEF WriteProfile
  <2>4. Published' = Published
    BY <2>2, <2>3
  <2> QED
    BY <2>2, <2>4 DEF Store!vars
<1>5. CASE WriteGuide(p)
  <2>1. Store!Show(run[p])
    BY <1>5, <1>s DEF WriteGuide, Store!Show
  <2> QED
    BY <1>5, <1>s, <2>1 DEF WriteGuide, Store!Next
<1>6. CASE WriteManifest(p)
  <2>1. /\ complete' = complete \cup {run[p]} /\ UNCHANGED <<trusted, profile, guide>>
        /\ pc[p] = "manifest"
    BY <1>6 DEF WriteManifest
  <2>2. CASE run[p] \in complete
    <3>1. complete' = complete
      BY <2>1, <2>2
    <3> QED
      BY <2>1, <3>1 DEF Store!vars
  <2>3. CASE run[p] \notin complete
    <3>1. DOMAIN Published = complete /\ DOMAIN Published' = complete \cup {run[p]}
      BY <2>1
    <3>2. \A q \in complete : Published'[q] = Published[q]
      BY <2>1
    <3>3. PICK r \in Run : r = run[p]
      BY <1>s, <2>1
    <3>4. Store!Publish(r)
      BY <1>s, <2>1, <2>3, <3>1, <3>2, <3>3 DEF Store!Publish
    <3> QED
      BY <3>4 DEF Store!Next
  <2> QED
    BY <2>2, <2>3
<1>7. CASE CleanupMeta(p)
  <2>1. complete' = {} /\ guide' = NoRun /\ UNCHANGED trusted
    BY <1>7 DEF CleanupMeta
  <2>2. DOMAIN Published' = {}
    BY <2>1
  <2> QED
    BY <2>1, <2>2 DEF Store!Next, Store!Forget
<1> QED
  BY <1>2, <1>3, <1>4, <1>5, <1>6, <1>7 DEF Visible

LEMMA StoreInit == Init => StoreInv /\ Store!Init
<1> SUFFICES ASSUME Init PROVE StoreInv /\ Store!Init
  OBVIOUS
<1>1. /\ \A p \in Procs : pc[p] = "idle"
      /\ complete = {} /\ guide = NoRun /\ trusted = [r \in Run |-> {}]
  BY DEF Init
<1>2. SecretInv
  BY <1>1, TypeInit DEF SecretInv, Secured, PublishedIsReversible
<1>3. RunsApart
  BY <1>1 DEF RunsApart
<1>4. DOMAIN [r \in complete |-> profile[r]] = {}
  BY <1>1
<1> QED
  BY <1>1, <1>2, <1>3, <1>4 DEF StoreInv, Store!Init

LEMMA StoreNext ==
  ASSUME StoreInv, SecretInv', [Next]_vars
  PROVE  StoreInv' /\ [Store!Next]_(Store!vars)
<1>0. TypeOK /\ TypeOK'
  BY DEF StoreInv, SecretInv
<1>1. ASSUME NEW p \in Procs, Start(p) \/ Step(p)
      PROVE  StoreInv' /\ [Store!Next]_(Store!vars)
  <2>1. ApartFrame(p) /\ (Visible(p) \/ UNCHANGED <<trusted, complete, profile, guide>>)
    BY <1>0, <1>1, ApartRun, ApartRest DEF Step
  <2>2. RunsApart'
    BY <1>0, <2>1, ApartFramePreserves DEF StoreInv
  <2>3. [Store!Next]_(Store!vars)
    BY <2>1, VisibleStep DEF Store!vars
  <2> QED
    BY <2>2, <2>3 DEF StoreInv
<1>2. CASE Others \/ UNCHANGED vars
  <2>1. UNCHANGED <<pc, run, trusted, complete, profile, guide>>
    BY <1>2 DEF Others, OtherCreatesDb, OtherDropsDb, InstallGuide,
                OtherCreatesTable, OtherDropsTable
  <2>2. lastRun' = lastRun
    BY <1>2 DEF Others, OtherCreatesDb, OtherDropsDb, InstallGuide,
                OtherCreatesTable, OtherDropsTable
  <2> QED
    BY <2>1, <2>2 DEF StoreInv, RunsApart, Store!vars
<1> QED
  BY <1>1, <1>2 DEF Next

\* The tables of the meta database behave, to their readers, as the abstract
\* store of runs, whatever statements fail, are repeated or are cut short and
\* however many commands work at once: a run appears as a whole with its
\* secrets stored before it, and no later statement of any run changes it.
THEOREM AtomicStore == Spec => PublishesAtomically
<1>1. Spec => []SecretInv
  BY SecretAlways
<1>2. StoreInv /\ SecretInv' /\ [Next]_vars => StoreInv' /\ [Store!Next]_(Store!vars)
  BY StoreNext
<1> QED
  BY <1>1, <1>2, StoreInit, PTL DEF Spec, PublishesAtomically, Store!Spec
=============================================================================
