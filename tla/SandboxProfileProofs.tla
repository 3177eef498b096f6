----------------------- MODULE SandboxProfileProofs -----------------------
(***************************************************************************)
(* Theorems about Sandbox for anond commands that do not overlap: the      *)
(* profile of a complete run describes the tables it built, and no table   *)
(* exceeds the sample size.  With two commands at once the run             *)
(* MCSandbox_concurrent refutes the first.                                 *)
(***************************************************************************)
EXTENDS SandboxProofs

Filling   == {"populate", "count", "repopulate", "recount"}
Uncounted == {"init", "plan", "dbCheck", "dbOurs", "dbRegister", "dbCreate",
              "check", "ours", "register", "drop", "create"} \cup Filling
Published == {"guide", "verify", "manifest"}

\* What holds while process p is inside Execute.
RunInv(p) ==
  /\ run[p] = lastRun
  /\ pc[p] # "manifest" => run[p] \notin complete
  /\ pc[p] \in Filling /\ tbl[cur[p]].owner = "anond"
       => tbl[cur[p]].run = run[p]
  /\ pc[p] \in Uncounted => \A t \in Table : t >= cur[p] => counted[p][t] = NoRows
  /\ \A t \in Table : tbl[t].owner = "anond" /\ tbl[t].run = run[p]
       => counted[p][t] \in {tbl[t].rows, NoRows}
  /\ pc[p] \in Published => profile[run[p]] = counted[p]

\* Runs are numbered in order, and only the last one may be unfinished.
ProfileInv ==
  /\ TypeOK
  /\ CompleteRunDescribesTables
  /\ complete \subseteq 1..lastRun
  /\ \A t \in Table : tbl[t].run <= lastRun
  /\ \A p \in Procs : pc[p] \in RunPcs => RunInv(p)

-----------------------------------------------------------------------------
(* Statements that neither fill, drop nor count a table.                   *)

Inert(p) ==
  /\ UNCHANGED <<tbl, complete, profile, lastRun, counted, cur, run>>
  /\ \A q \in Procs \ {p} : pc'[q] = pc[q]
  /\ pc'[p] \in RunPcs => pc[p] \in RunPcs
  /\ pc'[p] \in RunPcs \ {"manifest"} => pc[p] # "manifest"
  /\ pc'[p] \in Filling => pc[p] \in Filling
  /\ pc'[p] \in Uncounted => pc[p] \in Uncounted
  /\ pc'[p] \in Published => pc[p] \in Published

LEMMA InertPreserves ==
  ASSUME ProfileInv, TypeOK', NEW p \in Procs, Inert(p)
  PROVE  ProfileInv'
<1>1. ASSUME NEW q \in Procs, pc'[q] \in RunPcs PROVE RunInv(q)'
  <2>1. pc[q] \in RunPcs /\ RunInv(q)
    BY <1>1 DEF Inert, ProfileInv
  <2>2. /\ pc'[q] # "manifest" => pc[q] # "manifest"
        /\ pc'[q] \in Filling => pc[q] \in Filling
        /\ pc'[q] \in Uncounted => pc[q] \in Uncounted
        /\ pc'[q] \in Published => pc[q] \in Published
    BY <1>1 DEF Inert
  <2> QED
    BY <2>1, <2>2 DEF Inert, RunInv
<1> QED
  BY <1>1 DEF Inert, ProfileInv, CompleteRunDescribesTables

LEMMA InertSteps ==
  ASSUME TypeOK, NEW p \in Procs,
         \/ InitMeta(p) \/ WritePlan(p) \/ CheckDb(p) \/ DbIsOurs(p)
         \/ RegisterDb(p) \/ CreateDb(p) \/ CheckTable(p) \/ TableIsOurs(p)
         \/ RegisterTable(p) \/ CountEmpty(p) \/ WriteMap(p) \/ WriteGuide(p)
         \/ Verify(p) \/ Refused(p) \/ CleanupDone(p)
         \/ \E meta \in IncludeMeta : StartCleanup(p, meta)
  PROVE  Inert(p)
<1>0. pc \in [Procs -> Pc]
  BY DEF TypeOK
<1> HIDE DEF Pc
<1> USE <1>0 DEF Inert, Advance, Replay, Reply, RunPcs, Filling, Uncounted,
                 Published, destVars, metaVars, localVars, envVars
<1>1. CASE InitMeta(p)
  BY <1>1 DEF InitMeta
<1>2. CASE WritePlan(p)
  BY <1>2 DEF WritePlan, WriteTrusted
<1>3. CASE CheckDb(p)
  BY <1>3 DEF CheckDb
<1>4. CASE DbIsOurs(p)
  BY <1>4 DEF DbIsOurs
<1>5. CASE RegisterDb(p)
  BY <1>5 DEF RegisterDb, Register
<1>6. CASE CreateDb(p)
  BY <1>6 DEF CreateDb
<1>7. CASE CheckTable(p)
  BY <1>7 DEF CheckTable
<1>8. CASE TableIsOurs(p)
  BY <1>8 DEF TableIsOurs
<1>9. CASE RegisterTable(p)
  BY <1>9 DEF RegisterTable, Register
<1>10. CASE CountEmpty(p)
  BY <1>10 DEF CountEmpty
<1>11. CASE WriteMap(p)
  BY <1>11 DEF WriteMap, WriteTrusted
<1>12. CASE WriteGuide(p)
  BY <1>12 DEF WriteGuide
<1>13. CASE Verify(p)
  BY <1>13 DEF Verify
<1>14. CASE Refused(p)
  BY <1>14 DEF Refused
<1>15. CASE CleanupDone(p)
  BY <1>15 DEF CleanupDone
<1>16. CASE \E meta \in IncludeMeta : StartCleanup(p, meta)
  BY <1>16 DEF StartCleanup
<1> QED
  BY <1>1, <1>2, <1>3, <1>4, <1>5, <1>6, <1>7, <1>8, <1>9, <1>10, <1>11,
     <1>12, <1>13, <1>14, <1>15, <1>16

-----------------------------------------------------------------------------
(* Statements that do.                                                     *)

\* The facts about types the steps below need.
LEMMA ProfileTypes ==
  ASSUME TypeOK
  PROVE  /\ pc \in [Procs -> Pc] /\ cur \in [Procs -> Table]
         /\ run \in [Procs -> Run \cup {NoRun}]
         /\ counted \in [Procs -> [Table -> Nat \cup {NoRows}]]
         /\ profile \in [Run -> [Table -> Nat \cup {NoRows}]]
         /\ tbl \in [Table -> [owner : Owner, rows : Nat, run : Run \cup {NoRun}]]
         /\ \A t \in Table : /\ tbl[t].rows \in Nat
                             /\ tbl[t].run \in Int
         /\ lastRun \in Nat /\ complete \subseteq Run
         /\ \A p \in Procs : run[p] \in Int /\ (pc[p] \in RunPcs => run[p] \in Run)
<1>1. Run \subseteq Int /\ NoRun \in Int /\ 0..MaxRuns \subseteq Nat
  BY ConstantsAssumption DEF Run, NoRun
<1> QED
  BY <1>1 DEF TypeOK

\* A table changes only to one that nobody has counted as anond's.
LEMMA TableChange ==
  ASSUME ProfileInv, TypeOK', NEW p \in Procs,
         \A q \in Procs : q = p,
         UNCHANGED <<complete, profile, lastRun, counted, run>>,
         \A t \in Table : \/ tbl'[t] = tbl[t]
                          \/ tbl'[t].owner # "anond" /\ tbl'[t].run <= lastRun
                          \/ /\ pc[p] \in Uncounted /\ t = cur[p]
                             /\ tbl'[t].run = run[p],
         pc'[p] \in Filling /\ tbl'[cur'[p]].owner = "anond"
           => tbl'[cur'[p]].run = run[p],
         pc'[p] \in RunPcs => pc[p] \in RunPcs,
         pc'[p] \in RunPcs \ {"manifest"} => pc[p] # "manifest",
         pc'[p] \in Uncounted => pc[p] \in Uncounted /\ cur'[p] >= cur[p],
         pc'[p] \in Published => pc[p] \in Published
  PROVE  ProfileInv'
<1> USE ProfileTypes DEF ProfileInv
<1>0. Uncounted \subseteq RunPcs \ {"manifest"}
  BY DEF Uncounted, Filling, RunPcs
<1>1. pc[p] \in Uncounted =>
        run[p] = lastRun /\ run[p] \notin complete /\ counted[p][cur[p]] = NoRows
  <2>1. cur[p] \in Table /\ cur[p] >= cur[p]
    BY ConstantsAssumption DEF Table
  <2> QED
    BY <1>0, <2>1 DEF RunInv
<1>2. CompleteRunDescribesTables'
  BY <1>1 DEF CompleteRunDescribesTables
<1>3. \A t \in Table : tbl'[t].run <= lastRun'
  BY <1>1
<1>4. ASSUME pc'[p] \in RunPcs PROVE RunInv(p)'
  <2>1. RunInv(p)
    BY <1>4
  <2>2. \A t \in Table : tbl'[t].owner = "anond" /\ tbl'[t].run = run[p]
          => counted[p][t] \in {tbl'[t].rows, NoRows}
    BY <1>1, <2>1 DEF RunInv
  <2>3. pc'[p] \in Uncounted =>
          \A t \in Table : t >= cur'[p] => counted[p][t] = NoRows
    <3>1. cur[p] \in Int /\ cur'[p] \in Int /\ Table \subseteq Int
      <4>1. cur \in [Procs -> Table] /\ cur' \in [Procs -> Table]
        BY DEF TypeOK
      <4>2. cur[p] \in Table /\ cur'[p] \in Table
        BY <4>1
      <4>3. Table \subseteq Int
        BY ConstantsAssumption DEF Table
      <4> QED
        BY <4>2, <4>3
    <3>2. \A t \in Table : t >= cur'[p] /\ cur'[p] >= cur[p] => t >= cur[p]
      <4>1. \A i, j, k \in Int : i >= j /\ j >= k => i >= k
        OBVIOUS
      <4> QED
        BY <3>1, <4>1
    <3>3. pc'[p] \in Uncounted => pc[p] \in Uncounted /\ cur'[p] >= cur[p]
      OBVIOUS
    <3> QED
      BY <2>1, <3>2, <3>3 DEF RunInv
  <2> QED
    BY <1>4, <2>1, <2>2, <2>3 DEF RunInv
<1> QED
  BY <1>2, <1>3, <1>4

LEMMA NextTableControl ==
  ASSUME TypeOK, NEW p \in Procs, pc[p] \in Filling, NextTable(p)
  PROVE  /\ pc'[p] \in {"check", "map"} /\ cur'[p] \in Table
         /\ cur'[p] >= cur[p] /\ (pc'[p] = "check" => cur'[p] > cur[p])
<1>1. cur[p] \in Table /\ Table = 1..NumTables /\ NumTables \in Nat
  BY ConstantsAssumption DEF TypeOK, Table
<1>2. cur' = [cur EXCEPT ![p] = IF cur[p] < NumTables THEN cur[p] + 1 ELSE cur[p]]
  BY DEF NextTable
<1>3. cur'[p] = IF cur[p] < NumTables THEN cur[p] + 1 ELSE cur[p]
  BY <1>2 DEF TypeOK
<1>4. pc'[p] = IF cur[p] < NumTables THEN "check" ELSE "map"
  BY DEF NextTable, Advance, TypeOK
<1> QED
  BY <1>1, <1>3, <1>4

LEMMA InsertChange ==
  ASSUME ProfileInv, NEW p \in Procs, pc[p] \in Filling,
         UNCHANGED tbl \/ \E n \in 0..SampleRows : InsertRows(cur[p], n)
  PROVE  \A t \in Table : \/ tbl'[t] = tbl[t]
                          \/ tbl'[t].owner # "anond" /\ tbl'[t].run <= lastRun
                          \/ t = cur[p] /\ tbl'[t].run = run[p]
<1>1. \A t \in Table : \/ tbl'[t] = tbl[t]
                       \/ /\ t = cur[p] /\ tbl'[t].run = tbl[t].run
                          /\ tbl'[t].owner = tbl[t].owner
  BY ProfileTypes DEF ProfileInv, InsertRows
<1>2. tbl[cur[p]].owner = "anond" => tbl[cur[p]].run = run[p]
  BY DEF ProfileInv, RunInv, Filling, RunPcs
<1>3. \A t \in Table : tbl[t].run <= lastRun
  BY DEF ProfileInv
<1> QED
  BY <1>1, <1>2, <1>3

LEMMA ProfileTables ==
  ASSUME ProfileInv, TypeOK', NEW p \in Procs, \A q \in Procs : q = p,
         \/ DropTable(p) \/ CreateTable(p) \/ Populate(p) \/ PopulateFails(p)
         \/ CleanupTable(p) \/ CleanupDb(p)
  PROVE  ProfileInv'
<1>t. /\ pc \in [Procs -> Pc] /\ cur \in [Procs -> Table]
      /\ tbl \in [Table -> [owner : Owner, rows : Nat, run : Run \cup {NoRun}]]
      /\ cur[p] >= cur[p]
  <2>1. cur[p] \in Table /\ Table \subseteq Int
    BY ConstantsAssumption, ProfileTypes DEF ProfileInv, Table
  <2>2. cur[p] >= cur[p]
    <3>1. \A i \in Int : i >= i
      OBVIOUS
    <3> QED
      BY <2>1, <3>1
  <2> QED
    BY <2>2, ProfileTypes DEF ProfileInv
<1>a. Absent.owner # "anond" /\ Absent.run <= lastRun
  BY ProfileTypes DEF ProfileInv, Absent, NoRun
<1> USE DEF Advance, Replay, Reply, RunPcs, Filling, Uncounted, Published,
            destVars, metaVars, localVars, envVars
<1>1. CASE DropTable(p)
  <2>1. \A t \in Table : tbl'[t] = tbl[t] \/ tbl'[t] = Absent
    BY <1>t, <1>1 DEF DropTable
  <2> QED
    BY <1>t, <1>a, <1>1, <2>1, TableChange DEF DropTable
<1>2. CASE CreateTable(p)
  <2>1. /\ \A t \in Table : t # cur[p] => tbl'[t] = tbl[t]
        /\ tbl'[cur[p]].run = run[p]
    BY <1>t, <1>2 DEF CreateTable
  <2> QED
    BY <1>t, <1>2, <2>1, TableChange DEF CreateTable
<1>3. CASE Populate(p)
  <2>1. pc[p] \in {"populate", "repopulate"}
    BY <1>3 DEF Populate
  <2>2. \A t \in Table : \/ tbl'[t] = tbl[t]
                         \/ tbl'[t].owner # "anond" /\ tbl'[t].run <= lastRun
                         \/ t = cur[p] /\ tbl'[t].run = run[p]
    BY <1>3, <2>1, InsertChange DEF Populate
  <2>3. tbl[cur[p]].owner = "anond" => tbl[cur[p]].run = run[p]
    BY <2>1 DEF ProfileInv, RunInv
  <2>4. /\ UNCHANGED <<cur, complete, profile, lastRun, counted, run>>
        /\ pc'[p] \in Filling
    BY <1>t, <1>3, <2>1 DEF Populate, AfterPopulate
  <2> QED
    BY <1>t, <2>1, <2>2, <2>3, <2>4, TableChange
<1>4. CASE PopulateFails(p)
  <2>1. pc[p] \in {"populate", "repopulate"}
    BY <1>4 DEF PopulateFails
  <2>2. \A t \in Table : \/ tbl'[t] = tbl[t]
                         \/ tbl'[t].owner # "anond" /\ tbl'[t].run <= lastRun
                         \/ t = cur[p] /\ tbl'[t].run = run[p]
    BY <1>4, <2>1, InsertChange DEF PopulateFails
  <2>3. pc'[p] \in {"check", "map"} /\ cur'[p] >= cur[p]
    BY <1>4, <2>1, NextTableControl DEF PopulateFails, ProfileInv
  <2>4. UNCHANGED <<complete, profile, lastRun, counted, run>>
    BY <1>4 DEF PopulateFails
  <2> QED
    BY <2>1, <2>2, <2>3, <2>4, TableChange
<1>5. CASE CleanupTable(p)
  <2>1. \A t \in Table : tbl'[t] = tbl[t] \/ tbl'[t] = Absent
    BY <1>t, <1>5 DEF CleanupTable
  <2>2. /\ UNCHANGED <<complete, profile, lastRun, counted, run>>
        /\ pc'[p] = "cleanup"
    BY <1>t, <1>5 DEF CleanupTable, Dropped
  <2> QED
    BY <1>a, <2>1, <2>2, TableChange
<1>6. CASE CleanupDb(p)
  <2>1. \A t \in Table : tbl'[t] = Absent
    BY <1>6 DEF CleanupDb
  <2>2. /\ UNCHANGED <<complete, profile, lastRun, counted, run>>
        /\ pc'[p] = "cleanup"
    BY <1>t, <1>6 DEF CleanupDb, Dropped
  <2> QED
    BY <1>a, <2>1, <2>2, TableChange
<1> QED
  BY <1>1, <1>2, <1>3, <1>4, <1>5, <1>6

LEMMA ProfileCount ==
  ASSUME ProfileInv, TypeOK', NEW p \in Procs, \A q \in Procs : q = p,
         CountRows(p)
  PROVE  ProfileInv'
<1>1. pc[p] \in Filling /\ pc[p] \in RunPcs \cap Uncounted
  BY DEF CountRows, Filling, Uncounted, RunPcs
<1>2. RunInv(p) /\ pc[p] # "manifest"
  BY <1>1 DEF ProfileInv, Filling
<1>3. /\ pc'[p] \in {"check", "map"} /\ cur'[p] \in Table
      /\ pc'[p] = "check" => cur'[p] > cur[p]
  BY <1>1, NextTableControl DEF CountRows, ProfileInv
<1>4. UNCHANGED <<tbl, complete, profile, lastRun, run>>
  BY DEF CountRows, destVars, metaVars, envVars
<1>5. /\ counted'[p][cur[p]] = tbl[cur[p]].rows
      /\ \A t \in Table : t # cur[p] => counted'[p][t] = counted[p][t]
  <2>1. counted' = [counted EXCEPT ![p] =
                      [counted[p] EXCEPT ![cur[p]] = tbl[cur[p]].rows]]
    BY DEF CountRows
  <2>2. counted[p] \in [Table -> Nat \cup {NoRows}] /\ cur[p] \in Table
    BY ProfileTypes DEF ProfileInv
  <2>3. counted'[p] = [counted[p] EXCEPT ![cur[p]] = tbl[cur[p]].rows]
    BY <2>1, ProfileTypes DEF ProfileInv
  <2> QED
    BY <2>2, <2>3
<1>6. pc'[p] = "check" => \A t \in Table : t >= cur'[p] => counted'[p][t] = NoRows
  <2>1. cur[p] \in Int /\ cur'[p] \in Int /\ Table \subseteq Int
    <3>1. cur[p] \in Table /\ Table \subseteq Int
      BY ConstantsAssumption, ProfileTypes DEF ProfileInv, Table
    <3> QED
      BY <1>3, <3>1
  <2>2. \A i, j, k \in Int : i >= j /\ j > k => i >= k /\ i # k
    OBVIOUS
  <2>3. \A t \in Table : t >= cur'[p] /\ cur'[p] > cur[p] => t >= cur[p] /\ t # cur[p]
    BY <2>1, <2>2
  <2>4. \A t \in Table : t >= cur[p] => counted[p][t] = NoRows
    BY <1>1, <1>2 DEF RunInv
  <2> QED
    BY <1>3, <1>5, <2>3, <2>4
<1>7. \A t \in Table : tbl[t].owner = "anond" /\ tbl[t].run = run[p]
        => counted'[p][t] \in {tbl[t].rows, NoRows}
  BY <1>2, <1>5 DEF RunInv
<1>8. RunInv(p)'
  BY <1>2, <1>3, <1>4, <1>6, <1>7 DEF RunInv, Filling, Uncounted, Published
<1> QED
  BY <1>4, <1>8 DEF ProfileInv, CompleteRunDescribesTables

LEMMA ProfileWrite ==
  ASSUME ProfileInv, TypeOK', NEW p \in Procs, \A q \in Procs : q = p,
         WriteProfile(p)
  PROVE  ProfileInv'
<1>1. RunInv(p) /\ run[p] \in Run /\ run[p] \notin complete
  <2>1. pc[p] \in RunPcs /\ pc[p] # "manifest"
    BY DEF WriteProfile, RunPcs
  <2> QED
    BY <2>1, ProfileTypes DEF ProfileInv, RunInv
<1>2. UNCHANGED <<tbl, complete, counted, cur, lastRun, run>>
  BY DEF WriteProfile, destVars, localVars, envVars
<1>3. pc'[p] \in {"profile", "guide"}
  BY ProfileTypes DEF WriteProfile, Reply, Advance, Replay, ProfileInv
<1>4. /\ profile'[run[p]] = counted[p]
      /\ \A r \in Run : r # run[p] => profile'[r] = profile[r]
  BY <1>1, ProfileTypes DEF WriteProfile, ProfileInv
<1>5. RunInv(p)'
  BY <1>1, <1>2, <1>3, <1>4 DEF RunInv, Filling, Uncounted, Published
<1>6. CompleteRunDescribesTables'
  <2>1. complete \subseteq Run
    BY ProfileTypes DEF ProfileInv
  <2> QED
    BY <1>1, <1>2, <1>4, <2>1 DEF ProfileInv, CompleteRunDescribesTables
<1> QED
  BY <1>2, <1>5, <1>6 DEF ProfileInv

LEMMA ProfileManifest ==
  ASSUME ProfileInv, TypeOK', NEW p \in Procs, \A q \in Procs : q = p,
         WriteManifest(p)
  PROVE  ProfileInv'
<1>1. RunInv(p) /\ run[p] \in Run /\ pc[p] = "manifest"
  <2>1. pc[p] = "manifest" /\ pc[p] \in RunPcs
    BY DEF WriteManifest, RunPcs
  <2> QED
    BY <2>1, ProfileTypes DEF ProfileInv
<1>2. /\ UNCHANGED <<tbl, profile, counted, cur, lastRun, run>>
      /\ complete' = complete \cup {run[p]}
  BY DEF WriteManifest, destVars, localVars, envVars
<1>3. pc'[p] \in {"manifest", "idle"}
  BY ProfileTypes DEF WriteManifest, Reply, Advance, Replay, ProfileInv
<1>4. pc'[p] \in RunPcs => RunInv(p)'
  BY <1>1, <1>2, <1>3 DEF RunInv, Filling, Uncounted, Published, RunPcs
<1>5. CompleteRunDescribesTables'
  BY <1>1, <1>2 DEF ProfileInv, RunInv, CompleteRunDescribesTables, Published
<1>6. complete' \subseteq 1..lastRun
  <2>1. run[p] \in 1..lastRun
    <3>1. run[p] = lastRun /\ lastRun \in 1..MaxRuns
      BY <1>1 DEF RunInv, Run
    <3>2. MaxRuns \in Nat
      BY ConstantsAssumption
    <3> QED
      BY <3>1, <3>2
  <2> QED
    BY <1>2, <2>1 DEF ProfileInv
<1> QED
  BY <1>2, <1>4, <1>5, <1>6 DEF ProfileInv

LEMMA ProfileStart ==
  ASSUME ProfileInv, TypeOK', NEW p \in Procs, \A q \in Procs : q = p,
         StartRun(p)
  PROVE  ProfileInv'
<1>1. /\ UNCHANGED <<tbl, complete, profile>>
      /\ lastRun' = lastRun + 1
      /\ run'[p] = lastRun + 1 /\ counted'[p] = NoCounts /\ pc'[p] = "init"
  BY ProfileTypes DEF StartRun, Advance, ProfileInv, destVars, metaVars
<1>2. lastRun \in Int /\ \A t \in Table : tbl[t].run \in Int /\ tbl[t].run <= lastRun
  BY ProfileTypes DEF ProfileInv
<1>3. \A i, j \in Int : i <= j => i <= j + 1 /\ i # j + 1
  OBVIOUS
<1>4. \A t \in Table : tbl[t].run <= lastRun + 1 /\ tbl[t].run # lastRun + 1
  BY <1>2, <1>3
<1>5. complete \subseteq 1..(lastRun + 1) /\ lastRun + 1 \notin complete
  <2>1. 1..lastRun \subseteq 1..(lastRun + 1) /\ lastRun + 1 \notin 1..lastRun
    BY <1>2
  <2> QED
    BY <2>1 DEF ProfileInv
<1>6. RunInv(p)'
  BY <1>1, <1>4, <1>5 DEF RunInv, NoCounts, Filling, Published
<1> QED
  BY <1>1, <1>4, <1>5, <1>6 DEF ProfileInv, CompleteRunDescribesTables

\* Steps after which no process is inside Execute.
LEMMA ProfileEnds ==
  ASSUME ProfileInv, TypeOK', NEW p \in Procs, \A q \in Procs : q = p,
         Exit(p) \/ CleanupMeta(p)
  PROVE  ProfileInv'
<1>1. pc'[p] \notin RunPcs /\ UNCHANGED <<tbl, lastRun>>
  BY ProfileTypes DEF ProfileInv, Exit, CleanupMeta, Reply, Advance, Replay,
                      RunPcs, destVars, envVars
<1>2. UNCHANGED <<complete, profile>> \/ complete' = {}
  BY DEF Exit, CleanupMeta, metaVars
<1> QED
  BY <1>1, <1>2 DEF ProfileInv, CompleteRunDescribesTables

LEMMA ProfileOthers ==
  ASSUME ProfileInv, TypeOK', Others
  PROVE  ProfileInv'
<1>1. UNCHANGED <<complete, profile, pc, run, cur, counted>>
  BY DEF Others, metaVars, localVars
<1>2. \A t \in Table : \/ tbl'[t] = tbl[t]
                       \/ tbl'[t].owner # "anond" /\ tbl'[t].run = NoRun
  BY ProfileTypes DEF ProfileInv, Others, OtherCreatesDb, OtherDropsDb,
     InstallGuide, OtherCreatesTable, OtherDropsTable, Absent, destVars
<1>3. lastRun' = lastRun
  BY DEF Others, OtherCreatesDb, OtherDropsDb, InstallGuide, OtherCreatesTable,
         OtherDropsTable, envVars
<1>4. NoRun <= lastRun
  BY ProfileTypes DEF ProfileInv, NoRun
<1>5. ASSUME NEW p \in Procs, pc[p] \in RunPcs PROVE RunInv(p)'
  <2>1. RunInv(p) /\ cur[p] \in Table
    BY <1>5, ProfileTypes DEF ProfileInv
  <2> QED
    BY <1>1, <1>2, <1>3, <2>1 DEF RunInv
<1> QED
  BY <1>1, <1>2, <1>3, <1>4, <1>5 DEF ProfileInv, CompleteRunDescribesTables

LEMMA ProfileNext ==
  ASSUME Solo
  PROVE  ProfileInv /\ [Next]_vars => ProfileInv'
<1> SUFFICES ASSUME ProfileInv, [Next]_vars PROVE ProfileInv'
  OBVIOUS
<1>0. TypeOK'
  BY TypeNext DEF ProfileInv
<1>1. CASE Others
  BY <1>0, <1>1, ProfileOthers
<1>2. ASSUME NEW p \in Procs, Start(p) \/ Step(p) PROVE ProfileInv'
  <2>1. \A q \in Procs : q = p
    BY DEF Solo
  <2>2. TypeOK
    BY DEF ProfileInv
  <2>3. CASE Start(p)
    BY <1>0, <2>1, <2>2, <2>3, ProfileStart, InertSteps, InertPreserves DEF Start
  <2>4. CASE RunStep(p)
    BY <1>0, <2>1, <2>2, <2>4, ProfileTables, ProfileCount, ProfileWrite,
       ProfileManifest, InertSteps, InertPreserves DEF RunStep
  <2>5. CASE CleanupStep(p) \/ Refused(p) \/ Exit(p)
    BY <1>0, <2>1, <2>2, <2>5, ProfileTables, ProfileEnds, InertSteps,
       InertPreserves DEF CleanupStep
  <2> QED
    BY <1>2, <2>3, <2>4, <2>5 DEF Step
<1>3. CASE UNCHANGED vars
  BY <1>3 DEF vars, destVars, metaVars, localVars, envVars, ProfileInv, TypeOK,
              CompleteRunDescribesTables, RunInv, guideVars
<1> QED
  BY <1>1, <1>2, <1>3 DEF Next

\* As long as anond commands do not overlap, a table that a complete run built
\* holds exactly the rows its profile says, or was noted as not populated,
\* whatever failed, was repeated or was cleaned up before (sandbox.go:320-342).
THEOREM ProfileTruthful ==
  ASSUME Solo
  PROVE  Spec => []CompleteRunDescribesTables
<1>1. Init => ProfileInv
  <2> SUFFICES ASSUME Init PROVE ProfileInv
    OBVIOUS
  <2>1. \A t \in Table : tbl[t].owner = "none" /\ tbl[t].run = 0
    BY DEF Init, Absent, NoRun
  <2>2. \A p \in Procs : pc[p] \notin RunPcs
    BY DEF Init, RunPcs
  <2>3. lastRun = 0 /\ complete = {}
    BY DEF Init
  <2> QED
    BY <2>1, <2>2, <2>3, TypeInit DEF ProfileInv, CompleteRunDescribesTables
<1>2. ProfileInv /\ [Next]_vars => ProfileInv'
  BY ProfileNext
<1>3. ProfileInv => CompleteRunDescribesTables
  BY DEF ProfileInv
<1> QED
  BY <1>1, <1>2, <1>3, PTL DEF Spec

-----------------------------------------------------------------------------
(* The size of a sandbox table.                                            *)

Pouring == {"populate", "repopulate"}

RowsInv ==
  /\ TypeOK /\ AtMostSampleRows
  /\ \A p \in Procs : pc[p] \in Pouring => tbl[cur[p]].rows = 0

LEMMA RowsStep ==
  ASSUME ~SameCluster, RowsInv, TypeOK', NEW p \in Procs, Step(p)
  PROVE  /\ \A t \in Table : tbl'[t].rows <= SampleRows
         /\ pc'[p] \in Pouring => tbl'[cur'[p]].rows = 0
<1>t. /\ pc \in [Procs -> Pc] /\ cur \in [Procs -> Table]
      /\ tbl \in [Table -> [owner : Owner, rows : Nat, run : Run \cup {NoRun}]]
      /\ SampleRows \in Nat /\ 0 <= SampleRows
      /\ \A t \in Table : tbl[t].rows <= SampleRows
      /\ pc[p] \in Pouring => tbl[cur[p]].rows = 0
  BY ConstantsAssumption, ProfileTypes DEF RowsInv, AtMostSampleRows
<1>a. Absent.rows = 0
  BY DEF Absent
<1> USE DEF Pouring, Advance, Replay, Reply, destVars, localVars
<1>1. ASSUME UNCHANGED <<tbl, cur>>, pc'[p] \in Pouring => pc[p] \in Pouring
      PROVE  /\ \A t \in Table : tbl'[t].rows <= SampleRows
             /\ pc'[p] \in Pouring => tbl'[cur'[p]].rows = 0
  BY <1>t, <1>1
<1>2. CASE \/ InitMeta(p) \/ WritePlan(p) \/ CheckDb(p) \/ DbIsOurs(p)
           \/ RegisterDb(p) \/ CreateDb(p) \/ CheckTable(p) \/ TableIsOurs(p)
           \/ RegisterTable(p)
  BY <1>t, <1>1, <1>2 DEF InitMeta, WritePlan, WriteTrusted, CheckDb, DbIsOurs,
     RegisterDb, CreateDb, CheckTable, TableIsOurs, RegisterTable, Register
<1>3. CASE \/ WriteMap(p) \/ WriteProfile(p) \/ WriteGuide(p) \/ Verify(p)
           \/ WriteManifest(p) \/ Refused(p) \/ CleanupMeta(p) \/ CleanupDone(p)
  BY <1>t, <1>1, <1>3 DEF WriteMap, WriteTrusted, WriteProfile, WriteGuide,
     Verify, WriteManifest, Refused, CleanupMeta, CleanupDone
<1>4. CASE CountEmpty(p)
  BY <1>t, <1>4 DEF CountEmpty, NeedsFallback
<1>5. CASE CountRows(p)
  <2>1. pc'[p] \notin Pouring /\ UNCHANGED tbl
    BY <1>t, <1>5 DEF CountRows, NextTable
  <2> QED
    BY <1>t, <2>1
<1>6. CASE Exit(p)
  <2>1. pc'[p] \notin Pouring /\ UNCHANGED tbl
    BY <1>t, <1>6 DEF Exit
  <2> QED
    BY <1>t, <2>1
<1>7. CASE DropTable(p) \/ CleanupTable(p) \/ CleanupDb(p)
  <2>1. pc'[p] \notin Pouring
    BY <1>t, <1>7 DEF DropTable, CleanupTable, CleanupDb, Dropped
  <2>2. \A t \in Table : tbl'[t] = tbl[t] \/ tbl'[t] = Absent
    BY <1>t, <1>7 DEF DropTable, CleanupTable, CleanupDb
  <2> QED
    BY <1>t, <1>a, <2>1, <2>2
<1>8. CASE CreateTable(p)
  <2>1. /\ cur'[p] = cur[p] /\ tbl'[cur[p]].rows = 0
        /\ \A t \in Table : t # cur[p] => tbl'[t] = tbl[t]
    BY <1>t, <1>8 DEF CreateTable
  <2> QED
    BY <1>t, <2>1
<1>9. ASSUME pc[p] \in Pouring, NEW n \in 0..SampleRows, InsertRows(cur[p], n)
      PROVE  \A t \in Table : tbl'[t].rows <= SampleRows
  <2>1. \A t \in Table : t # cur[p] => tbl'[t] = tbl[t]
    BY <1>9 DEF InsertRows
  <2>2. tbl'[cur[p]].rows = 0 + n
    BY <1>t, <1>9 DEF InsertRows
  <2>3. 0 + n <= SampleRows
    BY <1>t
  <2> QED
    BY <1>t, <2>1, <2>2, <2>3
<1>10. CASE Populate(p)
  <2>1. pc[p] \in Pouring /\ pc'[p] \notin Pouring
    BY <1>t, <1>10 DEF Populate, AfterPopulate
  <2> QED
    BY <1>9, <1>10, <2>1 DEF Populate
<1>11. CASE PopulateFails(p)
  <2>1. pc[p] \in Pouring /\ pc'[p] \notin Pouring
    BY <1>t, <1>11 DEF PopulateFails, NextTable
  <2> QED
    BY <1>t, <1>9, <1>11, <2>1 DEF PopulateFails
<1> QED
  BY <1>2, <1>3, <1>4, <1>5, <1>6, <1>7, <1>8, <1>10, <1>11
     DEF Step, RunStep, CleanupStep

\* No sandbox table exceeds --sample-rows (sandbox.go:345) when rows are
\* streamed between two clusters and anond commands do not overlap: the
\* unwindowed fallback meets an empty table only.
THEOREM SampleBounded ==
  ASSUME Solo, ~SameCluster
  PROVE  Spec => []AtMostSampleRows
<1>1. Init => RowsInv
  <2> SUFFICES ASSUME Init PROVE RowsInv
    OBVIOUS
  <2>1. \A t \in Table : tbl[t].rows = 0
    BY DEF Init, Absent
  <2>2. \A p \in Procs : pc[p] = "idle"
    BY DEF Init
  <2> QED
    BY <2>1, <2>2, TypeInit, ConstantsAssumption
       DEF RowsInv, AtMostSampleRows, Pouring
<1>2. RowsInv /\ [Next]_vars => RowsInv'
  <2> SUFFICES ASSUME RowsInv, [Next]_vars PROVE RowsInv'
    OBVIOUS
  <2>1. TypeOK'
    BY TypeNext DEF RowsInv
  <2>2. ASSUME UNCHANGED cur,
               \A p \in Procs : pc'[p] \in Pouring => pc[p] \in Pouring,
               \A t \in Table : tbl'[t] = tbl[t] \/ tbl'[t].rows = 0
        PROVE  RowsInv'
    BY <2>1, <2>2, ConstantsAssumption, ProfileTypes DEF RowsInv, AtMostSampleRows
  <2>3. CASE Others
    <3>1. \A t \in Table : tbl'[t] = tbl[t] \/ tbl'[t].rows = 0
      BY <2>3, ProfileTypes DEF RowsInv, Others, OtherCreatesDb, OtherDropsDb,
         InstallGuide, OtherCreatesTable, OtherDropsTable, Absent, destVars
    <3> QED
      BY <2>2, <2>3, <3>1 DEF Others, localVars
  <2>4. ASSUME NEW p \in Procs, Step(p) PROVE RowsInv'
    BY <2>1, <2>4, RowsStep DEF Solo, RowsInv, AtMostSampleRows
  <2>5. ASSUME NEW p \in Procs, Start(p) PROVE RowsInv'
    <3>1. pc'[p] \notin Pouring /\ UNCHANGED tbl
      BY <2>5, ProfileTypes DEF RowsInv, Start, StartRun, StartCleanup, Advance,
                                Pouring, destVars
    <3> QED
      BY <2>1, <3>1 DEF Solo, RowsInv, AtMostSampleRows
  <2>6. CASE UNCHANGED vars
    BY <2>2, <2>6 DEF vars, destVars, localVars
  <2> QED
    BY <2>3, <2>4, <2>5, <2>6 DEF Next
<1>3. RowsInv => AtMostSampleRows
  BY DEF RowsInv
<1> QED
  BY <1>1, <1>2, <1>3, PTL DEF Spec
=============================================================================
