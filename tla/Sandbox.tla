------------------------------ MODULE Sandbox ------------------------------
(***************************************************************************)
(* The run protocol of anond (anon/internal/discover, tokenizing model):   *)
(* one sandbox database with one table per eligible source table, on a     *)
(* destination cluster that other people use too.                          *)
(*                                                                         *)
(* An anond process is a command-line invocation, `run` or `cleanup`, that *)
(* talks to ClickHouse one statement at a time (chclient.Client.run).  Each*)
(* action below is one statement: between two of them the process may be   *)
(* killed, another process may work, and other users of the cluster may    *)
(* create and drop objects of their own.  A statement that fails with a    *)
(* transient network error is sent once more, whether or not the server    *)
(* had already carried it out (chclient.go, run).                          *)
(*                                                                         *)
(* Abstracted: discovery itself (reads of the source cluster between       *)
(* InitMeta and WritePlan, any of which may fail: Exit), column lists and  *)
(* masking expressions, the note texts.  Tables that are not eligible or   *)
(* lose all their columns are not in Table.                                *)
(***************************************************************************)
EXTENDS Integers

CONSTANTS
  Procs,        \* anond invocations that may be under way at the same time
  NumTables,    \* eligible tables of the source database, in catalog order
  SampleRows,   \* --sample-rows: the LIMIT of the masked SELECT
  SameCluster,  \* --source and --dest are the same command
  Fallback,     \* tables with a window column and a catalog row count > 0
  IncludeMeta,  \* values of --include-meta the operator passes to cleanup
  InitialDb,    \* owner of a database with the sandbox's name at the start
  MaxRuns,      \* bound: run invocations
  MaxOthers     \* bound: objects other users create

Table     == 1..NumTables
SandboxDB == 0                       \* the name --dest-db stands for
Name      == {SandboxDB} \cup Table  \* everything anond creates on the dest
Run       == 1..MaxRuns
NoRun     == 0
NoRows    == -1                      \* no entry in Run.SandboxRows
Owner     == {"none", "anond", "other"}
Secret    == {"masking_plan", "identifier_map"}

ASSUME ConstantsAssumption ==
  /\ NumTables \in Nat \ {0}
  /\ SampleRows \in Nat
  /\ SameCluster \in BOOLEAN
  /\ Fallback \subseteq Table
  /\ IncludeMeta \subseteq BOOLEAN
  /\ InitialDb \subseteq {"none", "other"}
  /\ MaxRuns \in Nat /\ MaxOthers \in Nat

VARIABLES
  \* the destination cluster
  dbOwner,   \* who created the database of the sandbox's name, if it exists
  tbl,       \* per table name: owner, rows anond inserted, run that created it
  \* the meta database on the destination cluster
  metaUp,    \* its tables exist
  registry,  \* generated_objects: names, never removed one by one
  profile,   \* profile_catalog: run -> table -> sandbox_rows
  complete,  \* manifest rows
  latest,    \* what LatestCompleteRun answers
  guideUp,   \* schema_guide_data exists (the tool itself never creates it)
  guide,     \* run whose rows schema_guide shows for the sandbox
  \* the secret database on the source cluster
  trusted,   \* run -> trusted tables it has written
  \* the anond processes
  pc, tries, run, cur, seen, counted, todo, dropMeta,
  \* the environment
  lastRun, others

destVars   == <<dbOwner, tbl>>
metaVars   == <<metaUp, registry, profile, complete, latest>>
guideVars  == <<guideUp, guide>>
localVars  == <<run, cur, seen, counted, todo, dropMeta>>
envVars    == <<lastRun, others>>
vars == <<destVars, metaVars, guideVars, trusted, pc, tries, localVars, envVars>>

Absent    == [owner |-> "none", rows |-> 0, run |-> NoRun]
NoCounts  == [t \in Table |-> NoRows]

RunPcs == {"init", "plan", "dbCheck", "dbOurs", "dbRegister", "dbCreate",
           "check", "ours", "register", "drop", "create",
           "populate", "count", "repopulate", "recount",
           "map", "profile", "guide", "verify", "manifest"}
Pc     == RunPcs \cup {"idle", "cleanup"}

Init ==
  /\ dbOwner \in InitialDb
  /\ tbl = [t \in Table |-> Absent]
  /\ metaUp = FALSE /\ registry = {} /\ complete = {} /\ latest = NoRun
  /\ profile = [r \in Run |-> NoCounts]
  /\ guideUp = TRUE /\ guide = NoRun
  /\ trusted = [r \in Run |-> {}]
  /\ pc = [p \in Procs |-> "idle"] /\ tries = [p \in Procs |-> 1]
  /\ run = [p \in Procs |-> NoRun] /\ cur = [p \in Procs |-> 1]
  /\ seen = [p \in Procs |-> FALSE]
  /\ counted = [p \in Procs |-> NoCounts]
  /\ todo = [p \in Procs |-> {}] /\ dropMeta = [p \in Procs |-> FALSE]
  /\ lastRun = 0 /\ others = 0

-----------------------------------------------------------------------------
(* One statement of process p, as the client sees it.                      *)

Advance(p, next) ==
  /\ pc' = [pc EXCEPT ![p] = next]
  /\ tries' = [tries EXCEPT ![p] = 1]

\* The statement took effect but the reply was lost to a transient error:
\* the client sends the same statement again, once.
Replay(p) ==
  /\ tries[p] = 1
  /\ tries' = [tries EXCEPT ![p] = 2]
  /\ UNCHANGED pc

Reply(p, next) == Advance(p, next) \/ Replay(p)

\* Mutant: the retry loop forgets how often it has tried.
RefusedForever(p) ==
  /\ pc[p] # "idle"
  /\ tries' = [tries EXCEPT ![p] = 3 - @]
  /\ UNCHANGED <<destVars, metaVars, guideVars, trusted, pc, localVars, envVars>>

\* A transient error before the statement took effect.
Refused(p) ==
  /\ pc[p] # "idle"
  /\ pc[p] \in {"populate", "repopulate"} => SameCluster  \* streams: no retry
  /\ Replay(p)
  /\ UNCHANGED <<destVars, metaVars, guideVars, trusted, localVars, envVars>>

\* The process ends with an error or is killed: its memory is gone, nothing
\* it did on the servers is undone.
Exit(p) ==
  /\ pc[p] # "idle"
  /\ Advance(p, "idle")
  /\ run' = [run EXCEPT ![p] = NoRun]
  /\ cur' = [cur EXCEPT ![p] = 1]
  /\ seen' = [seen EXCEPT ![p] = FALSE]
  /\ counted' = [counted EXCEPT ![p] = NoCounts]
  /\ todo' = [todo EXCEPT ![p] = {}]
  /\ dropMeta' = [dropMeta EXCEPT ![p] = FALSE]
  /\ UNCHANGED <<destVars, metaVars, guideVars, trusted, envVars>>

-----------------------------------------------------------------------------
(* anond run: Execute (run.go)                                             *)

StartRun(p) ==
  /\ pc[p] = "idle" /\ lastRun < MaxRuns
  /\ lastRun' = lastRun + 1
  /\ run' = [run EXCEPT ![p] = lastRun + 1]
  /\ cur' = [cur EXCEPT ![p] = 1]
  /\ counted' = [counted EXCEPT ![p] = NoCounts]
  /\ Advance(p, "init")
  /\ UNCHANGED <<destVars, metaVars, guideVars, trusted, seen, todo, dropMeta,
                 others>>

\* Mutant: InitProfile drops and creates the tables anew.
InitMetaAfresh(p) ==
  /\ pc[p] = "init"
  /\ metaUp' = TRUE
  /\ profile' = [r \in Run |-> NoCounts]
  /\ Reply(p, "plan")
  /\ UNCHANGED <<destVars, registry, complete, latest, guideVars,
                 trusted, localVars, envVars>>

\* InitProfile: CREATE ... IF NOT EXISTS throughout
InitMeta(p) ==
  /\ pc[p] = "init"
  /\ metaUp' = TRUE
  /\ Reply(p, "plan")
  /\ UNCHANGED <<destVars, registry, profile, complete, latest, guideVars,
                 trusted, localVars, envVars>>

WriteTrusted(p, table) ==
  /\ trusted' = [trusted EXCEPT ![run[p]] = @ \cup {table}]
  /\ UNCHANGED <<destVars, metaVars, guideVars, localVars, envVars>>

WritePlan(p) ==
  pc[p] = "plan" /\ WriteTrusted(p, "masking_plan") /\ Reply(p, "dbCheck")

\* ensureOurs is two queries: does the name exist, and if so is it registered
CheckDb(p) ==
  /\ pc[p] = "dbCheck"
  /\ Advance(p, IF dbOwner = "none" THEN "dbRegister" ELSE "dbOurs")
  /\ UNCHANGED <<destVars, metaVars, guideVars, trusted, localVars, envVars>>

DbIsOurs(p) ==
  /\ pc[p] = "dbOurs" /\ metaUp /\ SandboxDB \in registry
  /\ Advance(p, "dbRegister")
  /\ UNCHANGED <<destVars, metaVars, guideVars, trusted, localVars, envVars>>

\* RegisterObject: the row goes in before the object exists
Register(x) ==
  /\ metaUp
  /\ registry' = registry \cup {x}
  /\ UNCHANGED <<destVars, metaUp, profile, complete, latest, guideVars,
                 trusted, localVars, envVars>>

RegisterDb(p) ==
  pc[p] = "dbRegister" /\ Register(SandboxDB) /\ Reply(p, "dbCreate")

\* CREATE DATABASE IF NOT EXISTS
CreateDb(p) ==
  /\ pc[p] = "dbCreate"
  /\ dbOwner' = IF dbOwner = "none" THEN "anond" ELSE dbOwner
  /\ Reply(p, "check")
  /\ UNCHANGED <<tbl, metaVars, guideVars, trusted, localVars, envVars>>

\* Mutant: only a table that is already there gets a registry row.
CheckTableUnregistered(p) ==
  /\ pc[p] = "check"
  /\ LET exists == tbl[cur[p]].owner # "none"
     IN  /\ seen' = [seen EXCEPT ![p] = exists]
         /\ Advance(p, IF exists THEN "ours" ELSE "create")
  /\ UNCHANGED <<destVars, metaVars, guideVars, trusted, run, cur, counted,
                 todo, dropMeta, envVars>>

CheckTable(p) ==
  /\ pc[p] = "check"
  /\ LET exists == tbl[cur[p]].owner # "none"
     IN  /\ seen' = [seen EXCEPT ![p] = exists]
         /\ Advance(p, IF exists THEN "ours" ELSE "register")
  /\ UNCHANGED <<destVars, metaVars, guideVars, trusted, run, cur, counted,
                 todo, dropMeta, envVars>>

\* Mutant: an existing table is taken for the tool's own.
TableIsAlwaysOurs(p) ==
  /\ pc[p] = "ours" /\ metaUp
  /\ Advance(p, "register")
  /\ UNCHANGED <<destVars, metaVars, guideVars, trusted, localVars, envVars>>

TableIsOurs(p) ==
  /\ pc[p] = "ours" /\ metaUp /\ cur[p] \in registry
  /\ Advance(p, "register")
  /\ UNCHANGED <<destVars, metaVars, guideVars, trusted, localVars, envVars>>

RegisterTable(p) ==
  /\ pc[p] = "register"
  /\ Register(cur[p])
  /\ Reply(p, IF seen[p] THEN "drop" ELSE "create")

\* DROP TABLE, without IF EXISTS: a replay of one that worked is an error
DropTable(p) ==
  /\ pc[p] = "drop" /\ tbl[cur[p]].owner # "none"
  /\ tbl' = [tbl EXCEPT ![cur[p]] = Absent]
  /\ Reply(p, "create")
  /\ UNCHANGED <<dbOwner, metaVars, guideVars, trusted, localVars, envVars>>

\* CREATE TABLE, without IF NOT EXISTS
CreateTable(p) ==
  /\ pc[p] = "create" /\ dbOwner # "none" /\ tbl[cur[p]].owner = "none"
  /\ tbl' = [tbl EXCEPT ![cur[p]] =
                 [owner |-> "anond", rows |-> 0, run |-> run[p]]]
  /\ Reply(p, "populate")
  /\ UNCHANGED <<dbOwner, metaVars, guideVars, trusted, localVars, envVars>>

InsertRows(t, n) ==
  /\ tbl[t].owner # "none"
  /\ tbl' = [tbl EXCEPT ![t].rows = @ + n]

AfterPopulate(p) == IF pc[p] = "populate" THEN "count" ELSE "recount"

\* Same cluster: one INSERT ... SELECT, retried like any other statement.
\* Across clusters: a TSV stream from the source into the dest, never retried.
Populate(p) ==
  /\ pc[p] \in {"populate", "repopulate"}
  /\ \E n \in 0..SampleRows : InsertRows(cur[p], n)
  /\ \/ Advance(p, AfterPopulate(p))
     \/ SameCluster /\ Replay(p)
  /\ UNCHANGED <<dbOwner, metaVars, guideVars, trusted, localVars, envVars>>

\* Mutant: the loop over the tables misses its end.
NextTableUnbounded(p) ==
  /\ Advance(p, "check")
  /\ cur' = [cur EXCEPT ![p] = @ + 1]

\* Mutant: the identifier map is left out after the sandbox.
NextTableSkipsMap(p) ==
  /\ Advance(p, IF cur[p] < NumTables THEN "check" ELSE "profile")
  /\ cur' = [cur EXCEPT ![p] = IF @ < NumTables THEN @ + 1 ELSE @]

NextTable(p) ==
  /\ Advance(p, IF cur[p] < NumTables THEN "check" ELSE "map")
  /\ cur' = [cur EXCEPT ![p] = IF @ < NumTables THEN @ + 1 ELSE @]

\* A failed populate is noted and the loop goes on; what it inserted stays.
PopulateFails(p) ==
  /\ pc[p] \in {"populate", "repopulate"}
  /\ \/ \E n \in 0..SampleRows : InsertRows(cur[p], n)
     \/ UNCHANGED tbl
  /\ NextTable(p)
  /\ UNCHANGED <<dbOwner, metaVars, guideVars, trusted, run, seen, counted,
                 todo, dropMeta, envVars>>

\* Mutant: every windowed sample is topped up.
AlwaysFallback(p) == pc[p] = "count" /\ cur[p] \in Fallback

NeedsFallback(p) ==
  pc[p] = "count" /\ tbl[cur[p]].rows = 0 /\ cur[p] \in Fallback

\* Mutant: the row count of the window is recorded before the fallback runs.
CountEmptyRecorded(p) ==
  /\ pc[p] = "count" /\ tbl[cur[p]].owner # "none"
  /\ NeedsFallback(p)
  /\ counted' = [counted EXCEPT ![p][cur[p]] = tbl[cur[p]].rows]
  /\ Advance(p, "repopulate")
  /\ UNCHANGED <<destVars, metaVars, guideVars, trusted, run, cur, seen, todo,
                 dropMeta, envVars>>

\* An empty windowed sample of a non-empty table is replaced by first-N.
CountEmpty(p) ==
  /\ pc[p] = "count" /\ tbl[cur[p]].owner # "none"
  /\ NeedsFallback(p)
  /\ Advance(p, "repopulate")
  /\ UNCHANGED <<destVars, metaVars, guideVars, trusted, localVars, envVars>>

CountRows(p) ==
  /\ pc[p] \in {"count", "recount"} /\ tbl[cur[p]].owner # "none"
  /\ ~NeedsFallback(p)
  /\ counted' = [counted EXCEPT ![p][cur[p]] = tbl[cur[p]].rows]
  /\ NextTable(p)
  /\ UNCHANGED <<destVars, metaVars, guideVars, trusted, run, seen, todo,
                 dropMeta, envVars>>

WriteMap(p) ==
  pc[p] = "map" /\ WriteTrusted(p, "identifier_map") /\ Reply(p, "profile")

\* the profile_* inserts; their rows carry the run id, so a partial set of
\* them is invisible to readers of complete runs
WriteProfile(p) ==
  /\ pc[p] = "profile" /\ metaUp
  /\ profile' = [profile EXCEPT ![run[p]] = counted[p]]
  /\ Reply(p, "guide")
  /\ UNCHANGED <<destVars, metaUp, registry, complete, latest, guideVars,
                 trusted, localVars, envVars>>

\* schema_guide_data has no run in its key: the newest row of a table wins
WriteGuide(p) ==
  /\ pc[p] = "guide" /\ guideUp
  /\ guide' = run[p]
  /\ Reply(p, "verify")
  /\ UNCHANGED <<destVars, metaVars, guideUp, trusted, localVars, envVars>>

\* verify: SHOW CREATE of every table that was counted must succeed
Verify(p) ==
  /\ pc[p] = "verify" /\ metaUp
  /\ \A t \in Table : counted[p][t] # NoRows => tbl[t].owner # "none"
  /\ Reply(p, "manifest")
  /\ UNCHANGED <<destVars, metaVars, guideVars, trusted, localVars, envVars>>

WriteManifest(p) ==
  /\ pc[p] = "manifest" /\ metaUp
  /\ complete' = complete \cup {run[p]}
  /\ latest' = run[p]
  /\ Reply(p, "idle")
  /\ UNCHANGED <<destVars, metaUp, registry, profile, guideVars, trusted,
                 localVars, envVars>>

-----------------------------------------------------------------------------
(* anond cleanup: cmdCleanup (main.go)                                     *)

StartCleanup(p, meta) ==
  /\ pc[p] = "idle" /\ metaUp
  /\ todo' = [todo EXCEPT ![p] = registry]
  /\ dropMeta' = [dropMeta EXCEPT ![p] = meta]
  /\ Advance(p, "cleanup")
  /\ UNCHANGED <<destVars, metaVars, guideVars, trusted, run, cur, seen,
                 counted, envVars>>

\* The reply to a DROP of name x: with it the loop goes on to the next name.
Dropped(p, x) ==
  /\ \/ /\ Advance(p, "cleanup")
        /\ todo' = [todo EXCEPT ![p] = @ \ {x}]
     \/ Replay(p) /\ UNCHANGED todo
  /\ UNCHANGED <<metaVars, guideVars, trusted, run, cur, seen, counted,
                 dropMeta, envVars>>

\* DROP TABLE IF EXISTS, in name order; names are tokens, so any order
CleanupTable(p) ==
  /\ pc[p] = "cleanup"
  /\ \E t \in todo[p] \cap Table :
       tbl' = [tbl EXCEPT ![t] = Absent] /\ Dropped(p, t)
  /\ UNCHANGED dbOwner

\* DROP DATABASE IF EXISTS takes every table in the database with it
CleanupDb(p) ==
  /\ pc[p] = "cleanup" /\ todo[p] = {SandboxDB}
  /\ dbOwner' = "none"
  /\ tbl' = [t \in Table |-> Absent]
  /\ Dropped(p, SandboxDB)

\* --include-meta drops the whole meta database, the guide tables in it too
CleanupMeta(p) ==
  /\ pc[p] = "cleanup" /\ todo[p] = {} /\ dropMeta[p]
  /\ metaUp' = FALSE /\ registry' = {} /\ complete' = {} /\ latest' = NoRun
  /\ profile' = [r \in Run |-> NoCounts]
  /\ guideUp' = FALSE /\ guide' = NoRun
  /\ Reply(p, "idle")
  /\ UNCHANGED <<destVars, trusted, localVars, envVars>>

CleanupDone(p) ==
  /\ pc[p] = "cleanup" /\ todo[p] = {} /\ ~dropMeta[p]
  /\ Advance(p, "idle")
  /\ UNCHANGED <<destVars, metaVars, guideVars, trusted, localVars, envVars>>

-----------------------------------------------------------------------------
(* The other users of the destination cluster.  They create objects under  *)
(* free names and drop their own.                                          *)

Creates == others < MaxOthers /\ others' = others + 1

OtherCreatesDb ==
  /\ dbOwner = "none" /\ Creates
  /\ dbOwner' = "other"
  /\ UNCHANGED <<tbl, guideVars, lastRun>>

OtherCreatesTable(t) ==
  /\ dbOwner # "none" /\ tbl[t].owner = "none" /\ Creates
  /\ tbl' = [tbl EXCEPT ![t] = [Absent EXCEPT !.owner = "other"]]
  /\ UNCHANGED <<dbOwner, guideVars, lastRun>>

OtherDropsTable(t) ==
  /\ tbl[t].owner = "other"
  /\ tbl' = [tbl EXCEPT ![t] = Absent]
  /\ UNCHANGED <<dbOwner, guideVars, envVars>>

OtherDropsDb ==
  /\ dbOwner = "other"
  /\ dbOwner' = "none"
  /\ tbl' = [t \in Table |-> Absent]
  /\ UNCHANGED <<guideVars, envVars>>

\* 08-schema-guide-registry.sql, applied by the operator
InstallGuide ==
  /\ ~guideUp /\ guideUp' = TRUE
  /\ UNCHANGED <<destVars, guide, envVars>>

Others ==
  /\ \/ OtherCreatesDb \/ OtherDropsDb \/ InstallGuide
     \/ \E t \in Table : OtherCreatesTable(t) \/ OtherDropsTable(t)
  /\ UNCHANGED <<metaVars, trusted, pc, tries, localVars>>

-----------------------------------------------------------------------------
RunStep(p) ==
  \/ InitMeta(p) \/ WritePlan(p)
  \/ CheckDb(p) \/ DbIsOurs(p) \/ RegisterDb(p) \/ CreateDb(p)
  \/ CheckTable(p) \/ TableIsOurs(p) \/ RegisterTable(p)
  \/ DropTable(p) \/ CreateTable(p)
  \/ Populate(p) \/ PopulateFails(p) \/ CountEmpty(p) \/ CountRows(p)
  \/ WriteMap(p) \/ WriteProfile(p) \/ WriteGuide(p)
  \/ Verify(p) \/ WriteManifest(p)

CleanupStep(p) ==
  CleanupTable(p) \/ CleanupDb(p) \/ CleanupMeta(p) \/ CleanupDone(p)

\* everything process p does once it has been started
Step(p) == RunStep(p) \/ CleanupStep(p) \/ Refused(p) \/ Exit(p)

Start(p) == StartRun(p) \/ \E meta \in IncludeMeta : StartCleanup(p, meta)

Next == Others \/ \E p \in Procs : Start(p) \/ Step(p)

Spec == Init /\ [][Next]_vars

\* A started command keeps going: every statement returns or fails.
FairSpec == Spec /\ \A p \in Procs : WF_vars(Step(p))

-----------------------------------------------------------------------------
(* Properties                                                              *)

\* Every variable has its type, and no table exists outside a database.
TypeOK ==
  /\ dbOwner \in Owner
  /\ tbl \in [Table -> [owner : Owner, rows : Nat, run : Run \cup {NoRun}]]
  /\ metaUp \in BOOLEAN /\ guideUp \in BOOLEAN
  /\ registry \subseteq Name /\ complete \subseteq Run
  /\ profile \in [Run -> [Table -> Nat \cup {NoRows}]]
  /\ latest \in Run \cup {NoRun} /\ guide \in Run \cup {NoRun}
  /\ trusted \in [Run -> SUBSET Secret]
  /\ pc \in [Procs -> Pc] /\ tries \in [Procs -> {1, 2}]
  /\ run \in [Procs -> Run \cup {NoRun}]
  /\ \A p \in Procs : pc[p] \in RunPcs => run[p] # NoRun
  /\ cur \in [Procs -> Table] /\ seen \in [Procs -> BOOLEAN]
  /\ counted \in [Procs -> [Table -> Nat \cup {NoRows}]]
  /\ todo \in [Procs -> SUBSET Name] /\ dropMeta \in [Procs -> BOOLEAN]
  /\ lastRun \in 0..MaxRuns /\ others \in 0..MaxOthers
  /\ dbOwner = "none" => \A t \in Table : tbl[t] = Absent

OwnerOf(x) == IF x = SandboxDB THEN dbOwner ELSE tbl[x].owner
RowsOf(x)  == IF x = SandboxDB THEN 0 ELSE tbl[x].rows

\* Whatever anond has created and still exists is listed in the registry, so
\* that cleanup finds it: the reason RegisterObject runs before CREATE
\* (store.go:182), across crashes, retries and cleanups half done.
CreatedIsRegistered ==
  /\ dbOwner = "anond" => SandboxDB \in registry
  /\ \A t \in Table : tbl[t].owner = "anond" => t \in registry

\* A process that found x absent and is about to register it.
Committed(p, x) ==
  \/ x = SandboxDB /\ pc[p] = "dbRegister"
  \/ x = cur[p] /\ pc[p] = "register"

Unclaimed(x) == x \notin registry /\ \A p \in Procs : ~Committed(p, x)

Foreign(x) == OwnerOf(x) = "other"

\* A step of anond that meets an unclaimed foreign object neither drops it,
\* nor inserts into it, nor claims its name; but dropping the sandbox database
\* takes the tables in it along.
SparesForeign ==
  \A x \in Name : Foreign(x) /\ Unclaimed(x) =>
    \/ Others
    \/ x \in Table /\ \E p \in Procs : CleanupDb(p)
    \/ Foreign(x)' /\ Unclaimed(x)' /\ RowsOf(x)' = RowsOf(x)

\* An object of somebody else whose name anond has not claimed before is
\* safe from it (sandbox.go:12).
ForeignUntouched == [][SparesForeign]_vars

\* The tables a complete run built hold exactly as many rows as its profile
\* says, or were noted as not populated (run.go:608, sandbox.go:320-342).
CompleteRunDescribesTables ==
  \A t \in Table :
    tbl[t].owner = "anond" /\ tbl[t].run \in complete =>
      profile[tbl[t].run][t] \in {tbl[t].rows, NoRows}

\* --sample-rows is the maximum number of rows of a sandbox table
\* (main.go:132, sandbox.go:345): the unwindowed fallback never tops up a
\* windowed sample, and no failure path inserts twice.
AtMostSampleRows == \A t \in Table : tbl[t].rows <= SampleRows

\* Every token a reader of the destination can meet is in the trusted map:
\* rows of schema_guide and of complete runs belong to runs whose masking
\* plan and identifier map are stored (run.go:370-392).
PublishedIsReversible ==
  \A r \in complete \cup ({guide} \ {NoRun}) : trusted[r] = Secret

\* Readers see runs as RunStore describes: the statements of a run that
\* crashes, is overtaken or is repeated never show up in part nor change a
\* published run, which stays until the meta database is dropped
\* (run.go:375-396, store.go LatestCompleteRun).
Store == INSTANCE RunStore WITH published <- [r \in complete |-> profile[r]]
PublishesAtomically == Store!Spec

\* Every table the latest complete run counted is there to be queried: "a
\* crashed run leaves no half-readable state" (docs/anon-architecture.html).
LatestRunReadable ==
  latest # NoRun =>
    \A t \in Table : profile[latest][t] # NoRows => tbl[t].owner # "none"

\* anond never drops an object it did not create (anon/README.md:111).
NeverDropsForeign ==
  [][\A x \in Name : Foreign(x) /\ ~Foreign(x)' => Others]_vars

\* Every command that was started ends (chclient.go:147: a single retry).
CommandsFinish ==
  \A p \in Procs : pc[p] # "idle" ~> pc[p] = "idle"
=============================================================================
