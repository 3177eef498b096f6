------------------------------ MODULE Preserve ------------------------------
(***************************************************************************)
(* The schema-preserving model (anon/internal/discover/preserve.go): real  *)
(* table and column names, masked values.  Every statement that writes is  *)
(* an action, and other users may change the source's rows and the objects *)
(* of the destination between two of them.  A run starts with what earlier *)
(* runs, which may have died anywhere, and other users have left.          *)
(*                                                                         *)
(* A table's rows are abstracted to the set of values its identifier       *)
(* columns hold; the token of a value is <kind>_<hash of the value>, which *)
(* is kept as the pair of the two.                                         *)
(***************************************************************************)
EXTENDS Catalog, Masking, FiniteSets

CONSTANTS
  Value,      \* what identifier columns hold
  Sources,    \* what the source tables may hold at first: table -> values
  Overrides,  \* --column-overrides: table -> column -> class
  Leftover,   \* what earlier runs and other users may have left, see LeftBehind
  Changing,   \* bound: tables that other users change, here or there
  MaxChanges  \* bound: how often they do

VARIABLES
  source,     \* live values, per source table
  gone,       \* history: values deleted from a source table
  db,         \* who created the sandbox database, if it exists
  dest,       \* per table name: owner, values and classes of the sandbox table
  astray,     \* history: tables that others changed, or earlier runs left in
              \* disorder, and that this run has not replaced since
  registry,   \* the names in generated_objects; rows are never deleted
  before,     \* history: those that were there when the run began
  dbReady, todo, cur,       \* the loop over the tables
  exists,                   \* what ensureOurs said of table cur
  done,                     \* tables whose rows go to the guide and the plan
  toMint, unminted, minted, \* the mint loop: columns left, failed, pairs found
  identifiers,              \* identifier_map on the source, rows of all runs
  maskingPlan,              \* rows of this run in masking_plan: table -> classes
  shown,                    \* schema_guide_data: <<table, column>> -> class
  changes

loopVars     == <<dbReady, todo, cur, exists, done>>
mintVars     == <<toMint, unminted, minted>>
trustedVars  == <<identifiers, maskingPlan>>
destVars     == <<db, dest, astray, registry>>
envVars      == <<source, gone, changes, before>>
preserveVars == <<loopVars, mintVars, trustedVars, destVars, shown, envVars>>

\* Who created an object: an earlier run, this run, or somebody else.
Owner     == {"none", "earlier", "run", "other"}
NoClasses == <<>>
Absent    == [owner |-> "none", values |-> {}, classes |-> NoClasses]
Nobody    == "none"
Database  == "database"

\* generated_objects keeps names of databases and of tables apart.
ASSUME PreserveAssumption == Database \notin TableName

Objects == TableName \cup {Database}

OverridesOf(t) == IF t \in DOMAIN Overrides THEN Overrides[t] ELSE <<>>
ClassOf(t, c)  == ClassifyPreserve(c, OverridesOf(t))
KeptColumns(t) == {c \in columns[t] : PreserveIncluded(ClassOf(t, c))}

\* The classes of some columns of t, by name; of those of its sandbox table.
ClassesOf(t, cols) ==
  [n \in {c.name : c \in cols} |-> ClassOf(t, CHOOSE c \in cols : c.name = n)]

Classes(t) == ClassesOf(t, KeptColumns(t))

\* The columns of scope tables that are minted, eligible or not.
MintColumns ==
  UNION {{t} \X {c.name : c \in {x \in columns[t] : PreserveMints(ClassOf(t, x))}} :
         t \in tables}

MintKind(t, n) == ClassOf(t, CHOOSE c \in columns[t] : c.name = n).kind

Eligible == {t \in tables : SandboxEligible(t) /\ KeptColumns(t) # {}}

\* The row of the guide for column n of table t fits the sandbox table.
RowFits(t, n) ==
  /\ dest[t].owner \in {"earlier", "run"}
  /\ n \in DOMAIN dest[t].classes /\ dest[t].classes[n] = shown[<<t, n>>]

\* The values of such a column are tokens that are meant to be turned back.
ShowsTokens(cl) == cl.class = "tok" /\ cl.kind \in PreserveTokKinds

\* Every token the sandbox table shows in column n has its row in the map.
TokensKnown(t, n) ==
  ShowsTokens(dest[t].classes[n]) =>
    \A v \in dest[t].values : <<dest[t].classes[n].kind, v>> \in identifiers

\* Whatever earlier runs did, what they own is registered (see MadeIsRegistered);
\* but a registered name may be free or somebody else's by now, guide rows
\* outlive their tables, and a run that died has left tables that the guide and
\* the identifier map do not know: these are astray.
LeftBehind ==
  /\ db \in Owner \ {"run"} /\ \A t \in TableName : dest[t].owner \in Owner \ {"run"}
  /\ db = "none" => \A t \in TableName : dest[t].owner = "none"
  /\ registry \subseteq Objects
  /\ db = "earlier" => Database \in registry
  /\ \A t \in TableName : dest[t].owner = "earlier" => t \in registry
  /\ DOMAIN shown \subseteq TableName \X Name
  /\ \A a \in DOMAIN shown :
       a[1] \notin astray => RowFits(a[1], a[2]) /\ TokensKnown(a[1], a[2])

PreserveInit ==
  /\ source \in Sources /\ DOMAIN source = TableName /\ gone = [t \in TableName |-> {}]
  /\ \E left \in Leftover :
       /\ db = left.db /\ dest = left.dest /\ astray = left.astray
       /\ registry = left.registry /\ before = left.registry
       /\ identifiers = left.identifiers /\ shown = left.shown
  /\ DOMAIN dest = TableName /\ astray \subseteq TableName
  /\ LeftBehind
  /\ dbReady = FALSE /\ todo = {} /\ cur = Nobody /\ exists = FALSE /\ done = {}
  /\ toMint = {} /\ unminted = {} /\ minted = {}
  /\ maskingPlan = <<>> /\ changes = 0

Proceed(next) == pc' = next /\ UNCHANGED <<cfg, why, tables, columns, qlog>>
GiveUp(reason) == Fail(reason) /\ UNCHANGED <<cfg, tables, columns, qlog>>

-----------------------------------------------------------------------------
(* The environment.                                                        *)

\* Somebody inserts or deletes rows of a source table.
ChangeSource(t) ==
  /\ t \in Changing
  /\ changes < MaxChanges /\ changes' = changes + 1
  /\ \E v \in Value :
       \/ source' = [source EXCEPT ![t] = @ \cup {v}] /\ UNCHANGED gone
       \/ /\ v \in source[t]
          /\ source' = [source EXCEPT ![t] = @ \ {v}]
          /\ gone' = [gone EXCEPT ![t] = @ \cup {v}]
  /\ UNCHANGED <<loopVars, mintVars, trustedVars, destVars, shown, before>>

\* Somebody drops a table of the sandbox or puts one of their own in its place.
ChangeTable(t) ==
  /\ t \in Changing /\ db # "none"
  /\ changes < MaxChanges /\ changes' = changes + 1
  /\ \E owner \in {"none", "other"} :
       dest' = [dest EXCEPT ![t] = [Absent EXCEPT !.owner = owner]]
  /\ astray' = astray \cup {t}
  /\ UNCHANGED <<loopVars, mintVars, trustedVars, db, registry, shown, source, gone, before>>

\* Somebody drops the sandbox database, or creates one of that name.
ChangeDatabase ==
  /\ changes < MaxChanges /\ changes' = changes + 1
  /\ db' = IF db = "none" THEN "other" ELSE "none"
  /\ dest' = [t \in TableName |-> Absent] /\ astray' = TableName
  /\ UNCHANGED <<loopVars, mintVars, trustedVars, registry, shown, source, gone, before>>

-----------------------------------------------------------------------------
(* The loop over the tables.                                               *)

\* The trusted tables are created if need be; their rows stay.  The loop passes
\* over tables that are not eligible or lose all their columns.
InitTrusted ==
  /\ pc = "trusted"
  /\ todo' = Eligible
  /\ Proceed("tables")
  /\ UNCHANGED <<dbReady, cur, exists, done, mintVars, trustedVars, destVars, shown, envVars>>

\* The next table in catalog order, which the query does not fix.
NextTable(t) ==
  /\ pc = "tables" /\ t \in todo
  /\ todo' = todo \ {t} /\ cur' = t
  /\ Proceed(IF dbReady THEN "check" ELSE "database")
  /\ UNCHANGED <<dbReady, exists, done, mintVars, trustedVars, destVars, shown, envVars>>

\* ensureOurs on the database: one of this name that is not registered ends
\* the run.  So does any failure in these three statements (Stop).
CheckDatabase ==
  /\ pc = "database"
  /\ IF db # "none" /\ Database \notin registry THEN GiveUp("foreign") ELSE Proceed("dbRegister")
  /\ UNCHANGED <<loopVars, mintVars, trustedVars, destVars, shown, envVars>>

RegisterDatabase ==
  /\ pc = "dbRegister"
  /\ registry' = registry \cup {Database}
  /\ Proceed("dbCreate")
  /\ UNCHANGED <<loopVars, mintVars, trustedVars, db, dest, astray, shown, envVars>>

\* CREATE DATABASE IF NOT EXISTS.
CreateDatabase ==
  /\ pc = "dbCreate"
  /\ db' = IF db = "none" THEN "run" ELSE db
  /\ dbReady' = TRUE
  /\ Proceed("check")
  /\ UNCHANGED <<todo, cur, exists, done, mintVars, trustedVars, dest, astray, registry, shown, envVars>>

\* materializePreserve returned an error: the table is noted and skipped.
Skip ==
  /\ cur' = Nobody
  /\ Proceed("tables")
  /\ UNCHANGED <<dbReady, todo, exists, done, mintVars, trustedVars, shown, envVars>>

Found == dest[cur].owner # "none"

\* Mutant: the registry is not asked.
CheckNothing ==
  /\ pc = "check"
  /\ exists' = Found
  /\ Proceed("register")
  /\ UNCHANGED <<dbReady, todo, cur, done, mintVars, trustedVars, destVars, shown, envVars>>

\* Mutant: a new table is created before it is registered.
CheckNew ==
  /\ pc = "check"
  /\ IF Found /\ cur \notin registry
     THEN Skip
     ELSE /\ exists' = Found /\ Proceed(IF Found THEN "register" ELSE "create")
          /\ UNCHANGED <<dbReady, todo, cur, done, mintVars, trustedVars, shown, envVars>>
  /\ UNCHANGED destVars

\* ensureOurs on the table's name: a table of that name must be registered.
Check ==
  /\ pc = "check"
  /\ IF Found /\ cur \notin registry
     THEN Skip
     ELSE /\ exists' = Found /\ Proceed("register")
          /\ UNCHANGED <<dbReady, todo, cur, done, mintVars, trustedVars, shown, envVars>>
  /\ UNCHANGED destVars

\* Mutant: the table is recorded before it is created.
RegisterDone ==
  /\ pc = "register"
  /\ registry' = registry \cup {cur} /\ done' = done \cup {cur}
  /\ Proceed(IF exists THEN "drop" ELSE "create")
  /\ UNCHANGED <<dbReady, todo, cur, exists, mintVars, trustedVars, db, dest, astray, shown, envVars>>

\* Only a table found by the check is dropped.
Register ==
  /\ pc = "register"
  /\ registry' = registry \cup {cur}
  /\ Proceed(IF exists THEN "drop" ELSE "create")
  /\ UNCHANGED <<loopVars, mintVars, trustedVars, db, dest, astray, shown, envVars>>

\* DROP TABLE, of whatever has that name by now.
DropTable ==
  /\ pc = "drop" /\ Found
  /\ dest' = [dest EXCEPT ![cur] = Absent]
  /\ astray' = astray \ {cur}
  /\ Proceed("create")
  /\ UNCHANGED <<loopVars, mintVars, trustedVars, db, registry, shown, envVars>>

\* What the masked SELECT may return, given its window and its limit.  It runs
\* on the destination, so across clusters it reads whatever table of that name
\* the destination has.
Readable == IF cfg.cross THEN SUBSET Value ELSE SUBSET source[cur]

\* CREATE TABLE without IF NOT EXISTS, in a database that must be there.
Make(rows) ==
  /\ ~Found /\ db # "none"
  /\ dest' = [dest EXCEPT ![cur] = [owner |-> "run", values |-> rows, classes |-> Classes(cur)]]
  /\ astray' = astray \ {cur}

\* CREATE TABLE ... AS SELECT.
Create ==
  /\ pc = "create"
  /\ \E rows \in Readable : Make(rows)
  /\ Proceed("count")
  /\ UNCHANGED <<loopVars, mintVars, trustedVars, db, registry, shown, envVars>>

\* SELECT count() FROM the table, whoever's it is by now.
Count ==
  /\ pc = "count" /\ Found
  /\ done' = done \cup {cur} /\ cur' = Nobody
  /\ Proceed("tables")
  /\ UNCHANGED <<dbReady, todo, exists, mintVars, trustedVars, destVars, shown, envVars>>

\* A statement of materializePreserve fails; a CREATE ... AS SELECT that fails
\* halfway, or is sent again after a lost reply, leaves the table behind with
\* some of the rows.
StatementFails ==
  /\ pc \in {"check", "register", "drop", "create", "count"}
  /\ Skip
  /\ \/ UNCHANGED <<dest, astray>>
     \/ pc = "create" /\ \E rows \in Readable : \E part \in SUBSET rows : Make(part)
  /\ UNCHANGED <<db, registry>>

-----------------------------------------------------------------------------
(* Value tokens, trusted tables, schema guide.                             *)

\* The tables are through; every reversible column of the scope is minted,
\* those of tables that were skipped included.
BeginMint ==
  /\ pc = "tables" /\ todo = {}
  /\ toMint' = MintColumns
  /\ Proceed("mint")
  /\ UNCHANGED <<loopVars, unminted, minted, trustedVars, destVars, shown, envVars>>

\* One SELECT DISTINCT on the source, as it is now; a failure is only noted.
MintColumn(a) ==
  /\ pc = "mint" /\ a \in toMint
  /\ toMint' = toMint \ {a}
  /\ \/ minted' = minted \cup ({MintKind(a[1], a[2])} \X source[a[1]]) /\ UNCHANGED unminted
     \/ unminted' = unminted \cup {a} /\ UNCHANGED minted
  /\ Proceed("mint")
  /\ UNCHANGED <<loopVars, trustedVars, destVars, shown, envVars>>

WriteIdentifiers ==
  /\ pc = "mint" /\ toMint = {}
  /\ identifiers' = identifiers \cup minted
  /\ Proceed("maskingPlan")
  /\ UNCHANGED <<loopVars, mintVars, maskingPlan, destVars, shown, envVars>>

WriteMaskingPlan ==
  /\ pc = "maskingPlan"
  /\ maskingPlan' = [t \in done |-> ClassesOf(t, columns[t])]
  /\ Proceed("registryRows")
  /\ UNCHANGED <<loopVars, mintVars, identifiers, destVars, shown, envVars>>

\* The guide rows of this run: one for each column of each table it made.
ListedColumns == UNION {{t} \X DOMAIN Classes(t) : t \in done}

\* They come last, there is no manifest.  A row replaces the one of an earlier
\* run for the same column; those of other columns and tables stay.
WriteRegistryRows ==
  /\ pc = "registryRows"
  /\ shown' = [a \in DOMAIN shown \cup ListedColumns |->
                 IF a \in ListedColumns THEN Classes(a[1])[a[2]] ELSE shown[a]]
  /\ Proceed("done")
  /\ UNCHANGED <<loopVars, mintVars, trustedVars, destVars, envVars>>

PreserveStep ==
  \/ InitTrusted \/ \E t \in todo : NextTable(t)
  \/ CheckDatabase \/ RegisterDatabase \/ CreateDatabase
  \/ Check \/ Register \/ DropTable \/ Create \/ Count
  \/ StatementFails
  \/ BeginMint \/ \E a \in toMint : MintColumn(a)
  \/ WriteIdentifiers \/ WriteMaskingPlan \/ WriteRegistryRows
=============================================================================
