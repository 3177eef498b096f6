--------------------------- MODULE PreserveProofs ---------------------------
(***************************************************************************)
(* Theorems about the schema-preserving model, for every schema, every     *)
(* override, whatever earlier runs and others have left, and every         *)
(* interleaving with others: what a run makes is registered, it drops      *)
(* nothing foreign but under names registered before, and the guide and    *)
(* the identifier map fit the sandbox as far as the code sees to it.       *)
(***************************************************************************)
EXTENDS ExecuteProofs

\* The phases before the loop over the tables, those that see to the database
\* and to one table, and those after the loop.
BeforeLoop == {"start", "shape", "roster", "columns", "trusted"}
OnDatabase == {"database", "dbRegister", "dbCreate"}
OnTable    == {"check", "register", "drop", "create", "count"}
AfterLoop  == {"mint", "maskingPlan", "registryRows"}

TokenizingPcs == {"relations", "mining", "observe", "observeSql", "build", "plan"} \cup Publishing

\* The loop over the tables: which table it is at, and what is registered.  A
\* name that was not registered before the run is registered by the time its
\* table has been found, so that only a name from before can be dropped.
LoopInv ==
  /\ changes \in Nat
  /\ todo \subseteq tables /\ done \subseteq tables /\ todo \cap done = {}
  /\ cur \in tables \cup {Nobody}
  /\ pc \in BeforeLoop \cup TokenizingPcs => todo = {} /\ done = {} /\ cur = Nobody
  /\ pc \in OnDatabase \cup OnTable => cur \in tables \ (todo \cup done)
  /\ before \subseteq registry /\ registry \subseteq Objects
  /\ pc \in BeforeLoop => registry = before
  /\ registry \subseteq before \cup {Database} \cup (tables \ todo)
  /\ pc \in OnDatabase \cup {"check"} => cur \in before \/ cur \notin registry
  /\ pc \in {"drop", "create", "count"} => cur \in registry
  /\ pc = "register" /\ exists => cur \in before
  /\ pc = "drop" => cur \in before
  /\ pc = "dbCreate" => Database \in registry

\* The tables this run has made.
Made == done \cup {t \in tables : t = cur /\ pc = "count"}

\* The sandbox: what belongs to the tool is registered, what the run made and
\* nobody changed since is as it was made.
DestInv ==
  /\ DOMAIN dest = TableName /\ astray \subseteq TableName
  /\ db \in {"earlier", "run"} => Database \in registry
  /\ \A t \in TableName :
       /\ dest[t].owner \in Owner
       /\ dest[t].owner \in {"earlier", "run"} => t \in registry
       /\ dest[t].owner = "run" => t \in tables /\ dest[t].classes = Classes(t)
  /\ pc \in BeforeLoop \cup TokenizingPcs => \A t \in TableName : dest[t].owner # "run"
  /\ \A t \in Made \ astray : dest[t].owner = "run"
  /\ DOMAIN shown \subseteq TableName \X Name
  /\ \A a \in DOMAIN shown : a[1] \notin astray => dest[a[1]].owner # "other"

\* The tables of earlier runs, as long as they are there.
EarlierInv ==
  \A a \in DOMAIN shown :
    a[1] \notin astray /\ dest[a[1]].owner = "earlier" =>
      RowFits(a[1], a[2]) /\ TokensKnown(a[1], a[2])

Plans == [t \in done |-> ClassesOf(t, columns[t])]

\* What this run writes to the trusted tables and the guide.
GuideInv ==
  /\ pc = "registryRows" => maskingPlan = Plans
  /\ pc = "done" /\ done # {} =>
       /\ maskingPlan = Plans
       /\ \A a \in ListedColumns : a \in DOMAIN shown /\ shown[a] = Classes(a[1])[a[2]]

\* On one cluster what a table of this run shows was in the source, and was
\* minted if it still was there then.
ValuesInv ==
  /\ DOMAIN source = TableName /\ DOMAIN gone = TableName
  /\ ~cfg.cross => \A t \in TableName :
       dest[t].owner = "run" => dest[t].values \subseteq source[t] \cup gone[t]

MintedInv ==
  /\ ~cfg.cross /\ pc \in AfterLoop \cup {"done"} =>
       \A a \in MintColumns \ (toMint \cup unminted) :
         dest[a[1]].owner = "run" =>
           \A v \in dest[a[1]].values \ gone[a[1]] : <<MintKind(a[1], a[2]), v>> \in minted
  /\ pc \in BeforeLoop \cup TokenizingPcs => toMint = {} /\ minted = {}
  /\ pc \in {"maskingPlan", "registryRows", "done"} => toMint = {} /\ minted \subseteq identifiers

PreserveInv ==
  SourceInv /\ LoopInv /\ DestInv /\ EarlierInv /\ GuideInv /\ ValuesInv /\ MintedInv

-----------------------------------------------------------------------------
(* The steps of the system, seen from the schema-preserving model.         *)

\* A step that changes nothing the schema-preserving model reads or writes.
Idle ==
  /\ UNCHANGED <<cfg, tables, columns, preserveVars>>
  /\ \/ UNCHANGED pc
     \/ ~Ended /\ pc' = "failed"
     \/ pc \in TokenizingPcs /\ pc' \in TokenizingPcs \cup {"dry", "done", "failed"}

LEMMA TokenizeIdle == TokenizeStep /\ UNCHANGED preserveVars => Idle
<1> SUFFICES ASSUME TokenizeStep, UNCHANGED preserveVars PROVE Idle
  OBVIOUS
<1> USE DEF Idle, TokenizingPcs, Publishing, Goto, Abort, Fail
<1>1. CASE Relations
  BY <1>1 DEF Relations
<1>2. CASE Mining
  BY <1>2 DEF Mining
<1>3. CASE ObserveNames
  BY <1>3 DEF ObserveNames
<1>4. CASE ObserveSQL
  BY <1>4 DEF ObserveSQL
<1>5. CASE Build
  BY <1>5 DEF Build
<1>6. CASE WritePlan
  BY <1>6 DEF WritePlan
<1>7. CASE SandboxTables
  BY <1>7 DEF SandboxTables
<1>8. CASE WriteMap
  BY <1>8 DEF WriteMap
<1>9. CASE WriteProfile
  BY <1>9 DEF WriteProfile
<1>10. CASE WriteGuide
  BY <1>10 DEF WriteGuide
<1>11. CASE Verify
  BY <1>11 DEF Verify
<1>12. CASE WriteManifest
  BY <1>12 DEF WriteManifest
<1> QED
  BY <1>1, <1>2, <1>3, <1>4, <1>5, <1>6, <1>7, <1>8, <1>9, <1>10, <1>11, <1>12 DEF TokenizeStep

LEMMA PSteps ==
  [Next]_vars =>
    \/ (InitStores \/ Shape \/ Roster \/ Columns) /\ UNCHANGED preserveVars
    \/ PreserveStep \/ Idle \/ Others
<1>1. Stopped => Idle
  BY DEF Stopped, Stop, Fail, Idle
<1>2. UNCHANGED vars => Idle
  BY DEF vars, catalogVars, Idle
<1> QED
  BY <1>1, <1>2, TokenizeIdle DEF Next, Run, Phase

-----------------------------------------------------------------------------
(* The classes of a table's columns.                                       *)

\* Columns of one table have different names, so that a name stands for the
\* same column in any set of them.
LEMMA ColumnByName ==
  ASSUME SourceInv, NEW t \in tables,
         NEW A \in SUBSET columns[t], NEW c \in A
  PROVE  (CHOOSE x \in A : x.name = c.name) = c
<1>1. A \subseteq Schema[t].columns /\ t \in TableName
  BY DEF SourceInv
<1>2. \A x \in A : x.name = c.name => x = c
  BY <1>1, CatalogAssumption
<1> QED
  BY <1>2

LEMMA ClassesOfColumn ==
  ASSUME SourceInv, NEW t \in tables, NEW n \in DOMAIN Classes(t)
  PROVE  /\ \E c \in KeptColumns(t) : c.name = n /\ Classes(t)[n] = ClassOf(t, c)
         /\ ClassesOf(t, columns[t])[n] = Classes(t)[n]
<1> DEFINE K == KeptColumns(t)
<1>1. K \subseteq columns[t]
  BY DEF KeptColumns
<1>2. n \in {c.name : c \in K} /\ Classes(t)[n] = ClassOf(t, CHOOSE x \in K : x.name = n)
  BY DEF Classes, ClassesOf
<1>3. PICK c \in K : c.name = n
  BY <1>2
<1>4. (CHOOSE x \in K : x.name = n) = c /\ (CHOOSE x \in columns[t] : x.name = n) = c
  BY <1>1, <1>3, ColumnByName
<1>5. ClassesOf(t, columns[t])[n] = ClassOf(t, CHOOSE x \in columns[t] : x.name = n)
  BY <1>1, <1>3 DEF ClassesOf
<1> QED
  BY <1>2, <1>3, <1>4, <1>5

\* As long as the catalog stays, so do the classes and what is minted.
LEMMA ClassesStay ==
  ASSUME UNCHANGED columns
  PROVE  /\ \A t : Classes(t)' = Classes(t)
         /\ \A t : ClassesOf(t, columns[t])' = ClassesOf(t, columns[t])
         /\ \A t, n : MintKind(t, n)' = MintKind(t, n)
BY DEF Classes, ClassesOf, KeptColumns, MintKind

LEMMA MintColumnsStay == UNCHANGED <<tables, columns>> => MintColumns' = MintColumns
BY DEF MintColumns

LEMMA MintedTables == SourceInv => \A a \in MintColumns : a[1] \in TableName
BY DEF SourceInv, MintColumns

LEMMA ClassNames ==
  ASSUME SourceInv, NEW t \in tables
  PROVE  t \in TableName /\ DOMAIN Classes(t) \subseteq Name
BY NameAssumption DEF SourceInv, Classes, ClassesOf, KeptColumns

-----------------------------------------------------------------------------
(* Each part of the invariant is preserved.                                *)

LEMMA LoopNext == SourceInv /\ LoopInv /\ [Next]_vars => LoopInv'
<1> SUFFICES ASSUME SourceInv, LoopInv, [Next]_vars PROVE LoopInv'
  OBVIOUS
<1> USE DEF LoopInv, SourceInv, Objects, BeforeLoop, OnDatabase, OnTable, AfterLoop, TokenizingPcs, Publishing, preserveVars, loopVars, mintVars, trustedVars, destVars, envVars, Proceed
<1>1. CASE InitStores /\ UNCHANGED preserveVars
  BY <1>1, PreserveAssumption DEF InitStores
<1>2. CASE Shape /\ UNCHANGED preserveVars
  BY <1>2, PreserveAssumption DEF Shape
<1>3. CASE Roster /\ UNCHANGED preserveVars
  BY <1>3, PreserveAssumption DEF Roster, Fail
<1>4. CASE Columns /\ UNCHANGED preserveVars
  BY <1>4, PreserveAssumption DEF Columns
<1>5. CASE InitTrusted
  BY <1>5, PreserveAssumption DEF InitTrusted, Eligible
<1>6. CASE \E t \in todo : NextTable(t)
  BY <1>6, PreserveAssumption DEF NextTable
<1>7. CASE CheckDatabase
  BY <1>7, PreserveAssumption DEF CheckDatabase, GiveUp, Fail
<1>8. CASE RegisterDatabase
  BY <1>8, PreserveAssumption DEF RegisterDatabase
<1>9. CASE CreateDatabase
  BY <1>9, PreserveAssumption DEF CreateDatabase
<1>10. CASE Check
  <2>1. CASE Found /\ cur \notin registry
    BY <1>10, <2>1 DEF Check, Skip
  <2>2. CASE ~(Found /\ cur \notin registry)
    <3>1. /\ UNCHANGED <<tables, todo, cur, done, registry, before, changes>>
          /\ pc = "check" /\ pc' = "register"
      BY <1>10, <2>2 DEF Check
    <3>2. exists' = Found
      BY <1>10, <2>2 DEF Check
    <3>3. exists' => cur \in registry
      BY <2>2, <3>2, Zenon
    <3> QED
      BY <3>1, <3>3, PreserveAssumption
  <2> QED
    BY <2>1, <2>2
<1>11. CASE Register
  BY <1>11, PreserveAssumption DEF Register
<1>12. CASE DropTable
  BY <1>12, PreserveAssumption DEF DropTable
<1>13. CASE Create
  BY <1>13, PreserveAssumption DEF Create, Make
<1>14. CASE Count
  BY <1>14, PreserveAssumption DEF Count
<1>15. CASE StatementFails
  BY <1>15, PreserveAssumption DEF StatementFails, Skip, Make
<1>16. CASE BeginMint
  BY <1>16, PreserveAssumption DEF BeginMint
<1>17. CASE \E a \in toMint : MintColumn(a)
  BY <1>17, PreserveAssumption DEF MintColumn
<1>18. CASE WriteIdentifiers
  BY <1>18, PreserveAssumption DEF WriteIdentifiers
<1>19. CASE WriteMaskingPlan
  BY <1>19, PreserveAssumption DEF WriteMaskingPlan
<1>20. CASE WriteRegistryRows
  BY <1>20, PreserveAssumption DEF WriteRegistryRows
<1>21. CASE Idle
  BY <1>21, PreserveAssumption DEF Idle, Ended
<1>22. CASE Others
  BY <1>22, PreserveAssumption DEF Others, ChangeSource, ChangeTable, ChangeDatabase, catalogVars, Ended
<1> QED
  BY <1>1, <1>2, <1>3, <1>4, <1>5, <1>6, <1>7, <1>8, <1>9, <1>10, <1>11, <1>12, <1>13, <1>14, <1>15, <1>16, <1>17, <1>18, <1>19, <1>20, <1>21, <1>22, PSteps DEF PreserveStep

\* A table that was not there is made.
LEMMA MakeDest ==
  ASSUME SourceInv, LoopInv, DestInv, NEW rows, pc = "create", Make(rows),
         UNCHANGED <<tables, columns, done, registry, shown, db>>,
         pc' = "tables" \/ (pc' = "count" /\ cur' = cur)
  PROVE  DestInv'
<1>1. cur \in tables /\ cur \in TableName /\ cur \in registry
  BY DEF SourceInv, LoopInv, OnTable
<1>2. /\ astray' = astray \ {cur}
      /\ dest' = [dest EXCEPT ![cur] = [owner |-> "run", values |-> rows, classes |-> Classes(cur)]]
  BY DEF Make
<1>3. /\ DOMAIN dest' = TableName /\ dest'[cur].owner = "run" /\ dest'[cur].classes = Classes(cur)
      /\ \A t \in TableName \ {cur} : dest'[t] = dest[t]
  BY <1>1, <1>2 DEF DestInv
<1>4. Made' \subseteq Made \cup {cur} /\ \A t : Classes(t)' = Classes(t)
  BY ClassesStay DEF Made
<1> QED
  BY <1>1, <1>2, <1>3, <1>4
     DEF DestInv, Owner, BeforeLoop, TokenizingPcs, Publishing

LEMMA DestNext == SourceInv /\ LoopInv /\ DestInv /\ [Next]_vars => DestInv'
<1> SUFFICES ASSUME SourceInv, LoopInv, DestInv, [Next]_vars PROVE DestInv'
  OBVIOUS
<1> USE DEF DestInv, LoopInv, Made, Absent, Owner, BeforeLoop, OnDatabase, OnTable, AfterLoop, TokenizingPcs, Publishing, preserveVars, loopVars, mintVars, trustedVars, destVars, envVars, Proceed
<1>1. CASE InitStores /\ UNCHANGED preserveVars
  BY <1>1, ClassesStay DEF InitStores
<1>2. CASE Shape /\ UNCHANGED preserveVars
  BY <1>2, ClassesStay DEF Shape
<1>3. CASE Roster /\ UNCHANGED preserveVars
  BY <1>3, ClassesStay DEF Roster, Fail
<1>4. CASE Columns /\ UNCHANGED preserveVars
  BY <1>4, ClassesStay DEF Columns
<1>5. CASE InitTrusted
  BY <1>5, ClassesStay DEF InitTrusted
<1>6. CASE \E t \in todo : NextTable(t)
  BY <1>6, ClassesStay DEF NextTable
<1>7. CASE CheckDatabase
  BY <1>7, ClassesStay DEF CheckDatabase, GiveUp, Fail
<1>8. CASE RegisterDatabase
  BY <1>8, ClassesStay DEF RegisterDatabase
<1>9. CASE CreateDatabase
  BY <1>9, ClassesStay DEF CreateDatabase
<1>10. CASE Check
  BY <1>10, ClassesStay DEF Check, Skip, Found
<1>11. CASE Register
  BY <1>11, ClassesStay DEF Register
<1>12. CASE DropTable
  BY <1>12, ClassesStay DEF DropTable, Found
<1>13. CASE Create
  <2>1. PICK rows \in Readable : Make(rows)
    BY <1>13 DEF Create
  <2> QED
    BY <1>13, <2>1, MakeDest DEF Create
<1>14. CASE Count
  BY <1>14, ClassesStay DEF Count, Found
<1>15. CASE StatementFails
  <2>1. CASE UNCHANGED <<dest, astray>>
    BY <1>15, <2>1, ClassesStay DEF StatementFails, Skip
  <2>2. CASE ~UNCHANGED <<dest, astray>>
    <3>1. pc = "create" /\ \E rows \in Readable : \E part \in SUBSET rows : Make(part)
      BY <1>15, <2>2 DEF StatementFails
    <3>2. PICK part : Make(part)
      BY <3>1
    <3> QED
      BY <1>15, <3>1, <3>2, MakeDest DEF StatementFails, Skip
  <2> QED
    BY <2>1, <2>2
<1>16. CASE BeginMint
  BY <1>16, ClassesStay DEF BeginMint
<1>17. CASE \E a \in toMint : MintColumn(a)
  BY <1>17, ClassesStay DEF MintColumn
<1>18. CASE WriteIdentifiers
  BY <1>18, ClassesStay DEF WriteIdentifiers
<1>19. CASE WriteMaskingPlan
  BY <1>19, ClassesStay DEF WriteMaskingPlan
<1>20. CASE WriteRegistryRows
  <2>1. /\ UNCHANGED <<tables, columns, todo, cur, done, dest, astray, registry, db>>
        /\ pc = "registryRows" /\ pc' = "done"
        /\ DOMAIN shown' = DOMAIN shown \cup ListedColumns
    BY <1>20 DEF WriteRegistryRows
  <2>2. \A a \in ListedColumns : a[1] \in done /\ a \in TableName \X Name
    BY ClassNames DEF ListedColumns
  <2> QED
    BY <2>1, <2>2, ClassesStay
<1>21. CASE Idle
  BY <1>21, ClassesStay DEF Idle, Ended
<1>22. CASE Others
  <2>1. UNCHANGED <<tables, columns, todo, cur, done, pc, registry, shown>>
    BY <1>22 DEF Others, ChangeSource, ChangeTable, ChangeDatabase, catalogVars
  <2>2. Made' = Made /\ \A t : Classes(t)' = Classes(t)
    BY <2>1, ClassesStay
  <2>3. CASE \E t \in TableName : ChangeSource(t)
    BY <2>1, <2>2, <2>3 DEF ChangeSource
  <2>4. CASE \E t \in TableName : ChangeTable(t)
    BY <2>1, <2>2, <2>4 DEF ChangeTable
  <2>5. CASE ChangeDatabase
    <3>1. /\ dest' = [t \in TableName |-> Absent] /\ astray' = TableName
          /\ db' \in {"none", "other"}
      BY <2>5 DEF ChangeDatabase
    <3>2. Made \subseteq TableName
      BY DEF SourceInv
    <3>3. \A a \in DOMAIN shown' : a[1] \in TableName
      BY <2>1
    <3> QED
      BY <2>1, <2>2, <3>1, <3>2, <3>3
  <2> QED
    BY <1>22, <2>3, <2>4, <2>5 DEF Others
<1> QED
  BY <1>1, <1>2, <1>3, <1>4, <1>5, <1>6, <1>7, <1>8, <1>9, <1>10, <1>11, <1>12, <1>13, <1>14, <1>15, <1>16, <1>17, <1>18, <1>19, <1>20, <1>21, <1>22, PSteps DEF PreserveStep

LEMMA EarlierNext == SourceInv /\ LoopInv /\ DestInv /\ EarlierInv /\ [Next]_vars => EarlierInv'
<1> SUFFICES ASSUME SourceInv, LoopInv, DestInv, EarlierInv, [Next]_vars PROVE EarlierInv'
  OBVIOUS
<1> USE DEF EarlierInv, DestInv, RowFits, TokensKnown, Absent, Made, BeforeLoop, OnDatabase, OnTable, AfterLoop, TokenizingPcs, Publishing, preserveVars, loopVars, mintVars, trustedVars, destVars, envVars, Proceed
<1>1. CASE InitStores /\ UNCHANGED preserveVars
  BY <1>1 DEF InitStores
<1>2. CASE Shape /\ UNCHANGED preserveVars
  BY <1>2 DEF Shape
<1>3. CASE Roster /\ UNCHANGED preserveVars
  BY <1>3 DEF Roster, Fail
<1>4. CASE Columns /\ UNCHANGED preserveVars
  BY <1>4 DEF Columns
<1>5. CASE InitTrusted
  BY <1>5 DEF InitTrusted
<1>6. CASE \E t \in todo : NextTable(t)
  BY <1>6 DEF NextTable
<1>7. CASE CheckDatabase
  BY <1>7 DEF CheckDatabase, GiveUp, Fail
<1>8. CASE RegisterDatabase
  BY <1>8 DEF RegisterDatabase
<1>9. CASE CreateDatabase
  BY <1>9 DEF CreateDatabase
<1>10. CASE Check
  BY <1>10 DEF Check, Skip
<1>11. CASE Register
  BY <1>11 DEF Register
<1>12. CASE DropTable
  BY <1>12 DEF DropTable
<1>13. CASE Create
  BY <1>13 DEF Create, Make
<1>14. CASE Count
  BY <1>14 DEF Count
<1>15. CASE StatementFails
  BY <1>15 DEF StatementFails, Skip, Make
<1>16. CASE BeginMint
  BY <1>16 DEF BeginMint
<1>17. CASE \E a \in toMint : MintColumn(a)
  BY <1>17 DEF MintColumn
<1>18. CASE WriteIdentifiers
  BY <1>18 DEF WriteIdentifiers
<1>19. CASE WriteMaskingPlan
  BY <1>19 DEF WriteMaskingPlan
<1>20. CASE WriteRegistryRows
  <2>1. UNCHANGED <<dest, astray, identifiers>> /\ pc = "registryRows"
    BY <1>20 DEF WriteRegistryRows
  <2>2. /\ DOMAIN shown' = DOMAIN shown \cup ListedColumns
        /\ \A a \in DOMAIN shown \ ListedColumns : shown'[a] = shown[a]
    BY <1>20 DEF WriteRegistryRows
  <2>3. \A a \in ListedColumns : a[1] \in Made
    BY DEF ListedColumns
  <2>4. \A a \in ListedColumns : a[1] \notin astray => dest[a[1]].owner # "earlier"
    BY <2>3
  <2>5. \A a \in DOMAIN shown : a = <<a[1], a[2]>>
    OBVIOUS
  <2> QED
    BY <2>1, <2>2, <2>4, <2>5
<1>21. CASE Idle
  BY <1>21 DEF Idle, Ended
<1>22. CASE Others
  BY <1>22 DEF Others, ChangeSource, ChangeTable, ChangeDatabase, catalogVars, Ended
<1> QED
  BY <1>1, <1>2, <1>3, <1>4, <1>5, <1>6, <1>7, <1>8, <1>9, <1>10, <1>11, <1>12, <1>13, <1>14, <1>15, <1>16, <1>17, <1>18, <1>19, <1>20, <1>21, <1>22, PSteps DEF PreserveStep

LEMMA GuideNext == LoopInv /\ GuideInv /\ [Next]_vars => GuideInv'
<1> SUFFICES ASSUME LoopInv, GuideInv, [Next]_vars PROVE GuideInv'
  OBVIOUS
<1> USE DEF GuideInv, LoopInv, ListedColumns, Plans, BeforeLoop, OnDatabase, OnTable, AfterLoop, TokenizingPcs, Publishing, preserveVars, loopVars, mintVars, trustedVars, destVars, envVars, Proceed
<1>1. CASE InitStores /\ UNCHANGED preserveVars
  BY <1>1, ClassesStay DEF InitStores
<1>2. CASE Shape /\ UNCHANGED preserveVars
  BY <1>2, ClassesStay DEF Shape
<1>3. CASE Roster /\ UNCHANGED preserveVars
  BY <1>3, ClassesStay DEF Roster, Fail
<1>4. CASE Columns /\ UNCHANGED preserveVars
  BY <1>4, ClassesStay DEF Columns
<1>5. CASE InitTrusted
  BY <1>5, ClassesStay DEF InitTrusted
<1>6. CASE \E t \in todo : NextTable(t)
  BY <1>6, ClassesStay DEF NextTable
<1>7. CASE CheckDatabase
  BY <1>7, ClassesStay DEF CheckDatabase, GiveUp, Fail
<1>8. CASE RegisterDatabase
  BY <1>8, ClassesStay DEF RegisterDatabase
<1>9. CASE CreateDatabase
  BY <1>9, ClassesStay DEF CreateDatabase
<1>10. CASE Check
  BY <1>10, ClassesStay DEF Check, Skip
<1>11. CASE Register
  BY <1>11, ClassesStay DEF Register
<1>12. CASE DropTable
  BY <1>12, ClassesStay DEF DropTable
<1>13. CASE Create
  BY <1>13, ClassesStay DEF Create, Make
<1>14. CASE Count
  BY <1>14, ClassesStay DEF Count
<1>15. CASE StatementFails
  BY <1>15, ClassesStay DEF StatementFails, Skip, Make
<1>16. CASE BeginMint
  BY <1>16, ClassesStay DEF BeginMint
<1>17. CASE \E a \in toMint : MintColumn(a)
  BY <1>17, ClassesStay DEF MintColumn
<1>18. CASE WriteIdentifiers
  BY <1>18, ClassesStay DEF WriteIdentifiers
<1>19. CASE WriteMaskingPlan
  BY <1>19, ClassesStay DEF WriteMaskingPlan
<1>20. CASE WriteRegistryRows
  BY <1>20, ClassesStay DEF WriteRegistryRows
<1>21. CASE Idle
  BY <1>21, ClassesStay DEF Idle, Ended
<1>22. CASE Others
  BY <1>22, ClassesStay DEF Others, ChangeSource, ChangeTable, ChangeDatabase, catalogVars, Ended
<1> QED
  BY <1>1, <1>2, <1>3, <1>4, <1>5, <1>6, <1>7, <1>8, <1>9, <1>10, <1>11, <1>12, <1>13, <1>14, <1>15, <1>16, <1>17, <1>18, <1>19, <1>20, <1>21, <1>22, PSteps DEF PreserveStep

LEMMA ValuesNext == SourceInv /\ LoopInv /\ DestInv /\ ValuesInv /\ [Next]_vars => ValuesInv'
<1> SUFFICES ASSUME SourceInv, LoopInv, DestInv, ValuesInv, [Next]_vars PROVE ValuesInv'
  OBVIOUS
<1> USE DEF ValuesInv, DestInv, Absent, BeforeLoop, OnDatabase, OnTable, AfterLoop, TokenizingPcs, Publishing, preserveVars, loopVars, mintVars, trustedVars, destVars, envVars, Proceed
<1>1. CASE InitStores /\ UNCHANGED preserveVars
  BY <1>1 DEF InitStores
<1>2. CASE Shape /\ UNCHANGED preserveVars
  BY <1>2 DEF Shape
<1>3. CASE Roster /\ UNCHANGED preserveVars
  BY <1>3 DEF Roster, Fail
<1>4. CASE Columns /\ UNCHANGED preserveVars
  BY <1>4 DEF Columns
<1>5. CASE InitTrusted
  BY <1>5 DEF InitTrusted
<1>6. CASE \E t \in todo : NextTable(t)
  BY <1>6 DEF NextTable
<1>7. CASE CheckDatabase
  BY <1>7 DEF CheckDatabase, GiveUp, Fail
<1>8. CASE RegisterDatabase
  BY <1>8 DEF RegisterDatabase
<1>9. CASE CreateDatabase
  BY <1>9 DEF CreateDatabase
<1>10. CASE Check
  BY <1>10 DEF Check, Skip
<1>11. CASE Register
  BY <1>11 DEF Register
<1>12. CASE DropTable
  BY <1>12 DEF DropTable
<1>13. CASE Create
  <2>1. PICK rows \in Readable : Make(rows)
    BY <1>13 DEF Create
  <2> QED
    BY <1>13, <2>1 DEF Create, Make, Readable
<1>14. CASE Count
  BY <1>14 DEF Count
<1>15. CASE StatementFails
  <2>1. CASE UNCHANGED <<dest, astray>>
    BY <1>15, <2>1 DEF StatementFails, Skip
  <2>2. CASE ~UNCHANGED <<dest, astray>>
    <3>1. \E rows \in Readable : \E part \in SUBSET rows : Make(part)
      BY <1>15, <2>2 DEF StatementFails
    <3>2. PICK rows \in Readable : \E part \in SUBSET rows : Make(part)
      BY <3>1
    <3>3. PICK part \in SUBSET rows : Make(part)
      BY <3>2
    <3> QED
      BY <1>15, <3>2, <3>3 DEF StatementFails, Skip, Make, Readable
  <2> QED
    BY <2>1, <2>2
<1>16. CASE BeginMint
  BY <1>16 DEF BeginMint
<1>17. CASE \E a \in toMint : MintColumn(a)
  BY <1>17 DEF MintColumn
<1>18. CASE WriteIdentifiers
  BY <1>18 DEF WriteIdentifiers
<1>19. CASE WriteMaskingPlan
  BY <1>19 DEF WriteMaskingPlan
<1>20. CASE WriteRegistryRows
  BY <1>20 DEF WriteRegistryRows
<1>21. CASE Idle
  BY <1>21 DEF Idle, Ended
<1>22. CASE Others
  BY <1>22 DEF Others, ChangeSource, ChangeTable, ChangeDatabase, catalogVars, Ended
<1> QED
  BY <1>1, <1>2, <1>3, <1>4, <1>5, <1>6, <1>7, <1>8, <1>9, <1>10, <1>11, <1>12, <1>13, <1>14, <1>15, <1>16, <1>17, <1>18, <1>19, <1>20, <1>21, <1>22, PSteps DEF PreserveStep

LEMMA MintedNext == SourceInv /\ DestInv /\ ValuesInv /\ MintedInv /\ [Next]_vars => MintedInv'
<1> SUFFICES ASSUME SourceInv, DestInv, ValuesInv, MintedInv, [Next]_vars PROVE MintedInv'
  OBVIOUS
<1> USE DEF MintedInv, DestInv, BeforeLoop, OnDatabase, OnTable, AfterLoop, TokenizingPcs, Publishing, preserveVars, loopVars, mintVars, trustedVars, destVars, envVars, Proceed
<1>1. CASE InitStores /\ UNCHANGED preserveVars
  BY <1>1, ClassesStay, MintColumnsStay DEF InitStores
<1>2. CASE Shape /\ UNCHANGED preserveVars
  BY <1>2, ClassesStay, MintColumnsStay DEF Shape
<1>3. CASE Roster /\ UNCHANGED preserveVars
  BY <1>3, ClassesStay, MintColumnsStay DEF Roster, Fail
<1>4. CASE Columns /\ UNCHANGED preserveVars
  BY <1>4, ClassesStay, MintColumnsStay DEF Columns
<1>5. CASE InitTrusted
  BY <1>5, ClassesStay, MintColumnsStay DEF InitTrusted
<1>6. CASE \E t \in todo : NextTable(t)
  BY <1>6, ClassesStay, MintColumnsStay DEF NextTable
<1>7. CASE CheckDatabase
  BY <1>7, ClassesStay, MintColumnsStay DEF CheckDatabase, GiveUp, Fail
<1>8. CASE RegisterDatabase
  BY <1>8, ClassesStay, MintColumnsStay DEF RegisterDatabase
<1>9. CASE CreateDatabase
  BY <1>9, ClassesStay, MintColumnsStay DEF CreateDatabase
<1>10. CASE Check
  BY <1>10, ClassesStay, MintColumnsStay DEF Check, Skip
<1>11. CASE Register
  BY <1>11, ClassesStay, MintColumnsStay DEF Register
<1>12. CASE DropTable
  BY <1>12, ClassesStay, MintColumnsStay DEF DropTable
<1>13. CASE Create
  BY <1>13, ClassesStay, MintColumnsStay DEF Create, Make
<1>14. CASE Count
  BY <1>14, ClassesStay, MintColumnsStay DEF Count
<1>15. CASE StatementFails
  BY <1>15, ClassesStay, MintColumnsStay DEF StatementFails, Skip, Make
<1>16. CASE BeginMint
  BY <1>16, ClassesStay, MintColumnsStay DEF BeginMint
<1>17. CASE \E a \in toMint : MintColumn(a)
  <2>1. PICK b \in toMint :
          /\ toMint' = toMint \ {b} /\ pc = "mint" /\ pc' = "mint"
          /\ \/ minted' = minted \cup ({MintKind(b[1], b[2])} \X source[b[1]]) /\ unminted' = unminted
             \/ minted' = minted /\ unminted' = unminted \cup {b}
    BY <1>17 DEF MintColumn
  <2>2. UNCHANGED <<cfg, tables, columns, dest, gone>>
    BY <1>17 DEF MintColumn
  <2>3. MintColumns' = MintColumns /\ \A t, n : MintKind(t, n)' = MintKind(t, n)
    BY <2>2, ClassesStay, MintColumnsStay
  <2>4. \A a \in MintColumns : a[1] \in TableName
    BY MintedTables
  <2>5. ASSUME ~cfg.cross, NEW a \in MintColumns, a \notin toMint' \cup unminted',
               dest[a[1]].owner = "run", NEW v \in dest[a[1]].values, v \notin gone[a[1]]
        PROVE  <<MintKind(a[1], a[2]), v>> \in minted'
    <3>1. CASE a \in toMint
      <4>1. a = b /\ minted' = minted \cup ({MintKind(b[1], b[2])} \X source[b[1]])
        BY <2>1, <2>5, <3>1
      <4>2. v \in source[a[1]]
        BY <2>4, <2>5 DEF ValuesInv
      <4> QED
        BY <4>1, <4>2
    <3>2. CASE a \notin toMint
      <4>1. a \notin unminted /\ minted \subseteq minted'
        BY <2>1, <2>5
      <4> QED
        BY <2>1, <2>5, <3>2, <4>1
    <3> QED
      BY <3>1, <3>2
  <2> QED
    BY <2>1, <2>2, <2>3, <2>5
<1>18. CASE WriteIdentifiers
  BY <1>18, ClassesStay, MintColumnsStay DEF WriteIdentifiers
<1>19. CASE WriteMaskingPlan
  BY <1>19, ClassesStay, MintColumnsStay DEF WriteMaskingPlan
<1>20. CASE WriteRegistryRows
  BY <1>20, ClassesStay, MintColumnsStay DEF WriteRegistryRows
<1>21. CASE Idle
  <2>1. /\ UNCHANGED <<cfg, tables, columns, dest, gone, toMint, unminted, minted, identifiers>>
        /\ \/ UNCHANGED pc
           \/ pc' = "failed"
           \/ pc \in TokenizingPcs /\ pc' \in TokenizingPcs \cup {"dry", "done", "failed"}
    BY <1>21 DEF Idle
  <2>2. MintColumns' = MintColumns /\ \A t, n : MintKind(t, n)' = MintKind(t, n)
    BY <2>1, ClassesStay, MintColumnsStay
  <2>3. \A a \in MintColumns : a[1] \in TableName
    BY MintedTables
  <2> QED
    BY <2>1, <2>2, <2>3
<1>22. CASE Others
  <2>1. UNCHANGED <<cfg, pc, tables, columns, toMint, unminted, minted, identifiers>>
    BY <1>22 DEF Others, ChangeSource, ChangeTable, ChangeDatabase, catalogVars
  <2>2. MintColumns' = MintColumns /\ \A t, n : MintKind(t, n)' = MintKind(t, n)
    BY <2>1, ClassesStay, MintColumnsStay
  <2>3. \A a \in MintColumns : a[1] \in TableName
    BY MintedTables
  <2>4. \A t \in TableName : dest'[t].owner = "run" => dest'[t] = dest[t] /\ gone[t] \subseteq gone'[t]
    <3>1. CASE \E t \in TableName : ChangeSource(t)
      BY <3>1 DEF ChangeSource, ValuesInv
    <3>2. CASE \E t \in TableName : ChangeTable(t)
      BY <3>2 DEF ChangeTable, Absent
    <3>3. CASE ChangeDatabase
      BY <3>3 DEF ChangeDatabase, Absent
    <3> QED
      BY <1>22, <3>1, <3>2, <3>3 DEF Others
  <2> QED
    BY <2>1, <2>2, <2>3, <2>4
<1> QED
  BY <1>1, <1>2, <1>3, <1>4, <1>5, <1>6, <1>7, <1>8, <1>9, <1>10, <1>11, <1>12, <1>13, <1>14, <1>15, <1>16, <1>17, <1>18, <1>19, <1>20, <1>21, <1>22, PSteps DEF PreserveStep

-----------------------------------------------------------------------------
(* The theorems.                                                           *)

LEMMA PreserveInvInit == Init => PreserveInv
<1> SUFFICES ASSUME Init PROVE PreserveInv
  OBVIOUS
<1> USE DEF Init, PreserveInit, CatalogInit, LeftBehind
<1>1. SourceInv
  BY InvInit DEF Inv
<1>2. LoopInv
  BY DEF LoopInv, BeforeLoop, OnDatabase, OnTable, TokenizingPcs, Publishing
<1>3. DestInv
  <2>1. Made = {} /\ \A t \in TableName : dest[t].owner \in Owner \ {"run"}
    BY DEF Made
  <2>2. \A a \in DOMAIN shown : a[1] \notin astray => dest[a[1]].owner # "other"
    BY DEF RowFits
  <2> QED
    BY <2>1, <2>2 DEF DestInv, Owner
<1>4. EarlierInv
  BY DEF EarlierInv
<1>5. GuideInv /\ ValuesInv /\ MintedInv
  BY DEF GuideInv, ValuesInv, MintedInv, AfterLoop, BeforeLoop, TokenizingPcs, Publishing
<1> QED
  BY <1>1, <1>2, <1>3, <1>4, <1>5 DEF PreserveInv

LEMMA PreserveInvariance == Spec => []PreserveInv
<1>1. PreserveInv /\ [Next]_vars => PreserveInv'
  BY SourceNext, LoopNext, DestNext, EarlierNext, GuideNext, ValuesNext, MintedNext DEF PreserveInv
<1> QED
  BY <1>1, PreserveInvInit, PTL DEF Spec

\* Cleanup finds the database and every table a run has made, whatever failed
\* on the way and whatever others do meanwhile.
THEOREM MadeAreRegistered == Spec => []MadeIsRegistered
<1>1. PreserveInv => MadeIsRegistered
  BY DEF PreserveInv, DestInv, MadeIsRegistered
<1> QED
  BY <1>1, PreserveInvariance, PTL

\* What the run itself does to a sandbox table: it drops the one the loop is
\* at, or makes one that was not there.
LEMMA DestSteps ==
  ASSUME LoopInv, [Next]_vars, changes' = changes
  PROVE  UNCHANGED dest \/ DropTable \/ \E rows : Make(rows)
<1> USE DEF preserveVars, loopVars, mintVars, trustedVars, destVars, envVars
<1>1. CASE InitStores /\ UNCHANGED preserveVars
  BY <1>1
<1>2. CASE Shape /\ UNCHANGED preserveVars
  BY <1>2
<1>3. CASE Roster /\ UNCHANGED preserveVars
  BY <1>3
<1>4. CASE Columns /\ UNCHANGED preserveVars
  BY <1>4
<1>5. CASE InitTrusted
  BY <1>5 DEF InitTrusted
<1>6. CASE \E t \in todo : NextTable(t)
  BY <1>6 DEF NextTable
<1>7. CASE CheckDatabase
  BY <1>7 DEF CheckDatabase
<1>8. CASE RegisterDatabase
  BY <1>8 DEF RegisterDatabase
<1>9. CASE CreateDatabase
  BY <1>9 DEF CreateDatabase
<1>10. CASE Check
  BY <1>10 DEF Check, Skip
<1>11. CASE Register
  BY <1>11 DEF Register
<1>12. CASE DropTable
  BY <1>12
<1>13. CASE Create
  BY <1>13 DEF Create
<1>14. CASE Count
  BY <1>14 DEF Count
<1>15. CASE StatementFails
  BY <1>15 DEF StatementFails, Skip
<1>16. CASE BeginMint
  BY <1>16 DEF BeginMint
<1>17. CASE \E a \in toMint : MintColumn(a)
  BY <1>17 DEF MintColumn
<1>18. CASE WriteIdentifiers
  BY <1>18 DEF WriteIdentifiers
<1>19. CASE WriteMaskingPlan
  BY <1>19 DEF WriteMaskingPlan
<1>20. CASE WriteRegistryRows
  BY <1>20 DEF WriteRegistryRows
<1>21. CASE Idle
  BY <1>21 DEF Idle
<1>22. CASE Others
  BY <1>22 DEF Others, ChangeSource, ChangeTable, ChangeDatabase, LoopInv
<1> QED
  BY <1>1, <1>2, <1>3, <1>4, <1>5, <1>6, <1>7, <1>8, <1>9, <1>10, <1>11, <1>12, <1>13, <1>14, <1>15, <1>16, <1>17, <1>18, <1>19, <1>20, <1>21, <1>22, PSteps DEF PreserveStep

\* No step of a run drops or replaces a table of somebody else, whenever that
\* one appeared, unless its name was registered when the run began.
THEOREM ForeignTablesKept == Spec => ForeignKept
<1>1. ASSUME PreserveInv, [Next]_vars, changes' = changes, NEW t \in TableName,
             dest[t].owner = "other", t \notin before
      PROVE  dest'[t] = dest[t]
  <2>1. CASE DropTable
    <3>1. cur # t
      BY <1>1, <2>1 DEF PreserveInv, LoopInv, DropTable
    <3> QED
      BY <1>1, <2>1, <3>1 DEF PreserveInv, DestInv, DropTable
  <2>2. CASE \E rows : Make(rows)
    <3>1. cur # t
      BY <1>1, <2>2 DEF Make, Found
    <3> QED
      BY <1>1, <2>2, <3>1 DEF PreserveInv, DestInv, Make
  <2> QED
    BY <1>1, <2>1, <2>2, DestSteps DEF PreserveInv
<1>2. PreserveInv /\ [Next]_vars =>
        [changes' = changes =>
           \A t \in TableName : dest[t].owner = "other" /\ t \notin before => dest'[t] = dest[t]]_vars
  BY <1>1
<1> QED
  BY <1>2, PreserveInvariance, PTL DEF Spec, ForeignKept

\* Rows of the guide that do not fit their table, of whichever run, are about
\* tables others or earlier runs have put in disorder, or that this run dropped
\* or remade and has not described yet; those of a complete run all fit.
THEOREM GuideDescribes == Spec => []GuideDescribesSandbox
<1>1. PreserveInv => GuideDescribesSandbox
  <2> SUFFICES ASSUME PreserveInv PROVE GuideDescribesSandbox
    OBVIOUS
  <2> USE DEF PreserveInv
  <2>1. ASSUME pc = "done", NEW a \in ListedColumns
        PROVE  /\ a \in DOMAIN shown /\ a[1] \in DOMAIN maskingPlan
               /\ maskingPlan[a[1]][a[2]] = shown[a]
               /\ a = <<a[1], a[2]>> /\ a[1] \in done /\ a[2] \in DOMAIN Classes(a[1])
               /\ shown[a] = Classes(a[1])[a[2]]
    <3>1. a = <<a[1], a[2]>> /\ a[1] \in done /\ a[2] \in DOMAIN Classes(a[1])
      BY DEF ListedColumns
    <3>2. maskingPlan = Plans /\ a \in DOMAIN shown /\ shown[a] = Classes(a[1])[a[2]]
      BY <2>1, <3>1 DEF GuideInv
    <3>3. ClassesOf(a[1], columns[a[1]])[a[2]] = Classes(a[1])[a[2]]
      BY <3>1, ClassesOfColumn DEF LoopInv
    <3> QED
      BY <3>1, <3>2, <3>3 DEF Plans
  <2>2. ASSUME NEW a \in DOMAIN shown, a[1] \notin astray, ~RowFits(a[1], a[2])
        PROVE  /\ dest[a[1]].owner \in {"none", "run"}
               /\ pc = "done" => a \notin ListedColumns
    <3>1. a[1] \in TableName
      BY DEF DestInv
    <3>2. dest[a[1]].owner \in {"none", "run"}
      BY <2>2, <3>1 DEF DestInv, EarlierInv, Owner
    <3>3. ASSUME pc = "done", a \in ListedColumns PROVE FALSE
      <4>1. a = <<a[1], a[2]>> /\ a[1] \in done /\ a[2] \in DOMAIN Classes(a[1])
              /\ shown[a] = Classes(a[1])[a[2]]
        BY <2>1, <3>3
      <4>2. dest[a[1]].owner = "run" /\ dest[a[1]].classes = Classes(a[1])
        BY <2>2, <3>1, <4>1 DEF DestInv, Made
      <4> QED
        BY <2>2, <4>1, <4>2 DEF RowFits
    <3> QED
      BY <3>2, <3>3
  <2> QED
    BY <2>1, <2>2 DEF GuideDescribesSandbox
<1> QED
  BY <1>1, PreserveInvariance, PTL

\* A token the guide lists can be turned back: always in the tables of earlier
\* runs, and on one cluster in those of this run, once the identifier map is
\* written, for every value that was still in the source when it was minted.
THEOREM GuideReversible == Spec => []GuideIsReversible
<1>1. PreserveInv => GuideIsReversible
  <2> SUFFICES ASSUME PreserveInv, NEW a \in DOMAIN shown, a[1] \notin astray,
                      a[2] \in DOMAIN dest[a[1]].classes
               PROVE  /\ dest[a[1]].owner = "earlier" => TokensKnown(a[1], a[2])
                      /\ /\ dest[a[1]].owner = "run" /\ ~cfg.cross /\ a \notin unminted
                         /\ pc \in {"maskingPlan", "registryRows", "done"}
                         /\ ShowsTokens(dest[a[1]].classes[a[2]])
                         => \A v \in dest[a[1]].values \ gone[a[1]] :
                              <<dest[a[1]].classes[a[2]].kind, v>> \in identifiers
    BY DEF GuideIsReversible
  <2> USE DEF PreserveInv
  <2> DEFINE t == a[1]
  <2> DEFINE n == a[2]
  <2>1. dest[t].owner = "earlier" => TokensKnown(t, n)
    BY DEF EarlierInv
  <2>2. ASSUME dest[t].owner = "run", ~cfg.cross, a \notin unminted,
               pc \in {"maskingPlan", "registryRows", "done"},
               ShowsTokens(dest[t].classes[n]),
               NEW v \in dest[t].values, v \notin gone[t]
        PROVE  <<dest[t].classes[n].kind, v>> \in identifiers
    <3>1. a = <<t, n>> /\ t \in TableName
      BY DEF DestInv
    <3>2. t \in tables /\ dest[t].classes = Classes(t)
      BY <2>2, <3>1 DEF DestInv
    <3>3. PICK c \in KeptColumns(t) : c.name = n /\ Classes(t)[n] = ClassOf(t, c)
      BY <3>2, ClassesOfColumn
    <3>4. c \in columns[t] /\ PreserveMints(ClassOf(t, c))
      BY <2>2, <3>2, <3>3 DEF KeptColumns, ShowsTokens, PreserveMints
    <3>5. a \in MintColumns
      BY <3>1, <3>2, <3>3, <3>4 DEF MintColumns
    <3>6. MintKind(t, n) = Classes(t)[n].kind
      <4>1. (CHOOSE x \in columns[t] : x.name = c.name) = c
        BY <3>2, <3>4, ColumnByName
      <4> QED
        BY <3>3, <4>1 DEF MintKind
    <3>7. toMint = {} /\ minted \subseteq identifiers
      BY <2>2 DEF MintedInv
    <3>8. <<MintKind(t, n), v>> \in minted
      BY <2>2, <3>5, <3>7 DEF MintedInv, AfterLoop
    <3> QED
      BY <3>2, <3>6, <3>7, <3>8
  <2> QED
    BY <2>1, <2>2
<1> QED
  BY <1>1, PreserveInvariance, PTL

-----------------------------------------------------------------------------
(* Types.                                                                  *)

\* What the other parts of the invariant do not say of the types.
StateInv ==
  /\ pc \in Pcs /\ qlog \in BOOLEAN /\ db \in Owner
  /\ why \in {"none", "stopped", "refused", "build", "unmapped", "leak", "foreign"}

LEMMA StateNext == StateInv /\ [Next]_vars => StateInv'
<1> SUFFICES ASSUME StateInv, [Next]_vars PROVE StateInv'
  OBVIOUS
<1> USE DEF StateInv, Pcs, Owner, Goto, Abort, Fail, Proceed, GiveUp
<1>1. CASE InitStores /\ UNCHANGED preserveVars
  BY <1>1 DEF InitStores, preserveVars, destVars
<1>2. CASE Shape /\ UNCHANGED preserveVars
  BY <1>2 DEF Shape, preserveVars, destVars
<1>3. CASE Roster /\ UNCHANGED preserveVars
  BY <1>3 DEF Roster, preserveVars, destVars
<1>4. CASE Columns /\ UNCHANGED preserveVars
  BY <1>4 DEF Columns, preserveVars, destVars
<1>5. CASE Relations /\ UNCHANGED preserveVars
  BY <1>5 DEF Relations, preserveVars, destVars
<1>6. CASE Mining /\ UNCHANGED preserveVars
  BY <1>6 DEF Mining, preserveVars, destVars
<1>7. CASE ObserveNames /\ UNCHANGED preserveVars
  BY <1>7 DEF ObserveNames, preserveVars, destVars
<1>8. CASE ObserveSQL /\ UNCHANGED preserveVars
  BY <1>8 DEF ObserveSQL, preserveVars, destVars
<1>9. CASE Build /\ UNCHANGED preserveVars
  BY <1>9 DEF Build, preserveVars, destVars
<1>10. CASE WritePlan /\ UNCHANGED preserveVars
  BY <1>10 DEF WritePlan, preserveVars, destVars
<1>11. CASE SandboxTables /\ UNCHANGED preserveVars
  BY <1>11 DEF SandboxTables, preserveVars, destVars
<1>12. CASE WriteMap /\ UNCHANGED preserveVars
  BY <1>12 DEF WriteMap, preserveVars, destVars
<1>13. CASE WriteProfile /\ UNCHANGED preserveVars
  BY <1>13 DEF WriteProfile, preserveVars, destVars
<1>14. CASE WriteGuide /\ UNCHANGED preserveVars
  BY <1>14 DEF WriteGuide, preserveVars, destVars
<1>15. CASE Verify /\ UNCHANGED preserveVars
  BY <1>15 DEF Verify, preserveVars, destVars
<1>16. CASE WriteManifest /\ UNCHANGED preserveVars
  BY <1>16 DEF WriteManifest, preserveVars, destVars
<1>17. CASE InitTrusted
  BY <1>17 DEF InitTrusted, loopVars, mintVars, trustedVars, destVars
<1>18. CASE \E t \in todo : NextTable(t)
  BY <1>18 DEF NextTable, loopVars, mintVars, trustedVars, destVars
<1>19. CASE CheckDatabase
  BY <1>19 DEF CheckDatabase, loopVars, mintVars, trustedVars, destVars
<1>20. CASE RegisterDatabase
  BY <1>20 DEF RegisterDatabase, loopVars, mintVars, trustedVars, destVars
<1>21. CASE CreateDatabase
  BY <1>21 DEF CreateDatabase, loopVars, mintVars, trustedVars, destVars
<1>22. CASE Check
  BY <1>22 DEF Check, Skip, loopVars, mintVars, trustedVars, destVars
<1>23. CASE Register
  BY <1>23 DEF Register, loopVars, mintVars, trustedVars, destVars
<1>24. CASE DropTable
  BY <1>24 DEF DropTable, loopVars, mintVars, trustedVars, destVars
<1>25. CASE Create
  BY <1>25 DEF Create, loopVars, mintVars, trustedVars, destVars
<1>26. CASE Count
  BY <1>26 DEF Count, loopVars, mintVars, trustedVars, destVars
<1>27. CASE StatementFails
  BY <1>27 DEF StatementFails, Skip, loopVars, mintVars, trustedVars, destVars
<1>28. CASE BeginMint
  BY <1>28 DEF BeginMint, loopVars, mintVars, trustedVars, destVars
<1>29. CASE \E a \in toMint : MintColumn(a)
  BY <1>29 DEF MintColumn, loopVars, mintVars, trustedVars, destVars
<1>30. CASE WriteIdentifiers
  BY <1>30 DEF WriteIdentifiers, loopVars, mintVars, trustedVars, destVars
<1>31. CASE WriteMaskingPlan
  BY <1>31 DEF WriteMaskingPlan, loopVars, mintVars, trustedVars, destVars
<1>32. CASE WriteRegistryRows
  BY <1>32 DEF WriteRegistryRows, loopVars, mintVars, trustedVars, destVars
<1>33. CASE Stopped
  BY <1>33 DEF Stopped, Stop, preserveVars, destVars
<1>34. CASE Others
  BY <1>34 DEF Others, ChangeSource, ChangeTable, ChangeDatabase, catalogVars, destVars
<1>35. CASE UNCHANGED vars
  BY <1>35 DEF vars, catalogVars, preserveVars, destVars
<1> QED
  BY <1>1, <1>2, <1>3, <1>4, <1>5, <1>6, <1>7, <1>8, <1>9, <1>10, <1>11, <1>12, <1>13, <1>14, <1>15, <1>16, <1>17, <1>18, <1>19, <1>20, <1>21, <1>22, <1>23, <1>24, <1>25, <1>26, <1>27, <1>28, <1>29, <1>30, <1>31, <1>32, <1>33, <1>34, <1>35 DEF Next, Run, Phase, TokenizeStep, PreserveStep

LEMMA MapTyped ==
  ASSUME SourceInv, MapInv
  PROVE  \A k \in Kind : \A n \in DOMAIN fwd[k] : fwd[k][n] \in Reserved \cup {n}
<1> SUFFICES ASSUME NEW k \in Kind, NEW n \in DOMAIN fwd[k]
             PROVE  fwd[k][n] \in Reserved \cup {n}
  OBVIOUS
<1>1. fwd = Built(cfg.key, values, keep)
  BY DEF MapInv
<1>2. n \in values[k] \cup keep[k]
        /\ fwd[k][n] = IF n \in keep[k] THEN n ELSE Minted(cfg.key, k, n, values[k])
  BY <1>1 DEF Built
<1>3. cfg.key \in Key /\ values[k] \subseteq Name
  BY DEF SourceInv, MapInv, Config, NameSets
<1>4. n \in values[k] => Minted(cfg.key, k, n, values[k]) \in Reserved
  BY <1>3, MintedReserved
<1> QED
  BY <1>2, <1>4

\* Every variable of a run has its type, whichever model it is.
THEOREM TypeCorrect == Spec => []TypeOK
<1>1. Init => StateInv
  BY DEF Init, CatalogInit, TokenizeInit, PreserveInit, LeftBehind, StateInv, Pcs, Owner
<1>2. Inv /\ PreserveInv /\ StateInv => TypeOK
  BY MapTyped DEF Inv, SourceInv, MapInv, PublishedInv, PreserveInv, LoopInv, DestInv, StateInv, TypeOK
<1> QED
  BY <1>1, <1>2, StateNext, Invariance, PreserveInvariance, PTL DEF Spec
=============================================================================
