------------------------------ MODULE Catalog ------------------------------
(***************************************************************************)
(* What both anonymization models do first: read the shape of the source   *)
(* cluster, the tables of the source database and their columns            *)
(* (anon/internal/discover/catalog.go).  Every action is a statement on    *)
(* the source; the catalog may change between two of them.                 *)
(*                                                                         *)
(* Schema[t] describes the source table t:                                 *)
(*   engine, columns (a set of Masking's records), ddl and key (texts:     *)
(*   CREATE statement; sorting and partition key), detail (text: shard key *)
(*   or layout of a dictionary), target (<<db, tbl>> a Distributed or MaterializedView names),   *)
(*   refs (the <<db, tbl>> of FROM and JOIN), base (the table it is a test *)
(*   sibling of, by name).                                                 *)
(***************************************************************************)
EXTENDS IdMap

CONSTANTS
  Schema,      \* the tables of the source database
  Droppable,   \* tables that other users may drop while the run works
  SourceDbs,   \* values of --source-db
  DestDbs,     \* values of --dest-db besides the source's name
  MetaDb, DefaultDb, SystemDb,
  OtherSystemDbs  \* the other members of excludedDBs

TableName == DOMAIN Schema

\* The universal databases are no token lookalikes; the columns of a table
\* have different names.
ASSUME CatalogAssumption ==
  /\ {DefaultDb, SystemDb} \cup SourceDbs \subseteq Name
  /\ {DefaultDb, SystemDb} \cap Reserved = {}
  /\ \A t \in TableName : \A c, d \in Schema[t].columns : c.name = d.name => c = d

Tokenizing == "tokenizing"
Preserving == "schema-preserving"

VARIABLES
  cfg,      \* the Config of the process
  pc,       \* what Execute does next
  why,      \* the error it returned
  tables,   \* Run.Tables
  columns,  \* the columns of each of them
  qlog      \* the query log has rows in the window

catalogVars == <<cfg, pc, why, tables, columns, qlog>>

Config == [model : {Tokenizing, Preserving}, key : Key, sourceDb : SourceDbs,
           destDb : SourceDbs \cup DestDbs, cross : BOOLEAN, dryRun : BOOLEAN]

\* NewRun refuses a sandbox in the meta database.
Accepted(c) == c.destDb # MetaDb

\* The sandbox database has the source's name: that name is no secret.
Disclosed == cfg.destDb = cfg.sourceDb

CatalogInit ==
  /\ cfg \in {c \in Config : Accepted(c) /\ c.destDb \in {c.sourceDb} \cup DestDbs}
  /\ pc = IF cfg.model = Tokenizing /\ ~cfg.dryRun THEN "start" ELSE "shape"
  /\ why = "none"
  /\ tables = {} /\ columns = [t \in TableName |-> {}] /\ qlog = FALSE

EngineFamily(engine) ==
  CASE engine \in {"MergeTree", "ReplacingMergeTree", "SummingMergeTree"} -> "mergetree"
    [] engine = "Distributed" -> "distributed"
    [] engine = "MaterializedView" -> "mv"
    [] engine \in {"View", "LiveView"} -> "view"
    [] engine = "Dictionary" -> "dictionary"
    [] engine \in {"Kafka", "Null", "Buffer"} -> "infra"
    [] engine \in {"MySQL", "PostgreSQL", "URL", "S3"} -> "external"
    [] OTHER -> "other"

SandboxEligible(t) == EngineFamily(Schema[t].engine) \in {"mergetree", "distributed"}

Fail(reason) == pc' = "failed" /\ why' = reason

Ended == pc \in {"done", "dry", "failed"}

\* A statement fails for good (after the client's retry) or the process is
\* killed: what it wrote stays written.
Stop ==
  /\ ~Ended
  /\ Fail("stopped")
  /\ UNCHANGED <<cfg, tables, columns, qlog>>

-----------------------------------------------------------------------------

\* The tokenizing model creates its meta tables before it reads anything.
InitStores ==
  /\ pc = "start"
  /\ pc' = "shape"
  /\ UNCHANGED <<cfg, why, tables, columns, qlog>>

\* An unreadable query log is not an error.
Shape ==
  /\ pc = "shape"
  /\ pc' = "roster"
  /\ qlog' \in BOOLEAN
  /\ UNCHANGED <<cfg, why, tables, columns>>

SystemRefused ==
  \/ cfg.sourceDb \in OtherSystemDbs
  \/ cfg.sourceDb = SystemDb /\ cfg.model # Preserving

RosterRefused ==
  SystemRefused \/ cfg.sourceDb = MetaDb \/ cfg.sourceDb \in Reserved \/ TableName = {}

Roster ==
  /\ pc = "roster"
  /\ IF RosterRefused
     THEN Fail("refused") /\ UNCHANGED tables
     ELSE pc' = "columns" /\ tables' = TableName /\ UNCHANGED why
  /\ UNCHANGED <<cfg, columns, qlog>>

\* Mutant: the roster is read again for want of a table's columns.
ColumnsOfAll ==
  /\ pc = "columns"
  /\ \E gone \in SUBSET Droppable :
       /\ columns' = [t \in TableName |-> IF t \in tables \ gone THEN Schema[t].columns ELSE {}]
       /\ pc' = CASE gone # {} -> "roster"
                  [] gone = {} /\ cfg.model = Tokenizing -> "relations"
                  [] gone = {} /\ cfg.model # Tokenizing /\ cfg.dryRun -> "dry"
                  [] OTHER -> "trusted"
  /\ UNCHANGED <<cfg, why, tables, qlog>>

\* A table dropped since the roster has no columns any more.
Columns ==
  /\ pc = "columns"
  /\ pc' = CASE cfg.model = Tokenizing -> "relations"
             [] cfg.model # Tokenizing /\ cfg.dryRun -> "dry"
             [] OTHER -> "trusted"
  /\ \E gone \in SUBSET Droppable :
       columns' = [t \in TableName |-> IF t \in tables \ gone THEN Schema[t].columns ELSE {}]
  /\ UNCHANGED <<cfg, why, tables, qlog>>
=============================================================================
