------------------------------ MODULE Tokenize ------------------------------
(***************************************************************************)
(* The tokenizing model (anon/internal/discover, Run.Execute): one process *)
(* reads the source catalog and query log, registers every identifier,     *)
(* builds the identifier map, and writes the sandbox, the profile, the     *)
(* schema guide and the manifest in terms of tokens.                       *)
(*                                                                         *)
(* This module is about which names and values go where.  The statements   *)
(* on the sandbox's objects, their retries and crashes are Sandbox's.  An  *)
(* action is one phase of Execute; a failing statement ends the run        *)
(* (Stop).  What is published is kept as the set of words it shows. *)
(***************************************************************************)
EXTENDS Catalog, Rewriter, Masking, FiniteSets

CONSTANTS
  Workload,      \* per table the query log may name: users, touched, shapes
  Clusters,      \* names in system.clusters
  ScanResults,   \* outcomes of an attribute-key scan: key -> AttrStats
  KeepAttrKeys,  \* --keep-attr-keys
  LongName,      \* names of at least four characters
  DdlVocab       \* vocabulary of every sandbox table's CREATE statement: its
                 \* clauses, its engine and the types masked columns get

\* What the source's texts are made of; the sandbox's own statements use the
\* SQL vocabulary only.
ASSUME TextAssumption ==
  /\ \A t \in TableName :
       /\ IsText(Schema[t].ddl) /\ IsText(Schema[t].key) /\ IsText(Schema[t].detail)
       /\ \A c \in Schema[t].columns : IsText(c.words)
  /\ \A t \in DOMAIN Workload : \A x \in Workload[t].shapes : IsText(x)
  /\ DdlVocab \subseteq Vocab

\* Where the names that are registered come from.
ASSUME NameAssumption ==
  /\ TableName \subseteq Name
  /\ \A t \in TableName :
       /\ \A c \in Schema[t].columns : c.name \in Name
       /\ \A i \in {1, 2} : Schema[t].target[i] \in Name \cup {NoName}
  /\ \A t \in DOMAIN Workload : Workload[t].users \cup Workload[t].touched \subseteq Name
  /\ \A stats \in ScanResults : DOMAIN stats \subseteq Name
  /\ NoName \notin LongName

VARIABLES
  rels,    \* Run.Relations
  hot,     \* Run.Hot
  keep, values, fwd,  \* Run.IdMap
  scans,   \* attrCache: attribute column -> whether scanned, and the outcome
  notes,   \* the names and tokens in Run.Notes
  built,   \* domain of Run.SandboxRows
  secret,  \* identifier_map on the source
  profile, \* words of the profile_* tables on the destination
  guide,   \* rows of schema_guide_data: table, column, class
  manifest \* words of the manifest row

foundVars     == <<rels, hot>>
mapVars       == <<keep, values, fwd>>
publishedVars == <<built, secret, profile, guide, manifest>>
tokenizeVars  == <<foundVars, mapVars, scans, notes, publishedVars>>

Unscanned == [ok |-> FALSE, stats |-> <<>>]
Outcomes  == {[ok |-> TRUE, stats |-> st] : st \in ScanResults}

AttrColumnsAmong(cols) == {c.name : c \in {x \in cols : Classify(x) = "attrmap"}}
AttrColumns   == UNION {{t} \X AttrColumnsAmong(columns[t]) : t \in tables}
AnyAttrColumn == UNION {{t} \X AttrColumnsAmong(Schema[t].columns) : t \in TableName}

TokenizeInit ==
  /\ rels = {} /\ hot = {} /\ notes = {}
  /\ keep = NothingObserved /\ values = NothingObserved
  /\ fwd = [k \in Kind |-> <<>>]
  /\ scans = [a \in AnyAttrColumn |-> Unscanned]
  /\ built = {} /\ secret = {} /\ profile = {} /\ guide = {} /\ manifest = {}

Goto(next) == pc' = next /\ UNCHANGED <<cfg, why, tables, columns, qlog>>
Abort(reason) == Fail(reason) /\ UNCHANGED <<cfg, tables, columns, qlog>>

-----------------------------------------------------------------------------
(* Phases 4 to 6: relations, workload, demotion.                           *)

Relation(kind, t, dst, detail) ==
  [kind |-> kind, src |-> t, dst |-> dst, detail |-> detail]

NoTable == <<NoName, NoName>>

\* FROM and JOIN referents that exist in the scope; an unqualified one is in
\* the view's own database.
ViewRefs(t) ==
  {Relation("view", t, <<cfg.sourceDb, n>>, <<>>) :
     n \in {m \in tables \ {t} : \E db \in {NoName, cfg.sourceDb} : <<db, m>> \in Schema[t].refs}}

RelationsOf(t) ==
  CASE Schema[t].engine = "Distributed" ->
         {Relation("dist_to", t, Schema[t].target, Schema[t].detail)}
    [] Schema[t].engine = "MaterializedView" ->
         {Relation("mv_to", t, Schema[t].target, <<>>)} \cup ViewRefs(t)
    [] Schema[t].engine \in {"View", "LiveView"} -> ViewRefs(t)
    [] OTHER -> {}

Dictionaries ==
  {Relation("dictionary", t, NoTable, Schema[t].detail) :
     t \in {u \in tables : Schema[u].engine = "Dictionary"}}

\* system.dictionaries may be unreadable: then there are none.
Relations ==
  /\ pc = "relations"
  /\ \E dicts \in {{}, Dictionaries} : rels' = dicts \cup UNION {RelationsOf(t) : t \in tables}
  /\ Goto("mining")
  /\ UNCHANGED <<hot, mapVars, scans, notes, publishedVars>>

\* Mutant: tables out of scope are not skipped.
InScopeAll(logged) == logged

\* The log names tables of any database; those out of scope are skipped.
InScope(logged) == logged \cap tables

Mining ==
  /\ pc = "mining"
  /\ IF qlog THEN \E logged \in SUBSET DOMAIN Workload : hot' = InScope(logged)
             ELSE UNCHANGED hot
  /\ Goto("observe")
  /\ UNCHANGED <<rels, mapVars, scans, notes, publishedVars>>

\* The table a review flag of demote names: the base of a test sibling, if it
\* is hot too.
FlaggedBases ==
  {Schema[t].base : t \in {u \in hot : Schema[u].base \in hot}}

-----------------------------------------------------------------------------
(* Observe and build.                                                      *)

OfKind(k, S) == {<<k, n>> : n \in S}

\* A scan that succeeded shows the keys of the column; custom ones get tokens.
CustomKeys(stats) == DOMAIN stats \ Semconv

ObservedFields(result) ==
  UNION {OfKind("field", CustomKeys(result[a].stats)) : a \in AttrColumns}

\* Names on both ends of a relation.
RelationNames(r) ==
  {<<"db", cfg.sourceDb>>, <<"tbl", r.src>>, <<"db", r.dst[1]>>, <<"tbl", r.dst[2]>>}

\* Mutant: the far ends of relations are taken for tables of the scope.
RelationSources(r) == {<<"db", cfg.sourceDb>>, <<"tbl", r.src>>}

RelationObserved(r) ==
  RelationNames(r) \cup IF r.kind = "dictionary" THEN {<<"dict", r.src>>} ELSE {}

WorkloadNames ==
  UNION {OfKind("user", Workload[t].users) \cup OfKind("col", Workload[t].touched) : t \in hot}

CatalogNames ==
  {<<"db", cfg.sourceDb>>} \cup OfKind("tbl", tables)
    \cup UNION {OfKind("col", {c.name : c \in columns[t]}) : t \in tables}

ScanNotes(result) ==
  UNION {{cfg.sourceDb, a[1], a[2]} : a \in {b \in AttrColumns : ~result[b].ok}}

KeptNames ==
  LET universal == KeepVerbatim(KeepVerbatim(keep, "db", DefaultDb), "db", SystemDb)
  IN  IF Disclosed THEN KeepVerbatim(universal, "db", cfg.sourceDb) ELSE universal

\* Wave 1: structured names.  A failed scan is noted, a failed read of
\* system.clusters is not.
ObserveNames ==
  /\ pc = "observe"
  /\ \E result \in [AttrColumns -> {Unscanned} \cup Outcomes], known \in {{}, Clusters} :
       /\ keep' = KeptNames
       /\ values' = ObserveAll(values, KeptNames,
            CatalogNames \cup WorkloadNames \cup OfKind("cluster", known)
              \cup ObservedFields(result) \cup UNION {RelationObserved(r) : r \in rels})
       /\ scans' = [a \in AnyAttrColumn |-> IF a \in AttrColumns THEN result[a] ELSE Unscanned]
       /\ notes' = notes \cup ScanNotes(result)
  /\ Goto("observeSql")
  /\ UNCHANGED <<foundVars, fwd, publishedVars>>

Texts == (UNION {{Schema[t].ddl, Schema[t].key} : t \in tables})
           \cup UNION {Workload[t].shapes : t \in hot}

\* Wave 2: the identifiers of SQL texts that wave 1 has not seen.
ObserveSQL ==
  /\ pc = "observeSql"
  /\ values' = ObserveAll(values, keep,
       OfKind("sql", (UNION {IdentifierWords(x) : x \in Texts})
                       \ KnownNames(values, keep, ProbedKinds)))
  /\ Goto("build")
  /\ UNCHANGED <<foundVars, keep, fwd, scans, notes, publishedVars>>

Build ==
  /\ pc = "build"
  /\ IF BuildFails(cfg.key, values)
     THEN Abort("build") /\ UNCHANGED fwd
     ELSE /\ fwd' = Built(cfg.key, values, keep)
          /\ Goto(IF cfg.dryRun THEN "dry" ELSE "plan")
  /\ UNCHANGED <<foundVars, keep, values, scans, notes, publishedVars>>

-----------------------------------------------------------------------------
(* The masking plan and the sandbox.                                       *)

\* Map returns an error for one of these names.
Unmapped(needed) == \E x \in needed : MapFails(fwd, x[1], x[2])

\* attrRolesFor answers from the cache where a scan has succeeded; otherwise
\* it scans again.
Rescanned(result) ==
  [a \in AnyAttrColumn |-> IF a \in AttrColumns /\ ~scans[a].ok THEN result[a] ELSE scans[a]]

Planned(now) == CatalogNames \cup ObservedFields(now)

\* The plan is stored with real names in the secret database.
WritePlan ==
  /\ pc = "plan"
  /\ \E result \in [{a \in AttrColumns : ~scans[a].ok} -> {Unscanned} \cup Outcomes] :
       LET now == Rescanned(result) IN
       /\ scans' = now
       /\ notes' = notes \cup ScanNotes(now)
       /\ IF Unmapped(Planned(now)) THEN Abort("unmapped") ELSE Goto("sandbox")
  /\ UNCHANGED <<foundVars, mapVars, publishedVars>>

KeysOfRole(stats, role) == {k \in DOMAIN stats : ClassifyAttrKey(k, stats[k]) = role}

\* The AttrMaskSpec of an attribute column.
SpecOf(a) ==
  LET stats == scans[a].stats IN
  [vocabulary |-> KeysOfRole(stats, "vocabulary") \cup KeepAttrKeys,
   measure    |-> KeysOfRole(stats, "measure"),
   custom     |-> [k \in CustomKeys(stats) |-> MapTo(fwd, "field", k)]]

IncludedColumns(t) == {c \in columns[t] : Included(c)}

Materialized == {t \in tables : SandboxEligible(t) /\ IncludedColumns(t) # {}}

WordsOf(text) == {x.name : x \in {y \in ToSet(text) : y.type \notin {"dot", "comment"}}}

\* A kept column has its own type in the sandbox table, word by word.
KeptTypeWords(t) ==
  UNION {WordsOf(c.words) : c \in {x \in columns[t] : Shown(Classify(x)) = "real"}}

\* Mutant: the sandbox table has its real name.
DdlWordsNamed(t) ==
  {cfg.destDb, t} \cup {MapTo(fwd, "col", c.name) : c \in IncludedColumns(t)}
    \cup KeptTypeWords(t) \cup DdlVocab

\* SHOW CREATE of the sandbox table.
DdlWords(t) ==
  {cfg.destDb, MapTo(fwd, "tbl", t)} \cup {MapTo(fwd, "col", c.name) : c \in IncludedColumns(t)}
    \cup KeptTypeWords(t) \cup DdlVocab

\* A table that fails to populate is noted and skipped.
SandboxTables ==
  /\ pc = "sandbox"
  /\ \E ok \in SUBSET Materialized :
       /\ built' = ok
       /\ notes' = notes \cup
            UNION {{cfg.destDb, MapTo(fwd, "tbl", t)} : t \in Materialized \ ok}
  /\ Goto("map")
  /\ UNCHANGED <<foundVars, mapVars, scans, secret, profile, guide, manifest>>

-----------------------------------------------------------------------------
(* The profile, the schema guide, verification and the manifest.           *)

WriteMap ==
  /\ pc = "map"
  /\ secret' = Pairs(fwd)
  /\ Goto("profile")
  /\ UNCHANGED <<foundVars, mapVars, scans, notes, built, profile, guide, manifest>>

\* Every name writeProfile maps.
ProfileNames ==
  CatalogNames \cup WorkloadNames \cup OfKind("tbl", hot) \cup OfKind("tbl", FlaggedBases)
    \cup UNION {RelationNames(r) : r \in rels}

ProfileTexts ==
  {r.detail : r \in rels}
    \cup (UNION {{Schema[t].key} \cup {c.words : c \in columns[t]} : t \in tables})
    \cup UNION {Workload[t].shapes : t \in hot}

\* outKey of every key of the scanned attribute columns.
AttrKeysShown ==
  UNION {{KeyShown(SpecOf(a), k) : k \in DOMAIN scans[a].stats} : a \in AttrColumns}

ProfileWords ==
  {MapTo(fwd, x[1], x[2]) : x \in ProfileNames}
    \cup AttrKeysShown \cup UNION {Rewritten(fwd, x) : x \in ProfileTexts}

WriteProfile ==
  /\ pc = "profile"
  /\ IF Unmapped(ProfileNames)
     THEN Abort("unmapped") /\ UNCHANGED profile
     ELSE Goto("guide") /\ profile' = ProfileWords
  /\ UNCHANGED <<foundVars, mapVars, scans, notes, built, secret, guide, manifest>>

\* Columns of every eligible table, whether or not it could be populated.  The
\* rows of attr_guide_data show the words of profile_attr_keys again.
GuideRows ==
  UNION {{[table |-> MapTo(fwd, "tbl", t), column |-> MapTo(fwd, "col", c.name),
           class |-> RegistryClassTokenizing(Classify(c))] :
            c \in {x \in columns[t] : RegistryClassTokenizing(Classify(x)) # "none"}} :
         t \in {u \in tables : SandboxEligible(u)}}

WriteGuide ==
  /\ pc = "guide"
  /\ guide' = GuideRows
  /\ Goto("verify")
  /\ UNCHANGED <<foundVars, mapVars, scans, notes, built, secret, profile, manifest>>

\* The names verify looks for in the DDL of a sandbox table.
NamesSought(t) ==
  ({t} \cup {c.name : c \in columns[t]} \cup IF Disclosed THEN {} ELSE {cfg.sourceDb})
    \cap LongName

FindLeak(t) == NamesSought(t) \cap DdlWords(t) # {}

\* Tables that have vanished are reported by their tokens.  Trusted tables on
\* the destination, like a failing statement, are a Stop.
Verify ==
  /\ pc = "verify"
  /\ IF \E t \in built : FindLeak(t)
     THEN Abort("leak") /\ UNCHANGED profile
     ELSE /\ \E vanished \in SUBSET (tables \cap Droppable) :
               profile' = profile \cup
                 UNION {{MapTo(fwd, "db", cfg.sourceDb), MapTo(fwd, "tbl", t)} : t \in vanished}
          /\ Goto("manifest")
  /\ UNCHANGED <<foundVars, mapVars, scans, notes, built, secret, guide, manifest>>

\* The completion marker: scope, dest_db and the notes of the whole run.
WriteManifest ==
  /\ pc = "manifest"
  /\ manifest' = {MapTo(fwd, "db", cfg.sourceDb), cfg.destDb} \cup notes
  /\ Goto("done")
  /\ UNCHANGED <<foundVars, mapVars, scans, notes, built, secret, profile, guide>>

TokenizeStep ==
  \/ Relations \/ Mining \/ ObserveNames \/ ObserveSQL \/ Build
  \/ WritePlan \/ SandboxTables \/ WriteMap
  \/ WriteProfile \/ WriteGuide \/ Verify \/ WriteManifest
=============================================================================
