-------------------------- MODULE RegisteredProofs --------------------------
(***************************************************************************)
(* More theorems about a tokenizing run: every name a phase maps was       *)
(* registered before the map was built, texts decode, attribute values are *)
(* gated by scans, and a run is refused as leaking for a reason.           *)
(***************************************************************************)
EXTENDS ExecuteProofs

\* The phases after the names, after the texts, and after the map.
Observed == {"observeSql", "build", "plan"} \cup Publishing
Searched == {"build", "plan"} \cup Publishing
Mapped   == {"plan"} \cup Publishing

TokenizingDone == pc = "done" /\ cfg.model = Tokenizing

\* The two models do not meet, and a run that failed does nothing more.
ModelInv ==
  /\ pc \in PreservePcs => cfg.model # Tokenizing
  /\ why # "none" => pc = "failed"

ScanInv ==
  /\ scans \in [AnyAttrColumn -> {Unscanned} \cup Outcomes]
  /\ pc \in BeforeRoster \cup PreservePcs \cup {"columns", "relations", "mining", "observe"} =>
       \A a \in AnyAttrColumn : scans[a] = Unscanned

Registered(k, n) == n = NoName \/ n \in values[k] \cup keep[k]

\* Wave 1 has registered what the profile and the plan will map.
NamesInv ==
  /\ \A k \in Kind \ {"db"} : keep[k] = {}
  /\ pc \in Observed => \A x \in ProfileNames : Registered(x[1], x[2])
  /\ pc \in {"observeSql", "build", "plan"} =>
       \A x \in ObservedFields(scans) : Registered(x[1], x[2])

\* Wave 2 has registered the identifiers of the texts.
WordsInv ==
  pc \in Searched \/ TokenizingDone =>
    \A text \in Texts : \A n \in IdentifierWords(text) :
      n \in values["sql"] \cup UNION {values[k] \cup keep[k] : k \in ProbedKinds}

BuiltInv ==
  /\ pc \in Mapped \/ TokenizingDone =>
       ~BuildFails(cfg.key, values) /\ fwd = Built(cfg.key, values, keep)
  /\ pc \in {"profile", "guide", "verify", "manifest"} \/ TokenizingDone => secret = Pairs(fwd)

RelInv ==
  \A r \in rels : r.src \in tables /\ r.dst[1] \in Name \cup {NoName} /\ r.dst[2] \in Name \cup {NoName}

FieldsMapped ==
  \A a \in AttrColumns : \A k \in CustomKeys(scans[a].stats) : ~MapFails(fwd, "field", k)

FieldsInv == pc = "done" => FieldsMapped

RegisteredInv ==
  /\ Inv
  /\ ModelInv /\ ScanInv /\ RelInv /\ NamesInv /\ WordsInv /\ BuiltInv /\ FieldsInv
  /\ UnmappedOnlyFields /\ LeakIsRealName

-----------------------------------------------------------------------------
(* Each part of the invariant is preserved.                                *)

LEMMA ModelNext == SourceInv /\ ModelInv /\ [Next]_vars => ModelInv'
<1> SUFFICES ASSUME SourceInv, ModelInv, [Next]_vars PROVE ModelInv'
  OBVIOUS
<1> USE DEF ModelInv, Observed, Searched, Mapped, Publishing, PreservePcs, BeforeRoster, TokenizingDone, Goto, Abort, Fail
<1>1. CASE InitStores /\ UNCHANGED tokenizeVars
  BY <1>1 DEF InitStores, publishedVars, tokenizeVars
<1>2. CASE Shape /\ UNCHANGED tokenizeVars
  BY <1>2 DEF Shape, publishedVars, tokenizeVars
<1>3. CASE Roster /\ UNCHANGED tokenizeVars
  BY <1>3 DEF Roster, publishedVars, tokenizeVars
<1>4. CASE Columns /\ UNCHANGED tokenizeVars
  BY <1>4 DEF Columns, SourceInv, Config, Tokenizing, Preserving
<1>5. CASE Relations
  BY <1>5 DEF Relations, publishedVars
<1>6. CASE Mining
  BY <1>6 DEF Mining, publishedVars
<1>7. CASE ObserveNames
  BY <1>7 DEF ObserveNames, publishedVars
<1>8. CASE ObserveSQL
  BY <1>8 DEF ObserveSQL, publishedVars
<1>9. CASE Build
  BY <1>9 DEF Build, publishedVars
<1>10. CASE WritePlan
  BY <1>10 DEF WritePlan, publishedVars
<1>11. CASE SandboxTables
  BY <1>11 DEF SandboxTables, publishedVars
<1>12. CASE WriteMap
  BY <1>12 DEF WriteMap, publishedVars
<1>13. CASE WriteProfile
  BY <1>13 DEF WriteProfile, publishedVars
<1>14. CASE WriteGuide
  BY <1>14 DEF WriteGuide, publishedVars
<1>15. CASE Verify
  BY <1>15 DEF Verify, publishedVars
<1>16. CASE WriteManifest
  BY <1>16 DEF WriteManifest, publishedVars
<1>17. CASE Quiet
  BY <1>17 DEF Quiet, tokenizeVars, publishedVars
<1> QED
  BY <1>1, <1>2, <1>3, <1>4, <1>5, <1>6, <1>7, <1>8, <1>9, <1>10, <1>11, <1>12, <1>13, <1>14, <1>15, <1>16, <1>17, Steps DEF TokenizeStep

LEMMA ScanNext == ScanInv /\ [Next]_vars => ScanInv'
<1> SUFFICES ASSUME ScanInv, [Next]_vars PROVE ScanInv'
  OBVIOUS
<1> USE DEF ScanInv, Observed, Searched, Mapped, Publishing, PreservePcs, BeforeRoster, TokenizingDone, Goto, Abort, Fail
<1>1. CASE InitStores /\ UNCHANGED tokenizeVars
  BY <1>1 DEF InitStores, publishedVars, tokenizeVars
<1>2. CASE Shape /\ UNCHANGED tokenizeVars
  BY <1>2 DEF Shape, publishedVars, tokenizeVars
<1>3. CASE Roster /\ UNCHANGED tokenizeVars
  BY <1>3 DEF Roster, publishedVars, tokenizeVars
<1>4. CASE Columns /\ UNCHANGED tokenizeVars
  BY <1>4 DEF Columns, publishedVars, tokenizeVars
<1>5. CASE Relations
  BY <1>5 DEF Relations, publishedVars
<1>6. CASE Mining
  BY <1>6 DEF Mining, publishedVars
<1>7. CASE ObserveNames
  <2>1. PICK result \in [AttrColumns -> {Unscanned} \cup Outcomes] :
          scans' = [a \in AnyAttrColumn |-> IF a \in AttrColumns THEN result[a] ELSE Unscanned]
    BY <1>7 DEF ObserveNames
  <2>2. scans' \in [AnyAttrColumn -> {Unscanned} \cup Outcomes]
    BY <2>1
  <2> QED
    BY <1>7, <2>2 DEF ObserveNames
<1>8. CASE ObserveSQL
  BY <1>8 DEF ObserveSQL, publishedVars
<1>9. CASE Build
  BY <1>9 DEF Build, publishedVars
<1>10. CASE WritePlan
  <2>1. PICK result \in [{a \in AttrColumns : ~scans[a].ok} -> {Unscanned} \cup Outcomes] :
          scans' = Rescanned(result)
    BY <1>10 DEF WritePlan
  <2>2. Rescanned(result) \in [AnyAttrColumn -> {Unscanned} \cup Outcomes]
    BY DEF Rescanned
  <2> QED
    BY <1>10, <2>1, <2>2 DEF WritePlan
<1>11. CASE SandboxTables
  BY <1>11 DEF SandboxTables, publishedVars
<1>12. CASE WriteMap
  BY <1>12 DEF WriteMap, publishedVars
<1>13. CASE WriteProfile
  BY <1>13 DEF WriteProfile, publishedVars
<1>14. CASE WriteGuide
  BY <1>14 DEF WriteGuide, publishedVars
<1>15. CASE Verify
  BY <1>15 DEF Verify, publishedVars
<1>16. CASE WriteManifest
  BY <1>16 DEF WriteManifest, publishedVars
<1>17. CASE Quiet
  BY <1>17 DEF Quiet, tokenizeVars, publishedVars
<1> QED
  BY <1>1, <1>2, <1>3, <1>4, <1>5, <1>6, <1>7, <1>8, <1>9, <1>10, <1>11, <1>12, <1>13, <1>14, <1>15, <1>16, <1>17, Steps DEF TokenizeStep


\* Where a relation starts and what it names.
LEMMA RelationEnds ==
  ASSUME SourceInv, NEW x, x \in Dictionaries \/ \E t \in tables : x \in RelationsOf(t)
  PROVE  /\ x.src \in tables
         /\ x.dst[1] \in Name \cup {NoName} /\ x.dst[2] \in Name \cup {NoName}
<1> DEFINE OK(r) == /\ r.src \in tables
                    /\ r.dst[1] \in Name \cup {NoName} /\ r.dst[2] \in Name \cup {NoName}
<1>0. tables \subseteq TableName /\ tables \subseteq Name /\ cfg.sourceDb \in Name
  BY NameAssumption, CatalogAssumption DEF SourceInv, Config
<1>1. ASSUME NEW kind, NEW t \in tables, NEW dst, NEW d,
             dst[1] \in Name \cup {NoName}, dst[2] \in Name \cup {NoName}
      PROVE  OK(Relation(kind, t, dst, d))
  BY <1>1 DEF Relation
<1> HIDE DEF OK
<1>2. ASSUME NEW t \in tables, NEW y \in ViewRefs(t) PROVE OK(y)
  <2>1. PICK n \in tables : y = Relation("view", t, <<cfg.sourceDb, n>>, <<>>)
    BY Zenon DEF ViewRefs
  <2> QED
    BY <1>0, <1>1, <2>1
<1>3. ASSUME NEW t \in tables, NEW y \in RelationsOf(t) PROVE OK(y)
  <2>1. Schema[t].target[1] \in Name \cup {NoName} /\ Schema[t].target[2] \in Name \cup {NoName}
    BY <1>0, NameAssumption
  <2>2. \A kind, d : OK(Relation(kind, t, Schema[t].target, d))
    BY <1>1, <2>1
  <2> QED
    BY <1>2, <2>2 DEF RelationsOf
<1>4. ASSUME NEW y \in Dictionaries PROVE OK(y)
  <2>1. PICK t \in tables : y = Relation("dictionary", t, NoTable, Schema[t].detail)
    BY DEF Dictionaries
  <2>2. NoTable[1] = NoName /\ NoTable[2] = NoName
    BY DEF NoTable
  <2> QED
    BY <1>1, <2>1, <2>2
<1> QED
  BY <1>3, <1>4 DEF OK

LEMMA RelNext == SourceInv /\ RelInv /\ [Next]_vars => RelInv'
<1> SUFFICES ASSUME SourceInv, RelInv, [Next]_vars PROVE RelInv'
  OBVIOUS
<1> USE DEF SourceInv, RelInv, Observed, Searched, Mapped, Publishing, PreservePcs, BeforeRoster, TokenizingDone, Goto, Abort, Fail
<1>1. CASE InitStores /\ UNCHANGED tokenizeVars
  BY <1>1 DEF InitStores, foundVars, publishedVars, tokenizeVars
<1>2. CASE Shape /\ UNCHANGED tokenizeVars
  BY <1>2 DEF Shape, foundVars, publishedVars, tokenizeVars
<1>3. CASE Roster /\ UNCHANGED tokenizeVars
  BY <1>3 DEF Roster, foundVars, publishedVars, tokenizeVars
<1>4. CASE Columns /\ UNCHANGED tokenizeVars
  BY <1>4 DEF Columns, foundVars, publishedVars, tokenizeVars
<1>5. CASE Relations
  <2> DEFINE found == UNION {RelationsOf(t) : t \in tables}
  <2>1. PICK dicts \in {{}, Dictionaries} : rels' = dicts \cup found
    BY <1>5 DEF Relations
  <2> HIDE DEF found
  <2>2. ASSUME NEW x, x \in rels' PROVE x \in Dictionaries \/ \E t \in tables : x \in RelationsOf(t)
    <3>1. x \in dicts \/ x \in found
      BY <2>1, <2>2
    <3> QED
      BY <3>1 DEF found
  <2> QED
    BY <1>5, <2>2, RelationEnds DEF Relations
<1>6. CASE Mining
  BY <1>6 DEF Mining, foundVars, publishedVars
<1>7. CASE ObserveNames
  BY <1>7 DEF ObserveNames, foundVars, publishedVars
<1>8. CASE ObserveSQL
  BY <1>8 DEF ObserveSQL, foundVars, publishedVars
<1>9. CASE Build
  BY <1>9 DEF Build, foundVars, publishedVars
<1>10. CASE WritePlan
  BY <1>10 DEF WritePlan, foundVars, publishedVars
<1>11. CASE SandboxTables
  BY <1>11 DEF SandboxTables, foundVars, publishedVars
<1>12. CASE WriteMap
  BY <1>12 DEF WriteMap, foundVars, publishedVars
<1>13. CASE WriteProfile
  BY <1>13 DEF WriteProfile, foundVars, publishedVars
<1>14. CASE WriteGuide
  BY <1>14 DEF WriteGuide, foundVars, publishedVars
<1>15. CASE Verify
  BY <1>15 DEF Verify, foundVars, publishedVars
<1>16. CASE WriteManifest
  BY <1>16 DEF WriteManifest, foundVars, publishedVars
<1>17. CASE Quiet
  BY <1>17 DEF Quiet, tokenizeVars, foundVars, publishedVars
<1> QED
  BY <1>1, <1>2, <1>3, <1>4, <1>5, <1>6, <1>7, <1>8, <1>9, <1>10, <1>11, <1>12, <1>13, <1>14, <1>15, <1>16, <1>17, Steps DEF TokenizeStep

-----------------------------------------------------------------------------
(* Names are registered.                                                   *)

LEMMA ProfileNamesNamed ==
  ASSUME SourceInv, RelInv, NEW x \in ProfileNames
  PROVE  x = <<x[1], x[2]>> /\ x[1] \in Kind /\ x[2] \in Name \cup {NoName}
<1> DEFINE Named(y) == y = <<y[1], y[2]>> /\ y[1] \in Kind /\ y[2] \in Name \cup {NoName}
<1>0. cfg.sourceDb \in Name /\ tables \subseteq Name /\ hot \subseteq tables
  BY NameAssumption, CatalogAssumption DEF SourceInv, Config
<1>1. ASSUME NEW y \in CatalogNames PROVE Named(y)
  <2>1. \A t \in tables : \A c \in columns[t] : c.name \in Name
    BY NameAssumption DEF SourceInv
  <2> QED
    BY <1>0, <2>1 DEF CatalogNames, OfKind, Kind
<1>2. ASSUME NEW y \in WorkloadNames PROVE Named(y)
  <2>1. \A t \in hot : Workload[t].users \cup Workload[t].touched \subseteq Name
    BY NameAssumption DEF SourceInv
  <2> QED
    BY <2>1 DEF WorkloadNames, OfKind, Kind
<1>3. ASSUME NEW y \in OfKind("tbl", hot) \cup OfKind("tbl", FlaggedBases) PROVE Named(y)
  BY <1>0 DEF OfKind, FlaggedBases, Kind
<1>4. ASSUME NEW r \in rels, NEW y \in RelationNames(r) PROVE Named(y)
  BY <1>0 DEF RelInv, RelationNames, Kind
<1> HIDE DEF Named
<1>5. Named(x)
  BY <1>1, <1>2, <1>3, <1>4 DEF ProfileNames
<1> QED
  BY <1>5 DEF Named

LEMMA FieldsNamed ==
  ASSUME NEW result, \A a \in AttrColumns : result[a] \in {Unscanned} \cup Outcomes,
         NEW x \in ObservedFields(result)
  PROVE  x = <<"field", x[2]>> /\ x[2] \in Name
         /\ \E a \in AttrColumns : result[a].ok /\ x[2] \in CustomKeys(result[a].stats)
<1>1. PICK a \in AttrColumns : x \in OfKind("field", CustomKeys(result[a].stats))
  BY DEF ObservedFields
<1>2. PICK k \in CustomKeys(result[a].stats) : x = <<"field", k>>
  BY <1>1 DEF OfKind
<1>3. k \in DOMAIN result[a].stats
  BY DEF CustomKeys
<1>4. result[a] \in Outcomes
  BY <1>3 DEF Unscanned
<1>5. result[a].ok /\ k \in Name
  BY <1>3, <1>4, NameAssumption DEF Outcomes
<1> QED
  BY <1>2, <1>5

LEMMA ObserveRegisters ==
  ASSUME NEW K, NEW V, NEW S, NEW k \in Kind, NEW n \in Name \cup {NoName}, <<k, n>> \in S
  PROVE  n = NoName \/ n \in ObserveAll(V, K, S)[k] \cup K[k]
BY DEF ObserveAll

LEMMA ObserveGrows ==
  ASSUME NEW K, NEW V, NEW S, NEW k \in Kind
  PROVE  V[k] \subseteq ObserveAll(V, K, S)[k]
BY DEF ObserveAll

\* Wave 1 asks for every name of the profile, and for the keys it has scanned.
LEMMA ProfileNamesObserved ==
  ASSUME SourceInv
  PROVE  ProfileNames \subseteq
           CatalogNames \cup WorkloadNames \cup UNION {RelationObserved(r) : r \in rels}
<1>1. OfKind("tbl", hot) \cup OfKind("tbl", FlaggedBases) \subseteq CatalogNames
  BY DEF SourceInv, FlaggedBases, OfKind, CatalogNames
<1>2. \A r \in rels : RelationNames(r) \subseteq RelationObserved(r)
  BY DEF RelationObserved
<1> QED
  BY <1>1, <1>2 DEF ProfileNames

LEMMA AttrColumnsAny == SourceInv => AttrColumns \subseteq AnyAttrColumn
BY DEF SourceInv, AttrColumns, AnyAttrColumn, AttrColumnsAmong

LEMMA SameNames ==
  ASSUME UNCHANGED <<cfg, tables, columns, rels, hot>>
  PROVE  /\ ProfileNames' = ProfileNames /\ AttrColumns' = AttrColumns /\ Texts' = Texts
         /\ CatalogNames' = CatalogNames
<1>1. AttrColumns' = AttrColumns /\ Texts' = Texts /\ CatalogNames' = CatalogNames
  BY DEF AttrColumns, Texts, CatalogNames
<1>2. WorkloadNames' = WorkloadNames /\ FlaggedBases' = FlaggedBases
  BY DEF WorkloadNames, FlaggedBases
<1>3. \A r : RelationNames(r)' = RelationNames(r)
  BY DEF RelationNames
<1> QED
  BY <1>1, <1>2, <1>3 DEF ProfileNames

LEMMA StillNamed ==
  ASSUME NamesInv, UNCHANGED <<cfg, tables, columns, rels, hot, keep, values>>,
         pc' \in Observed => pc \in Observed,
         pc' \in {"observeSql", "build", "plan"} =>
           pc \in {"observeSql", "build", "plan"} /\ UNCHANGED scans
  PROVE  NamesInv'
<1>1. \A k, n : Registered(k, n)' <=> Registered(k, n)
  BY DEF Registered
<1>2. scans' = scans => ObservedFields(scans)' = ObservedFields(scans)
  BY SameNames DEF ObservedFields
<1> QED
  BY <1>1, <1>2, SameNames DEF NamesInv

\* Nothing is registered before wave 1.
LEMMA NotYetNamed ==
  ASSUME NamesInv, UNCHANGED keep, pc' \notin Observed
  PROVE  NamesInv'
BY DEF NamesInv, Observed

LEMMA NamesNext == SourceInv /\ MapInv /\ ScanInv /\ RelInv /\ NamesInv /\ [Next]_vars => NamesInv'
<1> SUFFICES ASSUME SourceInv, MapInv, ScanInv, RelInv, NamesInv, [Next]_vars PROVE NamesInv'
  OBVIOUS
<1> USE DEF Observed, Searched, Mapped, Publishing, PreservePcs, BeforeRoster, TokenizingDone, Goto, Abort, Fail
<1>1. CASE InitStores /\ UNCHANGED tokenizeVars
  BY <1>1, NotYetNamed DEF InitStores, tokenizeVars, mapVars
<1>2. CASE Shape /\ UNCHANGED tokenizeVars
  BY <1>2, NotYetNamed DEF Shape, tokenizeVars, mapVars
<1>3. CASE Roster /\ UNCHANGED tokenizeVars
  BY <1>3, NotYetNamed DEF Roster, tokenizeVars, mapVars
<1>4. CASE Columns /\ UNCHANGED tokenizeVars
  BY <1>4, NotYetNamed DEF Columns, tokenizeVars, mapVars
<1>5. CASE Relations
  BY <1>5, NotYetNamed DEF Relations, tokenizeVars, mapVars
<1>6. CASE Mining
  BY <1>6, NotYetNamed DEF Mining, tokenizeVars, mapVars
<1>7. CASE ObserveNames
  <2>1. PICK result \in [AttrColumns -> {Unscanned} \cup Outcomes], known \in {{}, Clusters} :
          /\ values' = ObserveAll(values, KeptNames,
               CatalogNames \cup WorkloadNames \cup OfKind("cluster", known)
                 \cup ObservedFields(result) \cup UNION {RelationObserved(r) : r \in rels})
          /\ scans' = [a \in AnyAttrColumn |-> IF a \in AttrColumns THEN result[a] ELSE Unscanned]
    BY <1>7 DEF ObserveNames
  <2>2. keep' = KeptNames /\ UNCHANGED <<cfg, tables, columns, rels, hot>>
    BY <1>7 DEF ObserveNames, foundVars
  <2>3. \A k \in Kind \ {"db"} : keep'[k] = {}
    <3>1. DOMAIN keep = Kind
      BY DEF MapInv, NameSets
    <3>2. ASSUME NEW K, DOMAIN K = Kind, NEW n
          PROVE  /\ DOMAIN KeepVerbatim(K, "db", n) = Kind
                 /\ \A k \in Kind \ {"db"} : KeepVerbatim(K, "db", n)[k] = K[k]
      BY <3>2 DEF KeepVerbatim
    <3> QED
      BY <2>2, <3>1, <3>2 DEF KeptNames, NamesInv
  <2>4. ASSUME NEW x \in ProfileNames PROVE Registered(x[1], x[2])'
    BY <2>1, <2>2, ProfileNamesObserved, ProfileNamesNamed, ObserveRegisters DEF Registered
  <2>5. ASSUME NEW x \in ObservedFields(result) PROVE Registered(x[1], x[2])'
    <3>1. x = <<"field", x[2]>> /\ x[2] \in Name
      BY FieldsNamed
    <3> QED
      BY <2>1, <2>2, <3>1, ObserveRegisters DEF Registered, Kind
  <2>6. ObservedFields(scans)' = ObservedFields(result)
    BY <2>1, <2>2, SameNames, AttrColumnsAny DEF ObservedFields
  <2> QED
    BY <1>7, <2>2, <2>3, <2>4, <2>5, <2>6, SameNames DEF ObserveNames, NamesInv
<1>8. CASE ObserveSQL
  <2>1. UNCHANGED <<cfg, tables, columns, rels, hot, keep, scans>>
    BY <1>8 DEF ObserveSQL, foundVars
  <2>2. \A k \in Kind : values[k] \subseteq values'[k]
    BY <1>8, ObserveGrows DEF ObserveSQL
  <2>3. \A k \in Kind : \A n : Registered(k, n) => Registered(k, n)'
    BY <2>1, <2>2 DEF Registered
  <2>4. \A x \in ProfileNames : x[1] \in Kind
    BY ProfileNamesNamed
  <2>5. \A x \in ObservedFields(scans) : x[1] \in Kind
    <3>1. \A a \in AttrColumns : scans[a] \in {Unscanned} \cup Outcomes
      BY AttrColumnsAny DEF ScanInv
    <3> QED
      BY <3>1, FieldsNamed DEF Kind
  <2>6. ObservedFields(scans)' = ObservedFields(scans)
    BY <2>1, SameNames DEF ObservedFields
  <2> QED
    BY <1>8, <2>1, <2>3, <2>4, <2>5, <2>6, SameNames DEF ObserveSQL, NamesInv
<1>9. CASE Build
  BY <1>9, StillNamed DEF Build, mapVars, foundVars
<1>10. CASE WritePlan
  BY <1>10, StillNamed DEF WritePlan, mapVars, foundVars
<1>11. CASE SandboxTables
  BY <1>11, StillNamed DEF SandboxTables, mapVars, foundVars
<1>12. CASE WriteMap
  BY <1>12, StillNamed DEF WriteMap, mapVars, foundVars
<1>13. CASE WriteProfile
  BY <1>13, StillNamed DEF WriteProfile, mapVars, foundVars
<1>14. CASE WriteGuide
  BY <1>14, StillNamed DEF WriteGuide, mapVars, foundVars
<1>15. CASE Verify
  BY <1>15, StillNamed DEF Verify, mapVars, foundVars
<1>16. CASE WriteManifest
  BY <1>16, StillNamed DEF WriteManifest, mapVars, foundVars
<1>17. CASE Quiet
  BY <1>17, StillNamed DEF Quiet, tokenizeVars, mapVars, foundVars
<1> QED
  BY <1>1, <1>2, <1>3, <1>4, <1>5, <1>6, <1>7, <1>8, <1>9, <1>10, <1>11, <1>12, <1>13, <1>14, <1>15, <1>16, <1>17, Steps DEF TokenizeStep


-----------------------------------------------------------------------------
(* Texts, map, fields.                                                     *)

LEMMA TextsAreTexts == SourceInv => \A text \in Texts : IsText(text)
<1> SUFFICES ASSUME SourceInv, NEW text \in Texts PROVE IsText(text)
  OBVIOUS
<1>1. \A t \in tables : IsText(Schema[t].ddl) /\ IsText(Schema[t].key)
  BY TextAssumption DEF SourceInv
<1>2. \A t \in hot : \A x \in Workload[t].shapes : IsText(x)
  BY TextAssumption DEF SourceInv
<1> QED
  BY <1>1, <1>2 DEF Texts

LEMMA IdentifiersNamed ==
  ASSUME NEW text, IsText(text), NEW n \in IdentifierWords(text)
  PROVE  n \in Name \ {NoName}
<1>1. PICK i \in DOMAIN text : n = text[i].name /\ text[i].type \in {"word", "quoted"}
  BY DEF IdentifierWords, ToSet
<1> QED
  BY <1>1 DEF IsText

LEMMA StillWords ==
  ASSUME WordsInv, UNCHANGED <<tables, hot, keep, values>>,
         (pc \in Searched \/ TokenizingDone)' => pc \in Searched \/ TokenizingDone
  PROVE  WordsInv'
<1>1. Texts' = Texts
  BY DEF Texts
<1> QED
  BY <1>1 DEF WordsInv

LEMMA NotYetWords == (pc \notin Searched /\ ~TokenizingDone)' => WordsInv'
BY DEF WordsInv

LEMMA WordsNext == SourceInv /\ ModelInv /\ NamesInv /\ WordsInv /\ [Next]_vars => WordsInv'
<1> SUFFICES ASSUME SourceInv, ModelInv, NamesInv, WordsInv, [Next]_vars PROVE WordsInv'
  OBVIOUS
<1> USE DEF Observed, Searched, Mapped, Publishing, PreservePcs, BeforeRoster, TokenizingDone, Goto, Abort, Fail
<1>1. CASE InitStores /\ UNCHANGED tokenizeVars
  BY <1>1, NotYetWords DEF InitStores, tokenizeVars, mapVars
<1>2. CASE Shape /\ UNCHANGED tokenizeVars
  BY <1>2, NotYetWords DEF Shape, tokenizeVars, mapVars
<1>3. CASE Roster /\ UNCHANGED tokenizeVars
  BY <1>3, NotYetWords DEF Roster, tokenizeVars, mapVars
<1>4. CASE Columns /\ UNCHANGED tokenizeVars
  BY <1>4, NotYetWords DEF Columns, tokenizeVars, mapVars
<1>5. CASE Relations
  BY <1>5, NotYetWords DEF Relations, tokenizeVars, mapVars
<1>6. CASE Mining
  BY <1>6, NotYetWords DEF Mining, tokenizeVars, mapVars
<1>7. CASE ObserveNames
  BY <1>7, NotYetWords DEF ObserveNames
<1>8. CASE ObserveSQL
  <2>1. UNCHANGED <<cfg, tables, columns, rels, hot, keep>>
    BY <1>8 DEF ObserveSQL, foundVars
  <2> DEFINE unknown == (UNION {IdentifierWords(x) : x \in Texts}) \ KnownNames(values, keep, ProbedKinds)
  <2>2. values' = ObserveAll(values, keep, OfKind("sql", unknown))
    BY <1>8 DEF ObserveSQL
  <2>3. ASSUME NEW text \in Texts, NEW n \in IdentifierWords(text)
        PROVE  n \in values'["sql"] \cup UNION {values'[k] \cup keep'[k] : k \in ProbedKinds}
    <3>1. n \in Name \ {NoName}
      BY TextsAreTexts, IdentifiersNamed
    <3>2. CASE n \in KnownNames(values, keep, ProbedKinds)
      <4>1. \A k \in Kind \ {"db"} : keep[k] = {}
        BY DEF NamesInv
      <4>2. "db" \in ProbedKinds /\ ProbedKinds \subseteq Kind
        BY DEF ProbedKinds, Probe, ToSet, Kind
      <4>3. PICK k \in ProbedKinds : n \in values[k] \cup keep[k]
        BY <3>2, <4>1, <4>2 DEF KnownNames
      <4>4. values[k] \subseteq values'[k]
        BY <2>2, <4>2, ObserveGrows
      <4> QED
        BY <2>1, <4>3, <4>4
    <3>3. CASE n \in unknown
      <4>1. <<"sql", n>> \in OfKind("sql", unknown) /\ "sql" \in Kind /\ keep["sql"] = {}
        BY <3>3 DEF OfKind, Kind, NamesInv
      <4> HIDE DEF unknown
      <4> QED
        BY <2>2, <3>1, <4>1, ObserveRegisters
    <3> QED
      BY <3>2, <3>3
  <2>4. Texts' = Texts
    BY <2>1, SameNames
  <2> QED
    BY <2>3, <2>4 DEF WordsInv
<1>9. CASE Build
  BY <1>9, StillWords DEF Build, mapVars, foundVars
<1>10. CASE WritePlan
  BY <1>10, StillWords DEF WritePlan, mapVars, foundVars
<1>11. CASE SandboxTables
  BY <1>11, StillWords DEF SandboxTables, mapVars, foundVars
<1>12. CASE WriteMap
  BY <1>12, StillWords DEF WriteMap, mapVars, foundVars
<1>13. CASE WriteProfile
  BY <1>13, StillWords DEF WriteProfile, mapVars, foundVars
<1>14. CASE WriteGuide
  BY <1>14, StillWords DEF WriteGuide, mapVars, foundVars
<1>15. CASE Verify
  BY <1>15, StillWords DEF Verify, mapVars, foundVars
<1>16. CASE WriteManifest
  BY <1>16, StillWords DEF WriteManifest, mapVars, foundVars
<1>17. CASE Quiet
  BY <1>17, StillWords DEF Quiet, tokenizeVars, mapVars, foundVars, ModelInv
<1> QED
  BY <1>1, <1>2, <1>3, <1>4, <1>5, <1>6, <1>7, <1>8, <1>9, <1>10, <1>11, <1>12, <1>13, <1>14, <1>15, <1>16, <1>17, Steps DEF TokenizeStep

LEMMA StillBuilt ==
  ASSUME BuiltInv, UNCHANGED <<cfg, values, keep, fwd, secret>>,
         (pc \in Mapped \/ TokenizingDone)' => pc \in Mapped \/ TokenizingDone,
         (pc \in {"profile", "guide", "verify", "manifest"} \/ TokenizingDone)' =>
           pc \in {"profile", "guide", "verify", "manifest"} \/ TokenizingDone
  PROVE  BuiltInv'
BY DEF BuiltInv

LEMMA NotYetBuilt == (pc \notin Mapped /\ ~TokenizingDone)' => BuiltInv'
BY DEF BuiltInv, Mapped, Publishing

LEMMA BuiltNext == ModelInv /\ BuiltInv /\ [Next]_vars => BuiltInv'
<1> SUFFICES ASSUME ModelInv, BuiltInv, [Next]_vars PROVE BuiltInv'
  OBVIOUS
<1> USE DEF Observed, Searched, Mapped, Publishing, PreservePcs, BeforeRoster, TokenizingDone, Goto, Abort, Fail
<1>1. CASE InitStores /\ UNCHANGED tokenizeVars
  BY <1>1, NotYetBuilt DEF InitStores
<1>2. CASE Shape /\ UNCHANGED tokenizeVars
  BY <1>2, NotYetBuilt DEF Shape
<1>3. CASE Roster /\ UNCHANGED tokenizeVars
  BY <1>3, NotYetBuilt DEF Roster
<1>4. CASE Columns /\ UNCHANGED tokenizeVars
  BY <1>4, NotYetBuilt DEF Columns
<1>5. CASE Relations
  BY <1>5, NotYetBuilt DEF Relations
<1>6. CASE Mining
  BY <1>6, NotYetBuilt DEF Mining
<1>7. CASE ObserveNames
  BY <1>7, NotYetBuilt DEF ObserveNames
<1>8. CASE ObserveSQL
  BY <1>8, NotYetBuilt DEF ObserveSQL
<1>9. CASE Build
  BY <1>9 DEF Build, BuiltInv
<1>10. CASE WritePlan
  BY <1>10, StillBuilt DEF WritePlan, mapVars, publishedVars
<1>11. CASE SandboxTables
  BY <1>11, StillBuilt DEF SandboxTables, mapVars
<1>12. CASE WriteMap
  <2>1. secret' = Pairs(fwd)'
    BY <1>12 DEF WriteMap, mapVars
  <2> QED
    BY <1>12, <2>1 DEF WriteMap, mapVars, BuiltInv
<1>13. CASE WriteProfile
  BY <1>13, StillBuilt DEF WriteProfile, mapVars
<1>14. CASE WriteGuide
  BY <1>14, StillBuilt DEF WriteGuide, mapVars
<1>15. CASE Verify
  BY <1>15, StillBuilt DEF Verify, mapVars
<1>16. CASE WriteManifest
  BY <1>16, StillBuilt DEF WriteManifest, mapVars
<1>17. CASE Quiet
  BY <1>17, StillBuilt DEF Quiet, tokenizeVars, mapVars, publishedVars, ModelInv
<1> QED
  BY <1>1, <1>2, <1>3, <1>4, <1>5, <1>6, <1>7, <1>8, <1>9, <1>10, <1>11, <1>12, <1>13, <1>14, <1>15, <1>16, <1>17, Steps DEF TokenizeStep

LEMMA FieldsArePlanned == PublishedInv /\ pc \in Publishing => FieldsMapped
BY PlanMapped DEF PublishedInv, FieldsMapped

LEMMA StillFields ==
  ASSUME FieldsMapped, UNCHANGED <<tables, columns, scans, fwd>>
  PROVE  FieldsMapped'
BY DEF FieldsMapped, AttrColumns

LEMMA FieldsNext == SourceInv /\ PublishedInv /\ ScanInv /\ FieldsInv /\ [Next]_vars => FieldsInv'
<1> SUFFICES ASSUME SourceInv, PublishedInv, ScanInv, FieldsInv, [Next]_vars PROVE FieldsInv'
  OBVIOUS
<1> USE DEF FieldsInv, Observed, Searched, Mapped, Publishing, PreservePcs, BeforeRoster, TokenizingDone, Goto, Abort, Fail
<1>1. CASE InitStores /\ UNCHANGED tokenizeVars
  BY <1>1 DEF InitStores, mapVars, tokenizeVars
<1>2. CASE Shape /\ UNCHANGED tokenizeVars
  BY <1>2 DEF Shape, mapVars, tokenizeVars
<1>3. CASE Roster /\ UNCHANGED tokenizeVars
  BY <1>3 DEF Roster, mapVars, tokenizeVars
<1>4. CASE Columns /\ UNCHANGED tokenizeVars
  BY <1>4 DEF Columns, mapVars, tokenizeVars
<1>5. CASE Relations
  BY <1>5 DEF Relations, mapVars
<1>6. CASE Mining
  BY <1>6 DEF Mining, mapVars
<1>7. CASE ObserveNames
  BY <1>7 DEF ObserveNames, mapVars
<1>8. CASE ObserveSQL
  BY <1>8 DEF ObserveSQL, mapVars
<1>9. CASE Build
  BY <1>9 DEF Build, mapVars
<1>10. CASE WritePlan
  BY <1>10 DEF WritePlan, mapVars
<1>11. CASE SandboxTables
  BY <1>11 DEF SandboxTables, mapVars
<1>12. CASE WriteMap
  BY <1>12 DEF WriteMap, mapVars
<1>13. CASE WriteProfile
  BY <1>13 DEF WriteProfile, mapVars
<1>14. CASE WriteGuide
  BY <1>14 DEF WriteGuide, mapVars
<1>15. CASE Verify
  BY <1>15 DEF Verify, mapVars
<1>16. CASE WriteManifest
  BY <1>16, FieldsArePlanned, StillFields DEF WriteManifest, mapVars
<1>17. CASE Quiet
  <2>1. CASE pc = "done"
    BY <1>17, <2>1, StillFields DEF Quiet, tokenizeVars, mapVars
  <2>2. CASE pc \in PreservePcs
    <3>1. \A a \in AttrColumns : CustomKeys(scans[a].stats) = {}
      BY <2>2, AttrColumnsAny DEF ScanInv, Unscanned, CustomKeys
    <3> QED
      BY <1>17, <3>1, StillFields DEF FieldsMapped, Quiet, tokenizeVars, mapVars
  <2> QED
    BY <1>17, <2>1, <2>2 DEF Quiet
<1> QED
  BY <1>1, <1>2, <1>3, <1>4, <1>5, <1>6, <1>7, <1>8, <1>9, <1>10, <1>11, <1>12, <1>13, <1>14, <1>15, <1>16, <1>17, Steps DEF TokenizeStep

-----------------------------------------------------------------------------
(* Why a run is given up.                                                  *)

LEMMA RegisteredMapped ==
  ASSUME BuiltInv, pc \in Mapped, NEW k \in Kind, NEW n, Registered(k, n)
  PROVE  ~MapFails(fwd, k, n)
<1>1. DOMAIN fwd[k] = values[k] \cup keep[k]
  BY DEF BuiltInv, Built
<1> QED
  BY <1>1 DEF Registered, MapFails, Has

\* A mapped table or column gets a token, which is none of the real names.
LEMMA MappedReserved ==
  ASSUME SourceInv, MapInv, NamesInv, BuiltInv, pc \in Mapped,
         NEW k \in {"tbl", "col"}, NEW n \in values[k]
  PROVE  fwd[k][n] \in Reserved /\ n \notin Reserved
<1>1. k \in Kind /\ keep[k] = {} /\ values[k] \subseteq Name /\ cfg.key \in Key
  BY DEF NamesInv, MapInv, NameSets, SourceInv, Config, Kind
<1>2. ~BuildFails(cfg.key, values) /\ fwd = Built(cfg.key, values, keep)
  BY DEF BuiltInv
<1>3. fwd[k][n] = Minted(cfg.key, k, n, values[k])
  BY <1>1, <1>2 DEF Built
<1>4. n \notin Reserved
  BY <1>1, <1>2 DEF BuildFails
<1> QED
  BY <1>1, <1>3, <1>4, MintedReserved

\* The only names a phase may fail to map are keys of a column whose scan
\* failed in wave 1 and succeeded now.
LEMMA PlanFailsByFields ==
  ASSUME SourceInv, ScanInv, RelInv, NamesInv, BuiltInv, pc = "plan",
         NEW result \in [{a \in AttrColumns : ~scans[a].ok} -> {Unscanned} \cup Outcomes],
         Unmapped(Planned(Rescanned(result)))
  PROVE  \E a \in AttrColumns :
           /\ Rescanned(result)[a].ok
           /\ \E k \in CustomKeys(Rescanned(result)[a].stats) : ~Has(fwd, "field", k)
<1> DEFINE now == Rescanned(result)
<1>1. PICK x \in Planned(now) : MapFails(fwd, x[1], x[2])
  BY DEF Unmapped
<1>2. pc \in Mapped /\ pc \in Observed
  BY DEF Mapped, Observed
<1>3. x \notin CatalogNames
  <2>1. CatalogNames \subseteq ProfileNames
    BY DEF ProfileNames
  <2> QED
    BY <1>1, <1>2, <2>1, ProfileNamesNamed, RegisteredMapped DEF NamesInv
<1>4. \A a \in AttrColumns : now[a] \in {Unscanned} \cup Outcomes
  <2>1. \A a \in AttrColumns : now[a] = IF ~scans[a].ok THEN result[a] ELSE scans[a]
    BY AttrColumnsAny DEF Rescanned
  <2> QED
    BY <2>1, AttrColumnsAny DEF ScanInv
<1> HIDE DEF now
<1>5. x \in ObservedFields(now)
  BY <1>1, <1>3 DEF Planned
<1>6. PICK a \in AttrColumns : x[1] = "field" /\ now[a].ok /\ x[2] \in CustomKeys(now[a].stats)
  BY <1>4, <1>5, FieldsNamed
<1> QED
  BY <1>1, <1>6 DEF MapFails, now

LEMMA ProfileMapped ==
  ASSUME SourceInv, RelInv, NamesInv, BuiltInv, pc \in Mapped
  PROVE  ~Unmapped(ProfileNames)
<1>1. \A x \in ProfileNames : x[1] \in Kind /\ Registered(x[1], x[2])
  BY ProfileNamesNamed DEF NamesInv, Mapped, Observed
<1> QED
  BY <1>1, RegisteredMapped DEF Unmapped

LEMMA StillUnmapped ==
  ASSUME UnmappedOnlyFields, UNCHANGED <<tables, columns, scans, fwd>>,
         why' = "unmapped" => why = "unmapped"
  PROVE  UnmappedOnlyFields'
BY DEF UnmappedOnlyFields, AttrColumns

LEMMA UnmappedNext == SourceInv /\ ModelInv /\ ScanInv /\ RelInv /\ NamesInv /\ BuiltInv /\ UnmappedOnlyFields /\ [Next]_vars => UnmappedOnlyFields'
<1> SUFFICES ASSUME SourceInv, ModelInv, ScanInv, RelInv, NamesInv, BuiltInv, UnmappedOnlyFields, [Next]_vars PROVE UnmappedOnlyFields'
  OBVIOUS
<1> USE DEF Goto, Abort, Fail
<1>1. CASE InitStores /\ UNCHANGED tokenizeVars
  BY <1>1 DEF InitStores, ModelInv, UnmappedOnlyFields, tokenizeVars
<1>2. CASE Shape /\ UNCHANGED tokenizeVars
  BY <1>2 DEF Shape, ModelInv, UnmappedOnlyFields, tokenizeVars
<1>3. CASE Roster /\ UNCHANGED tokenizeVars
  BY <1>3 DEF Roster, ModelInv, UnmappedOnlyFields, tokenizeVars
<1>4. CASE Columns /\ UNCHANGED tokenizeVars
  BY <1>4 DEF Columns, ModelInv, UnmappedOnlyFields, tokenizeVars
<1>5. CASE Relations
  BY <1>5 DEF Relations, ModelInv, UnmappedOnlyFields
<1>6. CASE Mining
  BY <1>6 DEF Mining, ModelInv, UnmappedOnlyFields
<1>7. CASE ObserveNames
  BY <1>7 DEF ObserveNames, ModelInv, UnmappedOnlyFields
<1>8. CASE ObserveSQL
  BY <1>8 DEF ObserveSQL, ModelInv, UnmappedOnlyFields
<1>9. CASE Build
  BY <1>9 DEF Build, ModelInv, UnmappedOnlyFields
<1>10. CASE WritePlan
  <2> SUFFICES ASSUME why' = "unmapped"
               PROVE  \E a \in AttrColumns' : /\ scans'[a].ok
                         /\ \E k \in CustomKeys(scans'[a].stats) : ~Has(fwd', "field", k)
    BY DEF UnmappedOnlyFields
  <2>1. PICK result \in [{a \in AttrColumns : ~scans[a].ok} -> {Unscanned} \cup Outcomes] :
          /\ scans' = Rescanned(result)
          /\ IF Unmapped(Planned(Rescanned(result))) THEN Abort("unmapped") ELSE Goto("sandbox")
    BY <1>10 DEF WritePlan
  <2>2. pc = "plan" /\ why # "unmapped" /\ UNCHANGED <<fwd, tables, columns>>
    BY <1>10 DEF WritePlan, ModelInv, mapVars
  <2>3. Unmapped(Planned(Rescanned(result)))
    BY <2>1, <2>2
  <2>4. AttrColumns' = AttrColumns
    BY <2>2 DEF AttrColumns
  <2> QED
    BY <2>1, <2>2, <2>3, <2>4, PlanFailsByFields
<1>11. CASE SandboxTables
  BY <1>11 DEF SandboxTables, ModelInv, UnmappedOnlyFields
<1>12. CASE WriteMap
  BY <1>12 DEF WriteMap, ModelInv, UnmappedOnlyFields
<1>13. CASE WriteProfile
  BY <1>13, ProfileMapped DEF WriteProfile, Mapped, Publishing, ModelInv, UnmappedOnlyFields
<1>14. CASE WriteGuide
  BY <1>14 DEF WriteGuide, ModelInv, UnmappedOnlyFields
<1>15. CASE Verify
  BY <1>15 DEF Verify, ModelInv, UnmappedOnlyFields
<1>16. CASE WriteManifest
  BY <1>16 DEF WriteManifest, ModelInv, UnmappedOnlyFields
<1>17. CASE Quiet
  BY <1>17, StillUnmapped DEF Quiet, tokenizeVars, mapVars
<1> QED
  BY <1>1, <1>2, <1>3, <1>4, <1>5, <1>6, <1>7, <1>8, <1>9, <1>10, <1>11, <1>12, <1>13, <1>14, <1>15, <1>16, <1>17, Steps DEF TokenizeStep

\* A name the check finds in a statement is not there as a token.
LEMMA FoundNames ==
  ASSUME SourceInv, MapInv, RelInv, NamesInv, BuiltInv, pc = "verify",
         NEW t \in tables, NEW n \in NamesSought(t) \cap DdlWords(t)
  PROVE  n \in {cfg.destDb} \cup KeptTypeWords(t) \cup DdlVocab
<1>0. pc \in Mapped /\ pc \in Observed
  BY DEF Mapped, Observed, Publishing
<1>1. n # NoName
  BY NameAssumption DEF NamesSought
<1>2. <<"tbl", t>> \in ProfileNames /\ \A c \in columns[t] : <<"col", c.name>> \in ProfileNames
  <2>1. <<"tbl", t>> \in CatalogNames
    BY DEF CatalogNames, OfKind
  <2>2. ASSUME NEW c \in columns[t] PROVE <<"col", c.name>> \in CatalogNames
    <3>1. <<"col", c.name>> \in OfKind("col", {d.name : d \in columns[t]})
      BY DEF OfKind
    <3> QED
      BY <3>1 DEF CatalogNames
  <2> QED
    BY <2>1, <2>2 DEF ProfileNames
<1>3. keep["tbl"] = {} /\ keep["col"] = {}
  BY DEF NamesInv, Kind
<1>4. t = NoName \/ t \in values["tbl"]
  BY <1>0, <1>2, <1>3 DEF NamesInv, Registered
<1>5. \A c \in columns[t] : c.name = NoName \/ c.name \in values["col"]
  BY <1>0, <1>2, <1>3 DEF NamesInv, Registered
<1>6. n \notin Reserved
  <2>1. n = t => n \notin Reserved
    BY <1>0, <1>1, <1>4, MappedReserved
  <2>2. \A c \in columns[t] : n = c.name => n \notin Reserved
    BY <1>0, <1>1, <1>5, MappedReserved
  <2>3. cfg.sourceDb \notin Reserved
    BY DEF MapInv, BeforeRoster
  <2> QED
    BY <2>1, <2>2, <2>3 DEF NamesSought
<1>7. n # MapTo(fwd, "tbl", t)
  BY <1>0, <1>1, <1>4, <1>6, MappedReserved DEF MapTo
<1>8. \A c \in columns[t] : n # MapTo(fwd, "col", c.name)
  BY <1>0, <1>1, <1>5, <1>6, MappedReserved DEF MapTo
<1> QED
  BY <1>7, <1>8 DEF DdlWords, IncludedColumns

LEMMA StillLeaking ==
  ASSUME LeakIsRealName, UNCHANGED <<cfg, columns, built>>, why' = "leak" => why = "leak"
  PROVE  LeakIsRealName'
BY DEF LeakIsRealName, NamesSought, Disclosed, KeptTypeWords

LEMMA LeakNext == SourceInv /\ MapInv /\ ModelInv /\ RelInv /\ NamesInv /\ BuiltInv /\ PublishedInv /\ LeakIsRealName /\ [Next]_vars => LeakIsRealName'
<1> SUFFICES ASSUME SourceInv, MapInv, ModelInv, RelInv, NamesInv, BuiltInv, PublishedInv, LeakIsRealName, [Next]_vars PROVE LeakIsRealName'
  OBVIOUS
<1> USE DEF Goto, Abort, Fail
<1>1. CASE InitStores /\ UNCHANGED tokenizeVars
  BY <1>1 DEF InitStores, ModelInv, LeakIsRealName, tokenizeVars
<1>2. CASE Shape /\ UNCHANGED tokenizeVars
  BY <1>2 DEF Shape, ModelInv, LeakIsRealName, tokenizeVars
<1>3. CASE Roster /\ UNCHANGED tokenizeVars
  BY <1>3 DEF Roster, ModelInv, LeakIsRealName, tokenizeVars
<1>4. CASE Columns /\ UNCHANGED tokenizeVars
  BY <1>4 DEF Columns, ModelInv, LeakIsRealName, tokenizeVars
<1>5. CASE Relations
  BY <1>5 DEF Relations, ModelInv, LeakIsRealName
<1>6. CASE Mining
  BY <1>6 DEF Mining, ModelInv, LeakIsRealName
<1>7. CASE ObserveNames
  BY <1>7 DEF ObserveNames, ModelInv, LeakIsRealName
<1>8. CASE ObserveSQL
  BY <1>8 DEF ObserveSQL, ModelInv, LeakIsRealName
<1>9. CASE Build
  BY <1>9 DEF Build, ModelInv, LeakIsRealName
<1>10. CASE WritePlan
  BY <1>10 DEF WritePlan, ModelInv, LeakIsRealName
<1>11. CASE SandboxTables
  BY <1>11 DEF SandboxTables, ModelInv, LeakIsRealName
<1>12. CASE WriteMap
  BY <1>12 DEF WriteMap, ModelInv, LeakIsRealName
<1>13. CASE WriteProfile
  BY <1>13 DEF WriteProfile, ModelInv, LeakIsRealName
<1>14. CASE WriteGuide
  BY <1>14 DEF WriteGuide, ModelInv, LeakIsRealName
<1>15. CASE Verify
  <2> SUFFICES ASSUME why' = "leak" PROVE LeakIsRealName'
    BY DEF LeakIsRealName
  <2>1. pc = "verify" /\ why # "leak" /\ UNCHANGED <<cfg, columns, built>>
    BY <1>15 DEF Verify, ModelInv
  <2>2. PICK t \in built : FindLeak(t)
    BY <1>15, <2>1 DEF Verify
  <2>3. PICK n \in NamesSought(t) : n \in {cfg.destDb} \cup KeptTypeWords(t) \cup DdlVocab
    BY <2>1, <2>2, FoundNames DEF FindLeak, PublishedInv
  <2> QED
    BY <2>1, <2>3 DEF LeakIsRealName, NamesSought, Disclosed, KeptTypeWords
<1>16. CASE WriteManifest
  BY <1>16 DEF WriteManifest, ModelInv, LeakIsRealName
<1>17. CASE Quiet
  BY <1>17, StillLeaking DEF Quiet, tokenizeVars, publishedVars
<1> QED
  BY <1>1, <1>2, <1>3, <1>4, <1>5, <1>6, <1>7, <1>8, <1>9, <1>10, <1>11, <1>12, <1>13, <1>14, <1>15, <1>16, <1>17, Steps DEF TokenizeStep

-----------------------------------------------------------------------------
(* What follows from the invariant.                                        *)

LEMMA GatedByScans == RegisteredInv => AttrValuesGated
<1> SUFFICES ASSUME RegisteredInv, pc \in Publishing \cup {"done"}, NEW a \in AttrColumns,
                    NEW k \in DenyKey \cup Semconv \cup DOMAIN scans[a].stats
             PROVE  /\ KeyShown(SpecOf(a), k) \in Semconv \cup Tokens \cup {FieldRedacted, NoName}
                    /\ \A numeric \in BOOLEAN :
                         ValueShown(SpecOf(a), k, numeric) =>
                           \/ k \in KeepAttrKeys
                           \/ /\ k \in DOMAIN scans[a].stats \ DenyKey /\ ~scans[a].stats[k].pii
                              /\ k \in Semconv \/ ~MapFails(fwd, "field", k)
  BY DEF AttrValuesGated, Publishing
<1> DEFINE stats == scans[a].stats
           spec == SpecOf(a)
<1>1. \A x \in CustomKeys(stats) : ~MapFails(fwd, "field", x)
  BY FieldsArePlanned DEF RegisteredInv, Inv, FieldsInv, FieldsMapped
<1>2. Tokens = WordsOfMap(fwd) /\ "field" \in Kind
  BY DEF Tokens, WordsOfMap, Kind
<1>3. \A x \in CustomKeys(stats) : MapTo(fwd, "field", x) \in Tokens \cup {NoName}
  BY <1>1, <1>2, MappedInMap
<1>4. /\ DOMAIN spec.custom = CustomKeys(stats)
      /\ \A x \in CustomKeys(stats) : spec.custom[x] = MapTo(fwd, "field", x)
  BY DEF SpecOf
<1>5. spec.vocabulary = KeysOfRole(stats, "vocabulary") \cup KeepAttrKeys
      /\ spec.measure = KeysOfRole(stats, "measure")
  BY DEF SpecOf
<1>6. \A role \in {"vocabulary", "measure"} : \A x \in KeysOfRole(stats, role) :
        x \in DOMAIN stats \ DenyKey /\ ~stats[x].pii
  BY DEF KeysOfRole, ClassifyAttrKey
<1> HIDE DEF spec, stats
<1>7. KeyShown(spec, k) \in Semconv \cup Tokens \cup {FieldRedacted, NoName}
  BY <1>3, <1>4 DEF KeyShown
<1>8. ASSUME k \in spec.vocabulary \cup spec.measure, k \notin KeepAttrKeys
      PROVE  /\ k \in DOMAIN stats \ DenyKey /\ ~stats[k].pii
             /\ k \in Semconv \/ ~MapFails(fwd, "field", k)
  BY <1>1, <1>5, <1>6, <1>8 DEF CustomKeys
<1> QED
  BY <1>7, <1>8 DEF ValueShown, spec, stats

LEMMA Decodable == RegisteredInv => TextsDecode
<1> SUFFICES ASSUME RegisteredInv, TokenizingDone,
                    NEW text \in Texts, NEW i \in DOMAIN text, IdentifierAt(text, i),
                    NEW w \in RewriteLexeme(fwd, text, i)
             PROVE  {p.original : p \in {q \in secret : q.token = w}} = {text[i].name}
  BY DEF TextsDecode, TokenizingDone
<1> DEFINE n == text[i].name
<1>1. ~BuildFails(cfg.key, values) /\ fwd = Built(cfg.key, values, keep) /\ secret = Pairs(fwd)
  BY DEF RegisteredInv, BuiltInv
<1>2. \A k \in Kind : DOMAIN fwd[k] = values[k] \cup keep[k]
  BY <1>1 DEF Built
<1>3. n \in IdentifierWords(text) /\ IsText(text)
  BY TextsAreTexts DEF IdentifierAt, IdentifierWords, ToSet, RegisteredInv, Inv
<1>4. ProbedKinds \subseteq Kind /\ "sql" \in Kind
  BY DEF ProbedKinds, Probe, ToSet, Kind
<1>5. KnownAs(fwd, n) \/ Has(fwd, "sql", n)
  <2>1. n \in values["sql"] \cup UNION {values[k] \cup keep[k] : k \in ProbedKinds}
    BY <1>3 DEF RegisteredInv, WordsInv
  <2>2. (\E k \in ProbedKinds : n \in values[k] \cup keep[k]) \/ n \in values["sql"]
    BY <2>1
  <2> QED
    BY <1>2, <1>4, <2>2 DEF KnownAs, Has
<1>6. PICK k \in Kind : n \in DOMAIN fwd[k] /\ w = fwd[k][n]
  <2>1. \/ text[i].type = "quoted"
        \/ text[i].type = "word" /\ n \notin Keyword /\ n \notin Vocab
    BY DEF IdentifierAt
  <2>2. Probe \in Seq(Kind) /\ ProbeOrder(text, i) \in Seq(Kind)
    BY ProbeKinds
  <2>3. KnownAs(fwd, n) =>
          /\ \E k \in Kind : n \in DOMAIN fwd[k] /\ FirstKnown(fwd, n, Probe) = fwd[k][n]
          /\ \E k \in Kind : n \in DOMAIN fwd[k] /\ FirstKnown(fwd, n, ProbeOrder(text, i)) = fwd[k][n]
    <3> HIDE DEF n
    <3>1. ASSUME KnownAs(fwd, n), NEW order \in Seq(Kind)
          PROVE  \E k \in Kind : n \in DOMAIN fwd[k] /\ FirstKnown(fwd, n, order) = fwd[k][n]
      BY <3>1, FirstKnownInMap
    <3> QED
      BY <2>2, <3>1
  <2>4. ~KnownAs(fwd, n) => n \in DOMAIN fwd["sql"] /\ MustSQL(fwd, n) = fwd["sql"][n]
    BY <1>5 DEF MustSQL, Has
  <2> QED
    BY <1>4, <2>1, <2>3, <2>4 DEF RewriteLexeme
<1>7. MapInjective
  BY InvMapInjective DEF RegisteredInv
<1>8. \A q \in Pairs(fwd) : \E k2 \in Kind :
        q.original \in DOMAIN fwd[k2] /\ q.token = fwd[k2][q.original]
  BY DEF Pairs
<1>9. \A q \in secret : q.token = w => q.original = n
  BY <1>1, <1>6, <1>7, <1>8 DEF MapInjective
<1>10. \E q \in secret : q.token = w /\ q.original = n
  <2>1. [kind |-> k, original |-> n, token |-> fwd[k][n]] \in Pairs(fwd)
    BY <1>6 DEF Pairs
  <2> QED
    BY <1>1, <1>6, <2>1
<1> QED
  BY <1>9, <1>10

-----------------------------------------------------------------------------
(* The theorems.                                                           *)

LEMMA RegisteredInit == Init => RegisteredInv
<1> SUFFICES ASSUME Init PROVE RegisteredInv
  OBVIOUS
<1> USE DEF Init, CatalogInit, TokenizeInit
<1>1. ModelInv /\ RelInv /\ UnmappedOnlyFields /\ LeakIsRealName
  BY DEF ModelInv, PreservePcs, RelInv, UnmappedOnlyFields, LeakIsRealName
<1>2. ScanInv
  BY DEF ScanInv
<1>3. NamesInv /\ WordsInv /\ BuiltInv /\ FieldsInv
  BY DEF NamesInv, NothingObserved, WordsInv, BuiltInv, FieldsInv, Observed, Searched, Mapped,
         Publishing, TokenizingDone
<1> QED
  BY <1>1, <1>2, <1>3, InvInit DEF RegisteredInv

LEMMA RegisteredInvariance == Spec => []RegisteredInv
<1>1. RegisteredInv /\ [Next]_vars => RegisteredInv'
  BY SourceNext, MapNext, PublishedNext, ModelNext, ScanNext, RelNext, NamesNext, WordsNext,
     BuiltNext, FieldsNext, UnmappedNext, LeakNext DEF RegisteredInv, Inv
<1> QED
  BY <1>1, RegisteredInit, PTL DEF Spec

\* No phase maps a name that was not registered before the map was built, but
\* for keys of a column that could not be scanned at first.
THEOREM NamesRegistered == Spec => []UnmappedOnlyFields
BY RegisteredInvariance, PTL DEF RegisteredInv

\* A run refused as leaking has a real name in a statement, and only the names
\* the operator chose, a kept type or the statement's own words put it there.
THEOREM LeaksAreNames == Spec => []LeakIsRealName
BY RegisteredInvariance, PTL DEF RegisteredInv

\* Whatever scans fail and whatever the cache holds, a real attribute value is
\* shown only for keys a scan has found harmless or the operator has forced.
THEOREM ValuesGated == Spec => []AttrValuesGated
BY RegisteredInvariance, GatedByScans, PTL

\* Each identifier of each rewritten text can be decoded, to one name.
THEOREM RewrittenDecodes == Spec => []TextsDecode
BY RegisteredInvariance, Decodable, PTL
=============================================================================
