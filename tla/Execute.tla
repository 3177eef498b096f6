------------------------------ MODULE Execute ------------------------------
(***************************************************************************)
(* One `anond run` (anon/internal/discover, Run.Execute): the phases both  *)
(* models share, then those of the model the operator chose.               *)
(***************************************************************************)
EXTENDS Tokenize, Preserve

vars == <<catalogVars, tokenizeVars, preserveVars>>

Init == CatalogInit /\ TokenizeInit /\ PreserveInit

Phase == (InitStores \/ Shape \/ Roster \/ Columns)
           /\ UNCHANGED <<tokenizeVars, preserveVars>>

Stopped == Stop /\ UNCHANGED <<tokenizeVars, preserveVars>>

Run == \/ Phase
       \/ TokenizeStep /\ UNCHANGED preserveVars
       \/ PreserveStep /\ UNCHANGED tokenizeVars

\* Somebody changes what the schema-preserving model reads or has written.
Others == /\ cfg.model = Preserving /\ ~Ended
          /\ \/ \E t \in TableName : ChangeSource(t) \/ ChangeTable(t)
             \/ ChangeDatabase
          /\ UNCHANGED <<catalogVars, tokenizeVars>>

Next == Run \/ Stopped \/ Others

Spec == Init /\ [][Next]_vars

\* The process goes on: every statement is answered or given up on.
FairSpec == Spec /\ WF_vars(Run)

-----------------------------------------------------------------------------
(* What a run may publish.                                                 *)

Pcs == {"start", "shape", "roster", "columns", "done", "dry", "failed",
        "relations", "mining", "observe", "observeSql", "build", "plan",
        "sandbox", "map", "profile", "guide", "verify", "manifest",
        "trusted", "tables", "database", "dbRegister", "dbCreate", "check", "register", "drop", "create",
        "count", "mint", "maskingPlan", "registryRows"}

NameSets == [Kind -> SUBSET Name]

\* Every variable holds values of its type: names are registered under known
\* kinds, what is built or recorded are tables of the scope.
TypeOK ==
  /\ cfg \in Config /\ pc \in Pcs /\ tables \subseteq TableName /\ qlog \in BOOLEAN
  /\ why \in {"none", "stopped", "refused", "build", "unmapped", "leak", "foreign"}
  /\ hot \subseteq tables /\ built \subseteq tables /\ done \subseteq tables
  /\ keep \in NameSets /\ values \in NameSets
  /\ \A k \in Kind : \A n \in DOMAIN fwd[k] : fwd[k][n] \in Reserved \cup {n}
  /\ cur \in tables \cup {Nobody} /\ todo \subseteq tables
  /\ before \subseteq registry /\ registry \subseteq Objects
  /\ db \in Owner /\ astray \subseteq TableName

\* The tokens of the map, once it is built.
Tokens == UNION {{fwd[k][n] : n \in DOMAIN fwd[k]} : k \in Kind}

\* idmap.go: tokens are injective over all kinds at once, so that a token in a
\* text has one original whatever kind of object the reader takes it for; only
\* kept names stand for themselves under several kinds.
MapInjective ==
  \A k1, k2 \in Kind : \A n1 \in DOMAIN fwd[k1], n2 \in DOMAIN fwd[k2] :
    fwd[k1][n1] = fwd[k2][n2] => n1 = n2 /\ (k1 = k2 \/ n1 \in keep[k1])

\* run.go:107: no phase maps a name that was not registered before Build.  The
\* one exception are the keys of an attribute column that could not be scanned
\* when names were observed and could be when the plan was made.
UnmappedOnlyFields ==
  why = "unmapped" =>
    \E a \in AttrColumns : /\ scans[a].ok
                           /\ \E k \in CustomKeys(scans[a].stats) : ~Has(fwd, "field", k)

\* Words nobody needs to hide.
Public == Vocab \cup Keyword \cup SafeLiteral \cup Semconv
            \cup {Redacted, FieldRedacted, NoName, DefaultDb, SystemDb, cfg.destDb}

GuideWords == UNION {{g.table, g.column} : g \in guide}

\* run.go:555, preserve.go:258: whatever texts and names the source has, the
\* profile and the guide show tokens of this run's map and public words only;
\* the CREATE statement of a sandbox table may show the words of the types of
\* kept columns as well.
NothingRealPublished ==
  /\ profile \cup GuideWords \subseteq Public \cup Tokens
  /\ \A t \in built : DdlWords(t) \subseteq Public \cup Tokens \cup KeptTypeWords(t)

\* An identifier of the text, where it stands: quoted, or a bare word that is
\* neither keyword nor vocabulary.
IdentifierAt(text, i) ==
  \/ text[i].type = "quoted"
  \/ text[i].type = "word" /\ text[i].name \notin Keyword \cup Vocab

WellQuoted(text) == \A i \in DOMAIN text : text[i].type # "stray"

\* run.go:467: the second wave leaves no identifier of a text behind.  Each
\* identifier of a rewritten text turns into a word that stands for that name
\* and no other in the secret map; nothing has to be redacted for want of a token.
TextsDecode ==
  pc = "done" /\ cfg.model = Tokenizing =>
    \A text \in Texts : WellQuoted(text) =>
      \A i \in {j \in DOMAIN text : IdentifierAt(text, j)} :
        \A w \in RewriteLexeme(fwd, text, i) :
          {p.original : p \in {q \in secret : q.token = w}} = {text[i].name}

\* classify.go:239: through the caching of scans, a real attribute value is
\* shown only for keys the operator forced, or that a scan which this run's map
\* knows found to be no PII, by name or by value; and no key shows its own name
\* unless it is a public one.
AttrValuesGated ==
  pc \in {"sandbox", "map", "profile", "guide", "verify", "manifest", "done"} =>
    \A a \in AttrColumns : \A k \in DenyKey \cup Semconv \cup DOMAIN scans[a].stats :
      /\ KeyShown(SpecOf(a), k) \in Semconv \cup Tokens \cup {FieldRedacted, NoName}
      /\ \A numeric \in BOOLEAN :
           ValueShown(SpecOf(a), k, numeric) =>
             \/ k \in KeepAttrKeys
             \/ /\ k \in DOMAIN scans[a].stats \ DenyKey /\ ~scans[a].stats[k].pii
                /\ k \in Semconv \/ ~MapFails(fwd, "field", k)

\* verify.go:49: a run is refused as leaking only when a real name of the table
\* is the name the operator gave the sandbox, a word of a type that is kept or of
\* the statement's own vocabulary.
LeakIsRealName ==
  why = "leak" =>
    \E t \in built : \E n \in NamesSought(t) :
      n \in {cfg.destDb} \cup KeptTypeWords(t) \cup DdlVocab

\* run.go:822 says of the manifest that "everything in it must be tokens or
\* operator-disclosed values".
ManifestHoldsNoRealName == manifest \subseteq Public \cup Tokens

-----------------------------------------------------------------------------
(* The schema-preserving model.                                            *)

\* preserve.go:193, 08-schema-guide-registry.sql:40: readers of the guide see the
\* rows of all runs.  A row that does not fit its table (which is gone, lacks the
\* column or has it in another class) is about a table that somebody else or an
\* earlier run has put in disorder, or that this run has dropped and possibly
\* remade; and once the run is complete none of its own rows is among these, and
\* each has the same class in the masking plan.
GuideDescribesSandbox ==
  /\ \A a \in DOMAIN shown :
       \/ a[1] \in astray
       \/ RowFits(a[1], a[2])
       \/ /\ dest[a[1]].owner \in {"none", "run"}
          /\ pc = "done" => a \notin ListedColumns
  /\ pc = "done" => \A a \in ListedColumns : /\ a \in DOMAIN shown /\ a[1] \in DOMAIN maskingPlan
                                         /\ maskingPlan[a[1]][a[2]] = shown[a]

\* preserve.go:162: a token in a sandbox table that the guide lists can be turned
\* back into its value.  A table of an earlier run keeps this as long as it is
\* there.  One that this run has made, whole or in part and also under the guide
\* rows of an earlier run, has it on one cluster as soon as the identifier map
\* is written, unless the column's mint failed or the value was deleted from the
\* source before the mint; a run that dies earlier (between preserve.go:244 and
\* 182) leaves it without.
GuideIsReversible ==
  \A a \in DOMAIN shown :
    LET t == a[1]
        n == a[2] IN
    t \notin astray /\ n \in DOMAIN dest[t].classes =>
      /\ dest[t].owner = "earlier" => TokensKnown(t, n)
      /\ /\ dest[t].owner = "run" /\ ~cfg.cross /\ a \notin unminted
         /\ pc \in {"maskingPlan", "registryRows", "done"}
         /\ ShowsTokens(dest[t].classes[n])
         => \A v \in dest[t].values \ gone[t] : <<dest[t].classes[n].kind, v>> \in identifiers

\* sandbox.go:12, preserve.go:223: cleanup finds the database and every table a
\* run has made, also those that failed and were skipped.
MadeIsRegistered ==
  /\ db \in {"earlier", "run"} => Database \in registry
  /\ \A t \in TableName : dest[t].owner \in {"earlier", "run"} => t \in registry

\* sandbox.go:14: a table of somebody else is not dropped or replaced, whenever
\* it appears, unless its name was registered before this run began: such a name
\* passes for the tool's own even if its table has been replaced.
ForeignKept ==
  [][changes' = changes =>
       \A t \in TableName : dest[t].owner = "other" /\ t \notin before => dest'[t] = dest[t]]_vars

\* However many tables, columns and scans fail, the run comes to an end.
RunEnds == <>Ended
=============================================================================
