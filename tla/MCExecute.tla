----------------------------- MODULE MCExecute -----------------------------
(* Instances of Execute for TLC: a source database with a fact table, a    *)
(* Distributed test sibling of it, a materialized view and a dictionary.   *)
EXTENDS Execute, TLC

CONSTANTS
  \* databases and tables
  empty, default, system, infoSchema, meta, shop, mart, box, sales, sales_t, view, dict, far,
  \* columns
  id, ts, note, attr, user, Float, mixed, dropped,
  \* other names of the source
  alice, cluster, udf, alias, layout, label,
  \* attribute keys
  serviceName, plan, email,
  \* vocabulary, keywords, literals
  String, DateTime, Map, count, SELECT, day, secretText,
  \* what the rewriter and the key masking leave
  redacted, fieldRedacted

MCKey == {"plain", "short", "wide"}

Names == <<empty, default, system, infoSchema, meta, shop, mart, box, sales, sales_t, view,
           dict, far, id, ts, note, attr, user, Float, mixed, dropped, alice, cluster, udf,
           alias, layout, label, serviceName, plan, email, String, DateTime, Map, count,
           SELECT, day, secretText>>

\* A database and a column named like the tokens of sales.
TokenLike(kind) == [kind |-> kind, hex |-> <<9>>]

MCName == {Names[i] : i \in DOMAIN Names} \cup {TokenLike("tbl"), TokenLike("col")}
MCHalf == 0..(Len(Names) + 1)

Number(n) == IF n \in {TokenLike("tbl"), TokenLike("col")} THEN Len(Names) + 1
             ELSE CHOOSE i \in DOMAIN Names : Names[i] = n

\* Key "short" gives id and ts the same first half, key "wide" both halves.
MCHmac ==
  [x \in MCKey \X Kind \X MCName |->
     LET clash == x[1] # "plain" /\ x[3] \in {id, ts}
     IN  <<IF clash THEN 0 ELSE Number(x[3]), IF clash /\ x[1] = "wide" THEN 0 ELSE Number(x[3])>>]

W(n) == [type |-> "word", name |-> n]
Q(n) == [type |-> "quoted", name |-> n]
L(n) == [type |-> "string", name |-> n]
Dot   == [type |-> "dot", name |-> empty]
Note  == [type |-> "comment", name |-> alice]
Stray == [type |-> "stray", name |-> alice]

Column(name, type, words) ==
  [name |-> name, type |-> type, words |-> words, idName |-> name = id, inKey |-> name = ts,
   lowCard |-> FALSE, nested |-> FALSE, internal |-> FALSE,
   ident |-> IF name = user THEN "user" ELSE "none"]

SalesColumns == {Column(id, "String", <<W(String)>>), Column(ts, "Temporal", <<W(DateTime)>>),
                 Column(note, "String", <<W(String)>>), Column(user, "String", <<W(String)>>),
                 Column(attr, "AttrMap", <<W(Map), W(String)>>)}
SiblingColumns == {Column(ts, "Temporal", <<W(DateTime)>>), Column(user, "Strings", <<W(String)>>),
                   Column(mixed, "Mixed", <<W(label), W(String)>>),
                   Column(Float, "Tuple", <<W(label), W(Float)>>)}

Table(engine, cols) ==
  [engine |-> engine, columns |-> cols, ddl |-> <<>>, key |-> <<>>, detail |-> <<>>,
   target |-> <<empty, empty>>, refs |-> {}, base |-> empty]

MCSchema ==
  (sales :> [Table("MergeTree", SalesColumns) EXCEPT
               !.ddl = <<W(SELECT), W(shop), Dot, Note, W(sales), Q(note), W(udf), L(day), L(secretText)>>,
               !.key = <<W(ts), W(count), W(id)>>]) @@
  (sales_t :> [Table("Distributed", SiblingColumns) EXCEPT
               !.ddl = <<W(mart), Dot, W(far), W(label), W(Float), Q(alias)>>, !.detail = <<W(id)>>,
               !.target = <<mart, far>>, !.base = sales]) @@
  (view :> [Table("MaterializedView", {Column(count, "Numeric", <<W(Float)>>)}) EXCEPT
               !.ddl = <<W(SELECT), W(shop), Dot, W(sales), Dot, W(id), Stray>>,
               !.target = <<shop, sales_t>>, !.refs = {<<empty, sales>>, <<mart, far>>}]) @@
  (dict :> [Table("Dictionary", {Column(id, "UUID", <<W(String)>>)}) EXCEPT
               !.detail = <<W(layout)>>])

MCWorkload ==
  (sales :> [users |-> {alice}, touched |-> {id, dropped},
             shapes |-> {<<W(SELECT), W(count), W(alias), Dot, W(id), Q(SELECT)>>}]) @@
  (sales_t :> [users |-> {alice}, touched |-> {TokenLike("col")}, shapes |-> {}]) @@
  (far :> [users |-> {label}, touched |-> {}, shapes |-> {}])

MCSourceDbs == {shop, system, TokenLike("tbl")}

Stats(pii, numeric, lowCard) == [pii |-> pii, numeric |-> numeric, lowCard |-> lowCard]
MCScanResults ==
  {serviceName :> Stats(FALSE, FALSE, TRUE) @@ plan :> Stats(FALSE, FALSE, TRUE) @@ email :> Stats(FALSE, TRUE, TRUE),
   plan :> Stats(TRUE, TRUE, TRUE)}

MCOverrides == sales_t :> (Float :> Tok("role") @@ user :> Tok("host"))

MCSources == {[t \in DOMAIN MCSchema |-> held] : held \in {Value, {1}}}

\* What may be left under the name of one table: who owns it, whether the name
\* is registered, what it holds, what the guide says.
Left(owner, registered, held, classes, listed, disorder) ==
  [owner |-> owner, registered |-> registered, values |-> held, classes |-> classes,
   guide |-> listed, astray |-> disorder]

\* An earlier run found users and a column that has gone since, and no id.
OldClasses == user :> Tok("user") @@ dropped :> Tok("host")
NewClasses == user :> Tok("host") @@ ts :> Keep

\* Nothing; a finished table; one that was made anew by a run that died before
\* its identifiers were written, another gone by then; a table of somebody else
\* under a free name and under one of ours.
Nothing   == Left("none", FALSE, {}, NoClasses, NoClasses, FALSE)
Foreign   == Left("other", FALSE, {}, NoClasses, NoClasses, FALSE)
LeftSales == {Nothing, Foreign,
              Left("earlier", TRUE, {1}, OldClasses, OldClasses, FALSE),
              Left("earlier", TRUE, {1, 2}, NewClasses, OldClasses, TRUE),
              Left("none", TRUE, {}, NoClasses, OldClasses, TRUE),
              Left("other", TRUE, {}, NoClasses, OldClasses, TRUE)}

LeftSibling == {Nothing, Foreign,
                Left("earlier", TRUE, {2}, Float :> Tok("db"), Float :> Tok("db"), FALSE)}

\* One of the two tables at a time: a run does nothing to both at once.
Sandboxes ==
  {[t \in DOMAIN MCSchema |-> CASE t = sales -> p[1] [] t = sales_t -> p[2] [] OTHER -> Nothing] :
     p \in (LeftSales \X {Nothing}) \cup ({Nothing} \X LeftSibling)}

Listed(box0) == UNION {{t} \X DOMAIN box0[t].guide : t \in DOMAIN box0}

MCLeftover ==
  {[db |-> d[1],
    dest |-> [t \in DOMAIN MCSchema |->
                [owner |-> b[t].owner, values |-> b[t].values, classes |-> b[t].classes]],
    astray |-> {t \in DOMAIN MCSchema : b[t].astray},
    registry |-> {t \in DOMAIN MCSchema : b[t].registered} \cup d[2],
    identifiers |-> UNION {{b[a[1]].guide[a[2]].kind} \X (IF b[a[1]].astray THEN {} ELSE b[a[1]].values) :
                             a \in Listed(b)},
    shown |-> [a \in Listed(b) |-> b[a[1]].guide[a[2]]]] :
   b \in Sandboxes, d \in {<<"none", {}>>, <<"earlier", {Database}>>, <<"other", {}>>, <<"other", {Database}>>}}

\* The tokenizing model meets each key and clash of names once, the
\* schema-preserving one each sandbox an earlier run may have left.
Instance ==
  /\ cfg.cross <=> source[sales] = {1}
  /\ cfg.model = Tokenizing =>
       /\ ~cfg.cross /\ db = "none"
       /\ cfg.dryRun => cfg.key = "plain"
       /\ cfg.key # "plain" => cfg.sourceDb = shop /\ cfg.destDb = box
  /\ cfg.model = Preserving =>
       /\ cfg.key = "plain" /\ cfg.destDb = box
       /\ cfg.sourceDb \in {shop, system}
       /\ cfg.dryRun \/ cfg.cross \/ cfg.sourceDb = system => db = "none" /\ registry = {}
       /\ db = "other" => \A t \in TableName : dest[t].owner # "earlier"

\* The schema-preserving model does not ask for the query log.
QueryLogMatters == cfg.model = Preserving => ~qlog

MCInit == Init /\ Instance
MCSpec == MCInit /\ [][Next]_vars /\ WF_vars(Run)
=============================================================================
