------------------------------ MODULE Rewriter ------------------------------
(***************************************************************************)
(* The SQL rewriter (anon/internal/sqllex): a text is a sequence of        *)
(* lexemes, and a rewritten text is the set of words it shows.             *)
(*                                                                         *)
(* A lexeme is a record [type, name].  Types: "word" (a bare identifier),  *)
(* "quoted" (backtick or double quotes, name is what they enclose),        *)
(* "string" (a literal, name is its content), "dot", "comment", "stray" (a *)
(* quote that opens nothing).  White space, numbers and other punctuation  *)
(* pass unchanged and are left out; strict mode is never used by a run.    *)
(***************************************************************************)
EXTENDS IdMap, SequencesExt

CONSTANTS
  Keyword,      \* sqlKeywords, as they occur in texts
  Vocab,        \* words on which vocabKeep answers true
  SafeLiteral,  \* string contents on which safeString answers true
  Redacted      \* '[redacted]'

LexemeType == {"word", "quoted", "string", "dot", "comment", "stray"}

\* An identifier has a name.
IsText(text) ==
  \A i \in DOMAIN text :
    /\ text[i].type \in LexemeType
    /\ text[i].type \in {"word", "quoted"} => text[i].name \in Name \ {NoName}

Probe == <<"col", "tbl", "db", "dict", "user", "role", "cluster", "disk", "field">>

ProbedKinds == ToSet(Probe)

Significant(x) == x.type # "comment"

\* The nearest lexeme before or after position i that is not a comment is a dot.
DotBefore(text, i) ==
  \E j \in 1..(i - 1) : /\ text[j].type = "dot"
                        /\ \A l \in (j + 1)..(i - 1) : ~Significant(text[l])

DotAfter(text, i) ==
  \E j \in (i + 1)..Len(text) : /\ text[j].type = "dot"
                                /\ \A l \in (i + 1)..(j - 1) : ~Significant(text[l])

ProbeOrder(text, i) ==
  CASE DotAfter(text, i) /\ ~DotBefore(text, i) -> <<"db", "tbl", "dict">>
    [] DotAfter(text, i) /\ DotBefore(text, i)  -> <<"tbl", "db", "dict">>
    [] DotBefore(text, i) /\ ~DotAfter(text, i) -> <<"col", "tbl">>
    [] OTHER                                    -> Probe

\* The order given first, then every probed kind.
KindsTried(order) == order \o Probe

\* A name is known under some probed kind, and the token of the first.
KnownAs(fwd, n) == \E k \in ProbedKinds : Has(fwd, k, n)

FirstKnown(fwd, n, order) ==
  LET tried == KindsTried(order)
      first == CHOOSE i \in DOMAIN tried :
                 /\ Has(fwd, tried[i], n)
                 /\ \A j \in 1..(i - 1) : ~Has(fwd, tried[j], n)
  IN  fwd[tried[first]][n]

\* Mutant: an unattributed word that was not observed is passed through.
MustSQLOrSelf(fwd, n) == IF Has(fwd, "sql", n) THEN fwd["sql"][n] ELSE n

\* A word nobody has attributed: its "sql" token, redacted if there is none.
MustSQL(fwd, n) == IF Has(fwd, "sql", n) THEN fwd["sql"][n] ELSE Redacted

\* Mutant: quoted identifiers are taken for strings.
BareWords(text) ==
  {x.name : x \in {y \in ToSet(text) :
     y.type = "word" /\ y.name \notin Keyword /\ y.name \notin Vocab}}

\* The identifiers of a text that the second observe wave registers.
IdentifierWords(text) ==
  {x.name : x \in {y \in ToSet(text) :
     \/ y.type = "quoted"
     \/ y.type = "word" /\ y.name \notin Keyword /\ y.name \notin Vocab}}

\* What the lexeme at position i turns into; the empty set for what vanishes.
RewriteLexeme(fwd, text, i) ==
  LET x == text[i]
      n == x.name
  IN  CASE x.type \in {"dot", "comment"} -> {}
        [] x.type = "string" -> {IF n \in SafeLiteral THEN n ELSE Redacted}
        [] x.type = "quoted" ->
             {IF KnownAs(fwd, n) THEN FirstKnown(fwd, n, Probe) ELSE MustSQL(fwd, n)}
        [] x.type = "word" ->
             {IF n \in Keyword THEN n
              ELSE IF KnownAs(fwd, n) THEN FirstKnown(fwd, n, ProbeOrder(text, i))
              ELSE IF n \in Vocab THEN n ELSE MustSQL(fwd, n)}

\* The words of Rewrite(text): a stray quote redacts the whole value.
Rewritten(fwd, text) ==
  IF \E i \in DOMAIN text : text[i].type = "stray" THEN {Redacted}
  ELSE UNION {RewriteLexeme(fwd, text, i) : i \in DOMAIN text}
=============================================================================
