------------------------------ MODULE Masking ------------------------------
(***************************************************************************)
(* What the masking classes (anon/internal/classify) leave visible of a    *)
(* column, in the tokenizing and in the schema-preserving model.           *)
(*                                                                         *)
(* A column is a record                                                    *)
(*   name     its identifier                                               *)
(*   type     the group of types its type falls into, see Type             *)
(*   words    its type as a text, a sequence of lexemes                    *)
(*   idName   the name looks like an id, uuid, key ...                     *)
(*   inKey    it is in the primary, sorting or partition key               *)
(*   lowCard  the type is LowCardinality                                   *)
(*   nested   the name has a dot                                           *)
(*   internal the name is that of one of ClickHouse's own counter maps     *)
(*   ident    kind of identifier the name announces (user, database, ...)  *)
(***************************************************************************)
CONSTANTS
  Semconv,       \* attribute keys of OpenTelemetry's own namespaces
  DenyKey,       \* attribute keys the PII pattern matches
  FieldRedacted  \* 'field_redacted', what an unobserved custom key becomes

Type == {"UUID", "IP", "Temporal", "Enum", "String", "Numeric",
         "AttrMap",    \* Map(String, String)
         "OtherMap",   \* a map with strings of another shape
         "Strings",    \* Array(String)
         "Values",     \* arrays of numbers and dates
         "Tuple",      \* other complex types without strings
         "Mixed",      \* complex types with strings inside
         "JSON"}

-----------------------------------------------------------------------------
(* Tokenizing model.                                                       *)

Class == {"time", "measure", "enum", "joinkey", "label", "freetext",
          "attrmap", "schemaless"}

KeyLike(c) == c.idName \/ c.inKey

Classify(c) ==
  CASE c.type \in {"UUID", "IP"} -> "joinkey"
    [] c.type = "Temporal" -> "time"
    [] c.type = "Enum" -> "enum"
    [] c.type = "String" /\ KeyLike(c) -> "joinkey"
    [] c.type = "String" /\ ~KeyLike(c) /\ c.lowCard -> "label"
    [] c.type = "String" /\ ~KeyLike(c) /\ ~c.lowCard -> "freetext"
    [] c.type = "Numeric" -> IF c.idName THEN "joinkey" ELSE "measure"
    [] c.type = "AttrMap" -> "attrmap"
    [] c.type \in {"Values", "Tuple"} -> "measure"
    [] OTHER -> "schemaless"

\* How the cells of a column of this class show in the sandbox (MaskExpr).
Shown(class) ==
  CASE class \in {"time", "measure", "enum"} -> "real"
    [] class \in {"joinkey", "label"} -> "hash"
    [] class = "freetext" -> "redacted"
    [] class = "attrmap" -> "per key"
    [] class = "schemaless" -> "excluded"

Included(c) == Shown(Classify(c)) # "excluded"

\* Its class in the schema guide, "none" for no row.
RegistryClassTokenizing(class) ==
  CASE class \in {"time", "measure", "enum"} -> "real"
    [] class \in {"label", "joinkey"} -> "identifier"
    [] class = "freetext" -> "redacted"
    [] class = "attrmap" -> "attrmap"
    [] OTHER -> "none"

-----------------------------------------------------------------------------
(* Attribute maps.  What the scan of a key's values says of it is a record *)
(* [pii, numeric, lowCard]: which of the three thresholds it reaches.      *)

\* Mutant: the name pattern is tried after the shape of the values.
ClassifyAttrKeyByValue(k, st) ==
  CASE st.pii -> "identity"
    [] ~st.pii /\ st.numeric -> "measure"
    [] ~st.pii /\ ~st.numeric /\ st.lowCard -> "vocabulary"
    [] OTHER -> IF k \in DenyKey THEN "identity" ELSE "sensitive"

AttrStats == [pii : BOOLEAN, numeric : BOOLEAN, lowCard : BOOLEAN]

ClassifyAttrKey(k, st) ==
  CASE k \in DenyKey \/ st.pii -> "identity"
    [] k \notin DenyKey /\ ~st.pii /\ st.numeric -> "measure"
    [] k \notin DenyKey /\ ~st.pii /\ ~st.numeric /\ st.lowCard -> "vocabulary"
    [] OTHER -> "sensitive"

\* AttrMaskSpec: vocabulary keys, measure keys, tokens of the custom keys.
NoSpec == [vocabulary |-> {}, measure |-> {}, custom |-> <<>>]

\* The key an entry has in the sandbox.
KeyShown(spec, k) ==
  CASE k \in DOMAIN spec.custom -> spec.custom[k]
    [] k \notin DOMAIN spec.custom /\ k \in Semconv -> k
    [] OTHER -> FieldRedacted

\* Its value is the real one; any other value is hashed.
ValueShown(spec, k, numeric) ==
  k \in spec.vocabulary \/ (k \in spec.measure /\ numeric)

-----------------------------------------------------------------------------
(* Schema-preserving model.  A class is a record [class, kind]; an operator*)
(* may override it with any text, class "other" being an unknown one.      *)

Keep      == [class |-> "keep", kind |-> "none"]
Redact    == [class |-> "redact", kind |-> "none"]
Drop      == [class |-> "drop", kind |-> "none"]
Tok(kind) == [class |-> "tok", kind |-> kind]
HashQid   == [class |-> "hash", kind |-> "qid"]

PreserveTokKinds == {"db", "tbl", "col", "user", "host", "dict"}

ClassifyPreserve(c, overrides) ==
  CASE c.nested -> Drop
    [] ~c.nested /\ c.name \in DOMAIN overrides -> overrides[c.name]
    [] OTHER ->
      CASE c.type \in {"AttrMap", "OtherMap"} -> IF c.internal THEN Keep ELSE Redact
        [] c.type \in {"UUID", "Temporal", "Enum", "Numeric", "Values"} -> Keep
        [] c.type = "IP" -> Redact
        [] OTHER ->
          CASE c.ident # "none" -> Tok(c.ident)
            [] c.ident = "none" /\ c.type \in {"String", "Strings", "Mixed"} ->
                 IF KeyLike(c) THEN HashQid ELSE Redact
            [] OTHER -> Drop

\* The column is in the sandbox table (PreserveMaskExpr); an override the tool
\* does not know drops it.
PreserveIncluded(cl) == cl.class \in {"keep", "redact", "tok", "hash"}

RegistryClassPreserving(cl) ==
  CASE cl.class = "keep" -> "real"
    [] cl.class = "redact" -> "redacted"
    [] cl.class \in {"tok", "hash"} -> "identifier"
    [] OTHER -> "none"

\* Mutant: columns of host names are masked and not minted.
PreserveMintsNames(cl) == cl.class = "tok" /\ cl.kind \in {"db", "tbl", "col"}

\* Its values are written to the secret identifier_map (PreserveMintSelect).
PreserveMints(cl) == cl.class = "tok" /\ cl.kind \in PreserveTokKinds
=============================================================================
