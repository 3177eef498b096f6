--------------------------- MODULE ExecuteProofs ---------------------------
(***************************************************************************)
(* Theorems about what a run of Execute publishes, for every source        *)
(* schema, every text, every HMAC and every outcome of the scans.          *)
(***************************************************************************)
EXTENDS Execute, WellFoundedInduction, TLAPS

-----------------------------------------------------------------------------
(* The identifier map: a token of a map that could be built stands for one *)
(* name, for every HMAC and all names.                                     *)

\* The digits of a token determine the halves it shows.
LEMMA TokenHex ==
  ASSUME NEW k1 \in Kind, NEW k2 \in Kind, NEW n1, NEW n2, NEW key,
         NEW len1 \in {HexLen, HexLenWide}, NEW len2 \in {HexLen, HexLenWide},
         Token(key, k1, n1, len1) = Token(key, k2, n2, len2)
  PROVE  /\ k1 = k2 /\ len1 = len2
         /\ \A i \in 1..len1 : Hmac[<<key, k1, n1>>][i] = Hmac[<<key, k2, n2>>][i]
<1> DEFINE hex1 == [i \in 1..len1 |-> Hmac[<<key, k1, n1>>][i]]
           hex2 == [i \in 1..len2 |-> Hmac[<<key, k2, n2>>][i]]
<1>1. Token(key, k1, n1, len1).kind = k1 /\ Token(key, k1, n1, len1).hex = hex1
  BY DEF Token
<1>2. Token(key, k2, n2, len2).kind = k2 /\ Token(key, k2, n2, len2).hex = hex2
  BY DEF Token
<1>3. k1 = k2 /\ hex1 = hex2
  BY <1>1, <1>2
<1>4. DOMAIN hex1 = 1..len1 /\ DOMAIN hex2 = 1..len2
  OBVIOUS
<1>5. 1..len1 = 1..len2
  BY <1>3, <1>4
<1>6. len1 = len2
  BY <1>5 DEF HexLen, HexLenWide
<1>7. ASSUME NEW i \in 1..len1
      PROVE  Hmac[<<key, k1, n1>>][i] = Hmac[<<key, k2, n2>>][i]
  <2>1. hex1[i] = Hmac[<<key, k1, n1>>][i]
    OBVIOUS
  <2>2. hex2[i] = Hmac[<<key, k2, n2>>][i]
    BY <1>6
  <2> QED
    BY <1>3, <2>1, <2>2
<1> QED
  BY <1>3, <1>6, <1>7

\* Everything the minter makes is in the reserved namespace.
LEMMA MintedReserved ==
  ASSUME NEW key \in Key, NEW k \in Kind, NEW n \in Name, NEW S
  PROVE  Minted(key, k, n, S) \in Reserved /\ Minted(key, k, n, S).kind = k
<1>1. Hmac[<<key, k, n>>] \in Half \X Half
  BY HmacAssumption
<1>2. \A i \in 1..2 : Hmac[<<key, k, n>>][i] \in Half
  BY <1>1
<1>3. [i \in 1..HexLen |-> Hmac[<<key, k, n>>][i]] \in [1..HexLen -> Half]
  BY <1>2 DEF HexLen
<1>4. [i \in 1..HexLenWide |-> Hmac[<<key, k, n>>][i]] \in [1..HexLenWide -> Half]
  BY <1>2 DEF HexLenWide
<1> QED
  BY <1>3, <1>4 DEF Minted, Token, Reserved

\* Two runs with one key: any two names that share eight digits were in one of
\* the two builds together.
SeenTogether(key, A, B) ==
  \A k \in Kind : \A n1 \in A[k] : \A n2 \in Colliding(key, k, n1, B[k]) :
    {n1, n2} \subseteq A[k] \/ {n1, n2} \subseteq B[k]

\* Two names of a kind that get one token are the same name: short tokens are
\* given only to names that share them with nobody, wide ones of a map that was
\* built tell the names that share the first half apart.
LEMMA MintedInjective ==
  ASSUME NEW key \in Key, NEW A \in [Kind -> SUBSET Name], NEW B \in [Kind -> SUBSET Name],
         ~BuildFails(key, A), ~BuildFails(key, B), SeenTogether(key, A, B),
         NEW k \in Kind, NEW n1 \in A[k], NEW n2 \in B[k],
         Minted(key, k, n1, A[k]) = Minted(key, k, n2, B[k])
  PROVE  n1 = n2
<1> DEFINE Digits(n, S) == IF Colliding(key, k, n, S) = {n} THEN HexLen ELSE HexLenWide
           d1 == Digits(n1, A[k])
           d2 == Digits(n2, B[k])
<1>1. d1 \in {HexLen, HexLenWide} /\ d2 \in {HexLen, HexLenWide}
  OBVIOUS
<1>2. Token(key, k, n1, d1) = Token(key, k, n2, d2)
  BY DEF Minted
<1> HIDE DEF d1, d2
<1>3. d1 = d2 /\ \A i \in 1..d1 : Hmac[<<key, k, n1>>][i] = Hmac[<<key, k, n2>>][i]
  BY <1>1, <1>2, TokenHex, SMTT(30)
<1>4. \A i \in 1..HexLen : Hmac[<<key, k, n1>>][i] = Hmac[<<key, k, n2>>][i]
  BY <1>1, <1>3 DEF HexLen, HexLenWide
<1>5. Token(key, k, n1, HexLen) = Token(key, k, n2, HexLen)
  BY <1>4, Zenon DEF Token
<1>6. SUFFICES ASSUME n1 # n2 PROVE FALSE
  OBVIOUS
<1>7. n2 \in Colliding(key, k, n1, B[k])
  BY <1>5 DEF Colliding
<1>8. {n1, n2} \subseteq A[k] \/ {n1, n2} \subseteq B[k]
  BY <1>7 DEF SeenTogether
<1>9. CASE {n1, n2} \subseteq A[k]
  <2>1. n2 \in Colliding(key, k, n1, A[k])
    BY <1>5, <1>9 DEF Colliding
  <2>2. d1 = HexLenWide
    BY <1>6, <2>1 DEF d1
  <2>3. Token(key, k, n2, HexLenWide) = Token(key, k, n1, HexLenWide)
    BY <1>2, <1>3, <2>2
  <2> QED
    BY <1>6, <2>1, <2>3 DEF BuildFails
<1>10. CASE {n1, n2} \subseteq B[k]
  <2>1. n1 \in Colliding(key, k, n2, B[k])
    BY <1>5, <1>10 DEF Colliding
  <2>2. d2 = HexLenWide
    BY <1>6, <2>1 DEF d2
  <2>3. Token(key, k, n1, HexLenWide) = Token(key, k, n2, HexLenWide)
    BY <1>2, <1>3, <2>2
  <2> QED
    BY <1>6, <2>1, <2>3 DEF BuildFails
<1> QED
  BY <1>8, <1>9, <1>10

\* A token of one run means the same name in any other run with the same key,
\* which is what the dictionary over the rows of all runs asks for
\* (01-token-dict.sql:11), provided names that share eight digits were once
\* built together.  Only kept names stand for themselves under several kinds.
THEOREM TokensNeverRemap ==
  ASSUME NEW key \in Key,
         NEW A \in [Kind -> SUBSET Name], NEW B \in [Kind -> SUBSET Name],
         ~BuildFails(key, A), ~BuildFails(key, B), SeenTogether(key, A, B),
         NEW keptA, \A k \in Kind : keptA[k] \cap Reserved = {},
         NEW keptB, \A k \in Kind : keptB[k] \cap Reserved = {},
         NEW k1 \in Kind, NEW k2 \in Kind,
         NEW n1 \in A[k1] \cup keptA[k1], NEW n2 \in B[k2] \cup keptB[k2],
         Built(key, A, keptA)[k1][n1] = Built(key, B, keptB)[k2][n2]
  PROVE  n1 = n2 /\ (k1 = k2 \/ n1 \in keptA[k1])
<1> DEFINE t1 == Minted(key, k1, n1, A[k1])
           t2 == Minted(key, k2, n2, B[k2])
<1>1. Built(key, A, keptA)[k1][n1] = IF n1 \in keptA[k1] THEN n1 ELSE t1
  BY DEF Built
<1>2. Built(key, B, keptB)[k2][n2] = IF n2 \in keptB[k2] THEN n2 ELSE t2
  BY DEF Built
<1>3. n1 \notin keptA[k1] => n1 \in A[k1] /\ t1 \in Reserved /\ t1.kind = k1
  BY MintedReserved
<1>4. n2 \notin keptB[k2] => n2 \in B[k2] /\ t2 \in Reserved /\ t2.kind = k2
  BY MintedReserved
<1> HIDE DEF t1, t2
<1>5. CASE n1 \in keptA[k1]
  BY <1>1, <1>2, <1>4, <1>5
<1>6. CASE n1 \notin keptA[k1]
  <2>1. n2 \notin keptB[k2] /\ t1 = t2
    BY <1>1, <1>2, <1>3, <1>6
  <2>2. k1 = k2
    BY <1>3, <1>4, <1>6, <2>1
  <2>3. n1 \in A[k1] /\ n2 \in B[k1]
    BY <1>3, <1>4, <1>6, <2>1, <2>2
  <2> QED
    BY <2>1, <2>2, <2>3, MintedInjective DEF t1, t2
<1> QED
  BY <1>5, <1>6

\* Without that proviso a token does change its meaning: when a run sees the
\* one and a later run only the other of two names with the same eight digits,
\* both call theirs by the same token.
THEOREM TokenReused ==
  ASSUME NEW key \in Key, NEW k \in Kind, NEW n1 \in Name, NEW n2 \in Name,
         Token(key, k, n1, HexLen) = Token(key, k, n2, HexLen),
         NEW A \in [Kind -> SUBSET Name], NEW keptA, n1 \in A[k], n1 \notin keptA[k],
         NEW B \in [Kind -> SUBSET Name], NEW keptB, n2 \in B[k], n2 \notin keptB[k],
         Colliding(key, k, n1, A[k]) = {n1}, Colliding(key, k, n2, B[k]) = {n2}
  PROVE  Built(key, A, keptA)[k][n1] = Built(key, B, keptB)[k][n2]
<1>1. Built(key, A, keptA)[k][n1] = Token(key, k, n1, HexLen)
  BY DEF Built, Minted
<1>2. Built(key, B, keptB)[k][n2] = Token(key, k, n2, HexLen)
  BY DEF Built, Minted
<1> QED
  BY <1>1, <1>2

\* A name keeps its token however the schema around it changes (token.go:5), as
\* long as nothing that shares its eight digits comes or goes.
THEOREM TokensStable ==
  ASSUME NEW key \in Key, NEW k \in Kind, NEW n,
         NEW A \in [Kind -> SUBSET Name], NEW keptA, n \in A[k], n \notin keptA[k],
         NEW B \in [Kind -> SUBSET Name], NEW keptB, n \in B[k], n \notin keptB[k],
         Colliding(key, k, n, A[k]) = Colliding(key, k, n, B[k])
  PROVE  Built(key, A, keptA)[k][n] = Built(key, B, keptB)[k][n]
<1>1. Minted(key, k, n, A[k]) = Minted(key, k, n, B[k])
  BY DEF Minted
<1> QED
  BY <1>1 DEF Built

\* Within one run tokens are injective over all kinds at once; only kept names
\* stand for themselves under more than one kind.
THEOREM BuiltInjective ==
  ASSUME NEW key \in Key, NEW names \in [Kind -> SUBSET Name], ~BuildFails(key, names),
         NEW verbatim, \A k \in Kind : verbatim[k] \cap Reserved = {},
         NEW k1 \in Kind, NEW k2 \in Kind,
         NEW n1 \in names[k1] \cup verbatim[k1], NEW n2 \in names[k2] \cup verbatim[k2],
         Built(key, names, verbatim)[k1][n1] = Built(key, names, verbatim)[k2][n2]
  PROVE  n1 = n2 /\ (k1 = k2 \/ n1 \in verbatim[k1])
<1>1. SeenTogether(key, names, names)
  BY DEF SeenTogether, Colliding
<1> QED
  BY <1>1, TokensNeverRemap

-----------------------------------------------------------------------------
(* The rewriter.                                                           *)

\* The tokens and kept names of a map.
WordsOfMap(f) == UNION {{f[k][n] : n \in DOMAIN f[k]} : k \in Kind}

LEMMA LeastIndex ==
  ASSUME NEW S \in SUBSET Nat, S # {}
  PROVE  \E m \in S : \A i \in S : m <= i
<1>1. PICK m \in S : \A i \in S : <<i, m>> \notin OpToRel(<, Nat)
  BY WFMin, NatLessThanWellFounded, Zenon
<1>2. \A i \in S : ~(i < m)
  BY <1>1, Zenon DEF OpToRel
<1> QED
  BY <1>2

LEMMA ProbeKinds ==
  ASSUME NEW text, NEW i
  PROVE  Probe \in Seq(Kind) /\ ProbeOrder(text, i) \in Seq(Kind)
<1>1. Probe \in Seq(Kind)
  BY DEF Probe, Kind
<1>2. <<"db", "tbl", "dict">> \in Seq(Kind) /\ <<"tbl", "db", "dict">> \in Seq(Kind)
  BY DEF Kind
<1>3. <<"col", "tbl">> \in Seq(Kind)
  BY DEF Kind
<1> QED
  BY <1>1, <1>2, <1>3 DEF ProbeOrder

\* Whatever order the kinds are asked in, a name known under one of them gets
\* a word of the map.
LEMMA FirstKnownInMap ==
  ASSUME NEW f, NEW n, KnownAs(f, n), NEW order \in Seq(Kind)
  PROVE  \E k \in Kind : n \in DOMAIN f[k] /\ FirstKnown(f, n, order) = f[k][n]
<1> DEFINE tried == KindsTried(order)
           S == {i \in DOMAIN tried : Has(f, tried[i], n)}
           IsFirst(i) == /\ Has(f, tried[i], n)
                         /\ \A j \in 1..(i - 1) : ~Has(f, tried[j], n)
<1>1. /\ tried \in Seq(Kind) /\ Len(tried) = Len(order) + Len(Probe)
      /\ \A i \in 1..Len(Probe) : tried[Len(order) + i] = Probe[i]
  BY ProbeKinds DEF KindsTried
<1>2. PICK k \in ProbedKinds : Has(f, k, n)
  BY DEF KnownAs
<1>3. PICK i \in 1..Len(Probe) : k = Probe[i]
  BY ProbeKinds DEF ProbedKinds, ToSet
<1>4. Len(order) + i \in DOMAIN tried
  BY <1>1, ProbeKinds
<1>5. tried[Len(order) + i] = k
  BY <1>1, <1>3
<1> HIDE DEF tried
<1>6. S # {}
  BY <1>2, <1>4, <1>5
<1>7. S \in SUBSET Nat
  BY <1>1
<1>8. PICK m \in S : \A j \in S : m <= j
  BY <1>6, <1>7, LeastIndex
<1>9. m \in DOMAIN tried /\ IsFirst(m)
  <2>1. ASSUME NEW j \in 1..(m - 1), Has(f, tried[j], n) PROVE FALSE
    <3>1. m \in Nat /\ m \in 1..Len(tried)
      BY <1>1, <1>7
    <3>2. j \in DOMAIN tried /\ ~(m <= j)
      BY <1>1, <3>1
    <3> QED
      BY <1>8, <2>1, <3>2
  <2> QED
    BY <2>1
<1> DEFINE first == CHOOSE j \in DOMAIN tried : IsFirst(j)
<1>10. first \in DOMAIN tried /\ IsFirst(first)
  BY <1>9
<1>11. FirstKnown(f, n, order) = f[tried[first]][n]
  BY DEF FirstKnown, tried
<1>12. tried[first] \in Kind /\ n \in DOMAIN f[tried[first]]
  BY <1>1, <1>10 DEF Has
<1> HIDE DEF first
<1> QED
  BY <1>11, <1>12

\* A rewritten text shows words of the map and public words only, whatever the
\* text and whatever the map.
LEMMA RewrittenPublic ==
  ASSUME NEW f, NEW text, IsText(text)
  PROVE  Rewritten(f, text) \subseteq
           WordsOfMap(f) \cup Keyword \cup Vocab \cup SafeLiteral \cup {Redacted}
<1> DEFINE P == WordsOfMap(f) \cup Keyword \cup Vocab \cup SafeLiteral \cup {Redacted}
<1>1. ASSUME NEW n PROVE MustSQL(f, n) \in P
  BY DEF MustSQL, Has, WordsOfMap, Kind
<1>2. ASSUME NEW i \in DOMAIN text PROVE RewriteLexeme(f, text, i) \subseteq P
           \/ text[i].type = "stray"
  <2> DEFINE n == text[i].name
  <2>1. KnownAs(f, n) => /\ FirstKnown(f, n, Probe) \in P
                         /\ FirstKnown(f, n, ProbeOrder(text, i)) \in P
    BY FirstKnownInMap, ProbeKinds DEF WordsOfMap
  <2>2. MustSQL(f, n) \in P
    BY <1>1
  <2>3. text[i].type \in LexemeType
    BY DEF IsText
  <2> QED
    BY <2>1, <2>2, <2>3 DEF RewriteLexeme, LexemeType
<1> QED
  BY <1>2 DEF Rewritten

\* A name that is mapped without an error gets a word of the map.
LEMMA MappedInMap ==
  ASSUME NEW f, NEW k \in Kind, NEW n, ~MapFails(f, k, n)
  PROVE  MapTo(f, k, n) \in WordsOfMap(f) \cup {NoName}
BY DEF MapFails, MapTo, Has, WordsOfMap

-----------------------------------------------------------------------------
(* The inductive invariant.                                                *)

\* The phases before anything is published, those before the map is built, and
\* those that publish tokens.
BeforeRoster == {"start", "shape", "roster"}
BeforeBuild  == BeforeRoster \cup {"columns", "relations", "mining", "observe", "observeSql",
                                   "build"}
NoneYet      == BeforeBuild \cup {"plan"}
Publishing   == {"sandbox", "map", "profile", "guide", "verify", "manifest"}

\* What was read comes from the source: the texts are texts.
SourceInv ==
  /\ cfg \in Config
  /\ tables \subseteq TableName
  /\ \A t \in TableName : columns[t] \subseteq Schema[t].columns
  /\ hot \subseteq tables \cap DOMAIN Workload
  /\ \A r \in rels : IsText(r.detail)

\* The names of the map, and the map made of them.
MapInv ==
  /\ pc \notin BeforeRoster \cup {"failed"} => cfg.sourceDb \notin Reserved
  /\ keep \in NameSets /\ values \in NameSets
  /\ \A k \in Kind : keep[k] \cap Reserved = {}
  /\ pc \in BeforeBuild => fwd = [k \in Kind |-> <<>>]
  /\ \/ fwd = [k \in Kind |-> <<>>]
     \/ ~BuildFails(cfg.key, values) /\ fwd = Built(cfg.key, values, keep)

\* Nothing is published early, and what is published later could be mapped.
PublishedInv ==
  /\ pc \in NoneYet => built = {} /\ profile = {} /\ guide = {}
  /\ pc \in Publishing => ~Unmapped(Planned(scans))
  /\ built \subseteq tables
  /\ NothingRealPublished

Inv == SourceInv /\ MapInv /\ PublishedInv

-----------------------------------------------------------------------------
(* The steps of the system, seen from the tokenizing model.                *)

PreservePcs == {"trusted", "tables", "database", "dbRegister", "dbCreate", "check", "register",
                "drop", "create", "count", "mint", "maskingPlan", "registryRows"}

\* A step that changes nothing the tokenizing model reads or writes.
Quiet ==
  /\ UNCHANGED <<cfg, tables, columns, tokenizeVars>>
  /\ \/ UNCHANGED <<pc, why>>
     \/ pc' = "failed" /\ why' \in {"stopped", "foreign"}
     \/ pc \in PreservePcs /\ pc' \in PreservePcs \cup {"done"} /\ UNCHANGED why

LEMMA PreserveQuiet == PreserveStep /\ UNCHANGED tokenizeVars => Quiet
<1> SUFFICES ASSUME PreserveStep, UNCHANGED tokenizeVars PROVE Quiet
  OBVIOUS
<1> USE DEF Quiet, PreservePcs, Proceed
<1>1. CASE InitTrusted
  BY <1>1 DEF InitTrusted
<1>2. CASE CheckDatabase
  BY <1>2 DEF CheckDatabase, GiveUp, Fail
<1>3. CASE RegisterDatabase
  BY <1>3 DEF RegisterDatabase
<1>4. CASE CreateDatabase
  BY <1>4 DEF CreateDatabase
<1>5. CASE Check
  BY <1>5 DEF Check, Skip
<1>6. CASE Register
  BY <1>6 DEF Register
<1>7. CASE DropTable
  BY <1>7 DEF DropTable
<1>8. CASE Create
  BY <1>8 DEF Create
<1>9. CASE Count
  BY <1>9 DEF Count
<1>10. CASE StatementFails
  BY <1>10 DEF StatementFails, Skip
<1>11. CASE BeginMint
  BY <1>11 DEF BeginMint
<1>12. CASE WriteIdentifiers
  BY <1>12 DEF WriteIdentifiers
<1>13. CASE WriteMaskingPlan
  BY <1>13 DEF WriteMaskingPlan
<1>14. CASE WriteRegistryRows
  BY <1>14 DEF WriteRegistryRows
<1>15. CASE \E t \in todo : NextTable(t)
  BY <1>15 DEF NextTable
<1>16. CASE \E a \in toMint : MintColumn(a)
  BY <1>16 DEF MintColumn
<1> QED
  BY <1>1, <1>2, <1>3, <1>4, <1>5, <1>6, <1>7, <1>8, <1>9, <1>10, <1>11, <1>12, <1>13, <1>14, <1>15, <1>16 DEF PreserveStep

LEMMA Steps ==
  [Next]_vars =>
    \/ (InitStores \/ Shape \/ Roster \/ Columns) /\ UNCHANGED tokenizeVars
    \/ TokenizeStep
    \/ Quiet
<1>1. Stopped => Quiet
  BY DEF Stopped, Stop, Fail, Quiet
<1>2. Others => Quiet
  BY DEF Others, catalogVars, Quiet
<1>3. UNCHANGED vars => Quiet
  BY DEF vars, catalogVars, Quiet
<1> QED
  BY <1>1, <1>2, <1>3, PreserveQuiet DEF Next, Run, Phase

-----------------------------------------------------------------------------
(* Each part of the invariant is preserved.                                *)

LEMMA SourceNext == SourceInv /\ [Next]_vars => SourceInv'
<1> SUFFICES ASSUME SourceInv, [Next]_vars PROVE SourceInv'
  OBVIOUS
<1> USE DEF SourceInv, Goto, Abort, Fail
<1>1. CASE InitStores /\ UNCHANGED tokenizeVars
  BY <1>1 DEF InitStores, tokenizeVars, foundVars
<1>2. CASE Shape /\ UNCHANGED tokenizeVars
  BY <1>2 DEF Shape, tokenizeVars, foundVars
<1>3. CASE Roster /\ UNCHANGED tokenizeVars
  BY <1>3 DEF Roster, tokenizeVars, foundVars
<1>4. CASE Columns /\ UNCHANGED tokenizeVars
  BY <1>4 DEF Columns, tokenizeVars, foundVars
<1>5. CASE Relations
  <2>1. \A t \in TableName : \A x \in RelationsOf(t) : x.detail \in {Schema[t].detail, <<>>}
    <3>1. ASSUME NEW kind, NEW t, NEW dst, NEW d PROVE Relation(kind, t, dst, d).detail = d
      BY DEF Relation
    <3>2. ASSUME NEW t, NEW x \in ViewRefs(t) PROVE x.detail = <<>>
      <4>1. PICK n : x = Relation("view", t, <<cfg.sourceDb, n>>, <<>>)
        BY Zenon DEF ViewRefs
      <4> QED
        BY <3>1, <4>1
    <3> QED
      BY <3>1, <3>2 DEF RelationsOf
  <2>2. \A x \in Dictionaries : \E t \in TableName : x.detail = Schema[t].detail
    BY DEF Dictionaries, Relation
  <2>3. IsText(<<>>) /\ \A t \in TableName : IsText(Schema[t].detail)
    BY TextAssumption DEF IsText
  <2> DEFINE found == UNION {RelationsOf(t) : t \in tables}
  <2>4. PICK dicts \in {{}, Dictionaries} : rels' = dicts \cup found
    BY <1>5 DEF Relations
  <2> HIDE DEF found
  <2>5. \A x \in rels' : IsText(x.detail)
    <3> SUFFICES ASSUME NEW x, x \in rels' PROVE IsText(x.detail)
      OBVIOUS
    <3>1. CASE x \in dicts
      BY <2>2, <2>3, <3>1
    <3>2. CASE \E t \in tables : x \in RelationsOf(t)
      BY <2>1, <2>3, <3>2
    <3>3. x \in found \/ x \in dicts
      BY <2>4
    <3>4. x \in found => \E t \in tables : x \in RelationsOf(t)
      BY DEF found
    <3> QED
      BY <3>1, <3>2, <3>3, <3>4
  <2> QED
    BY <1>5, <2>5 DEF Relations
<1>6. CASE Mining
  <2>1. hot' \subseteq tables \cap DOMAIN Workload
    BY <1>6 DEF Mining, InScope
  <2> QED
    BY <1>6, <2>1 DEF Mining
<1>7. CASE ObserveNames
  BY <1>7 DEF ObserveNames, foundVars
<1>8. CASE ObserveSQL
  BY <1>8 DEF ObserveSQL, foundVars
<1>9. CASE Build
  BY <1>9 DEF Build, foundVars
<1>10. CASE WritePlan
  BY <1>10 DEF WritePlan, foundVars
<1>11. CASE SandboxTables
  BY <1>11 DEF SandboxTables, foundVars
<1>12. CASE WriteMap
  BY <1>12 DEF WriteMap, foundVars
<1>13. CASE WriteProfile
  BY <1>13 DEF WriteProfile, foundVars
<1>14. CASE WriteGuide
  BY <1>14 DEF WriteGuide, foundVars
<1>15. CASE Verify
  BY <1>15 DEF Verify, foundVars
<1>16. CASE WriteManifest
  BY <1>16 DEF WriteManifest, foundVars
<1>17. CASE Quiet
  BY <1>17 DEF Quiet, tokenizeVars, foundVars
<1> QED
  BY <1>1, <1>2, <1>3, <1>4, <1>5, <1>6, <1>7, <1>8, <1>9, <1>10, <1>11, <1>12, <1>13, <1>14, <1>15, <1>16, <1>17, Steps DEF TokenizeStep

LEMMA ObservedNames ==
  ASSUME values \in NameSets, NEW K, NEW S
  PROVE  ObserveAll(values, K, S) \in NameSets
BY DEF ObserveAll, NameSets

\* Names that are kept are no token lookalikes: the source's own name was
\* checked with the roster.
LEMMA KeptNotReserved ==
  ASSUME SourceInv, MapInv, pc = "observe"
  PROVE  KeptNames \in NameSets /\ \A k \in Kind : KeptNames[k] \cap Reserved = {}
<1>1. cfg.sourceDb \in Name /\ cfg.sourceDb \notin Reserved
  BY CatalogAssumption DEF SourceInv, MapInv, Config, BeforeRoster
<1>2. ASSUME NEW K \in NameSets, \A k \in Kind : K[k] \cap Reserved = {},
             NEW n \in Name, n \notin Reserved
      PROVE  /\ KeepVerbatim(K, "db", n) \in NameSets
             /\ \A k \in Kind : KeepVerbatim(K, "db", n)[k] \cap Reserved = {}
  BY <1>2 DEF KeepVerbatim, NameSets
<1>3. {DefaultDb, SystemDb} \subseteq Name /\ {DefaultDb, SystemDb} \cap Reserved = {}
  BY CatalogAssumption
<1> QED
  BY <1>1, <1>2, <1>3 DEF MapInv, KeptNames

LEMMA MapNext == SourceInv /\ MapInv /\ [Next]_vars => MapInv'
<1> SUFFICES ASSUME SourceInv, MapInv, [Next]_vars PROVE MapInv'
  OBVIOUS
<1> USE DEF MapInv, Goto, Abort, Fail, BeforeRoster, BeforeBuild
<1>1. CASE InitStores /\ UNCHANGED tokenizeVars
  BY <1>1 DEF InitStores, tokenizeVars, mapVars
<1>2. CASE Shape /\ UNCHANGED tokenizeVars
  BY <1>2 DEF Shape, tokenizeVars, mapVars
<1>3. CASE Roster /\ UNCHANGED tokenizeVars
  <2>1. pc' = "failed" \/ cfg.sourceDb \notin Reserved
    BY <1>3 DEF Roster, RosterRefused
  <2> QED
    BY <1>3, <2>1 DEF Roster, tokenizeVars, mapVars
<1>4. CASE Columns /\ UNCHANGED tokenizeVars
  BY <1>4 DEF Columns, tokenizeVars, mapVars
<1>5. CASE Relations
  BY <1>5 DEF Relations, mapVars
<1>6. CASE Mining
  BY <1>6 DEF Mining, mapVars
<1>7. CASE ObserveNames
  <2>1. keep' = KeptNames /\ \E S : values' = ObserveAll(values, KeptNames, S)
    BY <1>7 DEF ObserveNames
  <2>2. values' \in NameSets
    BY <2>1, ObservedNames
  <2>3. keep' \in NameSets /\ \A k \in Kind : keep'[k] \cap Reserved = {}
    BY <1>7, <2>1, KeptNotReserved DEF ObserveNames
  <2> QED
    BY <1>7, <2>2, <2>3 DEF ObserveNames
<1>8. CASE ObserveSQL
  <2>1. values' \in NameSets
    BY <1>8, ObservedNames DEF ObserveSQL
  <2> QED
    BY <1>8, <2>1 DEF ObserveSQL
<1>9. CASE Build
  BY <1>9 DEF Build, mapVars
<1>10. CASE WritePlan
  BY <1>10 DEF WritePlan, mapVars
<1>11. CASE SandboxTables
  BY <1>11 DEF SandboxTables, mapVars
<1>12. CASE WriteMap
  BY <1>12 DEF WriteMap, mapVars
<1>13. CASE WriteProfile
  BY <1>13 DEF WriteProfile, mapVars
<1>14. CASE WriteGuide
  BY <1>14 DEF WriteGuide, mapVars
<1>15. CASE Verify
  BY <1>15 DEF Verify, mapVars
<1>16. CASE WriteManifest
  BY <1>16 DEF WriteManifest, mapVars
<1>17. CASE Quiet
  BY <1>17 DEF Quiet, tokenizeVars, mapVars, PreservePcs
<1> QED
  BY <1>1, <1>2, <1>3, <1>4, <1>5, <1>6, <1>7, <1>8, <1>9, <1>10, <1>11, <1>12, <1>13, <1>14, <1>15, <1>16, <1>17, Steps DEF TokenizeStep

-----------------------------------------------------------------------------
(* What the phases that publish show.                                      *)

Harmless == Public \cup Tokens

LEMMA MapHarmless ==
  ASSUME NEW k \in Kind, NEW n, ~MapFails(fwd, k, n)
  PROVE  MapTo(fwd, k, n) \in Harmless
<1>1. Tokens = WordsOfMap(fwd)
  BY DEF Tokens, WordsOfMap
<1> QED
  BY <1>1, MappedInMap DEF Harmless, Public

\* The plan could be written: the names of the catalog and the custom keys of
\* the scans are in the map.
LEMMA PlanMapped ==
  ASSUME ~Unmapped(Planned(scans))
  PROVE  /\ ~MapFails(fwd, "db", cfg.sourceDb)
         /\ \A t \in tables : /\ ~MapFails(fwd, "tbl", t)
                             /\ \A c \in columns[t] : ~MapFails(fwd, "col", c.name)
         /\ \A a \in AttrColumns : \A k \in CustomKeys(scans[a].stats) : ~MapFails(fwd, "field", k)
<1>1. \A x \in Planned(scans) : ~MapFails(fwd, x[1], x[2])
  BY DEF Unmapped
<1>2. <<"db", cfg.sourceDb>> \in Planned(scans)
  BY DEF Planned, CatalogNames
<1>3. \A t \in tables : <<"tbl", t>> \in Planned(scans)
  BY DEF Planned, CatalogNames, OfKind
<1>4. ASSUME NEW t \in tables, NEW c \in columns[t] PROVE <<"col", c.name>> \in Planned(scans)
  <2>1. <<"col", c.name>> \in OfKind("col", {d.name : d \in columns[t]})
    BY DEF OfKind
  <2> QED
    BY <2>1 DEF Planned, CatalogNames
<1>5. ASSUME NEW a \in AttrColumns, NEW k \in CustomKeys(scans[a].stats)
      PROVE  <<"field", k>> \in Planned(scans)
  <2>1. <<"field", k>> \in OfKind("field", CustomKeys(scans[a].stats))
    BY DEF OfKind
  <2> QED
    BY <2>1 DEF Planned, ObservedFields
<1> QED
  BY <1>1, <1>2, <1>3, <1>4, <1>5

LEMMA DdlHarmless ==
  ASSUME ~Unmapped(Planned(scans)), NEW t \in tables
  PROVE  DdlWords(t) \subseteq Harmless \cup KeptTypeWords(t)
<1>1. MapTo(fwd, "tbl", t) \in Harmless
  BY PlanMapped, MapHarmless DEF Kind
<1>2. \A c \in IncludedColumns(t) : MapTo(fwd, "col", c.name) \in Harmless
  BY PlanMapped, MapHarmless DEF Kind, IncludedColumns
<1>3. cfg.destDb \in Harmless /\ DdlVocab \subseteq Harmless
  BY TextAssumption DEF Harmless, Public
<1> QED
  BY <1>1, <1>2, <1>3 DEF DdlWords

LEMMA AttrKeysHarmless ==
  ASSUME ~Unmapped(Planned(scans))
  PROVE  AttrKeysShown \subseteq Harmless
<1> SUFFICES ASSUME NEW a \in AttrColumns, NEW k \in DOMAIN scans[a].stats
             PROVE  KeyShown(SpecOf(a), k) \in Harmless
  BY DEF AttrKeysShown
<1>1. /\ DOMAIN SpecOf(a).custom = CustomKeys(scans[a].stats)
      /\ \A x \in CustomKeys(scans[a].stats) : SpecOf(a).custom[x] = MapTo(fwd, "field", x)
  BY DEF SpecOf
<1>2. \A x \in CustomKeys(scans[a].stats) : MapTo(fwd, "field", x) \in Harmless
  BY PlanMapped, MapHarmless DEF Kind
<1>3. Semconv \subseteq Harmless /\ FieldRedacted \in Harmless
  BY DEF Harmless, Public
<1> QED
  BY <1>1, <1>2, <1>3 DEF KeyShown

LEMMA GuideHarmless ==
  ASSUME ~Unmapped(Planned(scans)), NEW g \in GuideRows
  PROVE  g.table \in Harmless /\ g.column \in Harmless
<1>1. PICK t \in tables : \E c \in columns[t] :
        g.table = MapTo(fwd, "tbl", t) /\ g.column = MapTo(fwd, "col", c.name)
  BY DEF GuideRows
<1> QED
  BY <1>1, PlanMapped, MapHarmless DEF Kind

LEMMA ProfileHarmless ==
  ASSUME SourceInv, ~Unmapped(Planned(scans)), ~Unmapped(ProfileNames)
  PROVE  ProfileWords \subseteq Harmless
<1>1. \A x \in ProfileNames : MapTo(fwd, x[1], x[2]) \in Harmless
  <2>1. \A x \in ProfileNames : x[1] \in Kind
    BY DEF ProfileNames, CatalogNames, WorkloadNames, RelationNames, OfKind, Kind
  <2> QED
    BY <2>1, MapHarmless DEF Unmapped
<1>2. \A x \in ProfileTexts : IsText(x)
  <2>1. \A r \in rels : IsText(r.detail)
    BY DEF SourceInv
  <2>2. \A t \in tables : IsText(Schema[t].key) /\ \A c \in columns[t] : IsText(c.words)
    BY TextAssumption DEF SourceInv
  <2>3. \A t \in hot : \A x \in Workload[t].shapes : IsText(x)
    BY TextAssumption DEF SourceInv
  <2> QED
    BY <2>1, <2>2, <2>3 DEF ProfileTexts
<1>3. ASSUME NEW x \in ProfileTexts PROVE Rewritten(fwd, x) \subseteq Harmless
  <2>1. Tokens = WordsOfMap(fwd)
    BY DEF Tokens, WordsOfMap
  <2> QED
    BY <1>2, <2>1, RewrittenPublic DEF Harmless, Public
<1> QED
  BY <1>1, <1>3, AttrKeysHarmless DEF ProfileWords

\* What is published stays harmless while nothing is published.
LEMMA StillHarmless ==
  ASSUME NothingRealPublished, UNCHANGED <<cfg, columns, fwd, built, profile, guide>>
  PROVE  NothingRealPublished'
BY DEF NothingRealPublished, Public, Tokens, GuideWords, DdlWords, IncludedColumns, KeptTypeWords

LEMMA StillMapped ==
  ASSUME ~Unmapped(Planned(scans)), UNCHANGED <<cfg, tables, columns, fwd, scans>>
  PROVE  ~Unmapped(Planned(scans))'
BY DEF Unmapped, Planned, CatalogNames, ObservedFields, AttrColumns

LEMMA NothingYet ==
  ASSUME built' = {}, profile' = {}, guide' = {}
  PROVE  NothingRealPublished'
BY DEF NothingRealPublished, GuideWords

LEMMA PublishedNext == SourceInv /\ PublishedInv /\ [Next]_vars => PublishedInv'
<1> SUFFICES ASSUME SourceInv, PublishedInv, [Next]_vars PROVE PublishedInv'
  OBVIOUS
<1> USE DEF PublishedInv, Goto, Abort, Fail, NoneYet, BeforeBuild, BeforeRoster, Publishing
<1>1. CASE InitStores /\ UNCHANGED tokenizeVars
  BY <1>1, NothingYet DEF InitStores, tokenizeVars, publishedVars
<1>2. CASE Shape /\ UNCHANGED tokenizeVars
  BY <1>2, NothingYet DEF Shape, tokenizeVars, publishedVars
<1>3. CASE Roster /\ UNCHANGED tokenizeVars
  BY <1>3, NothingYet DEF Roster, tokenizeVars, publishedVars
<1>4. CASE Columns /\ UNCHANGED tokenizeVars
  BY <1>4, NothingYet DEF Columns, tokenizeVars, publishedVars
<1>5. CASE Relations
  BY <1>5, NothingYet DEF Relations, publishedVars
<1>6. CASE Mining
  BY <1>6, NothingYet DEF Mining, publishedVars
<1>7. CASE ObserveNames
  BY <1>7, NothingYet DEF ObserveNames, publishedVars
<1>8. CASE ObserveSQL
  BY <1>8, NothingYet DEF ObserveSQL, publishedVars
<1>9. CASE Build
  BY <1>9, NothingYet DEF Build, publishedVars
<1>10. CASE WritePlan
  <2>1. PICK now : scans' = now /\ IF Unmapped(Planned(now)) THEN pc' = "failed" ELSE pc' = "sandbox"
    BY <1>10 DEF WritePlan
  <2>2. UNCHANGED <<cfg, tables, columns, fwd>>
    BY <1>10 DEF WritePlan, mapVars
  <2>3. CatalogNames' = CatalogNames /\ AttrColumns' = AttrColumns
    BY <2>2 DEF CatalogNames, AttrColumns
  <2>4. Planned(scans)' = Planned(now)
    BY <2>1, <2>3 DEF Planned, ObservedFields
  <2>5. Unmapped(Planned(scans))' <=> Unmapped(Planned(now))
    BY <2>2, <2>4 DEF Unmapped
  <2> QED
    BY <1>10, <2>1, <2>5, NothingYet DEF WritePlan, publishedVars
<1>11. CASE SandboxTables
  <2>1. built' \subseteq tables
    BY <1>11 DEF SandboxTables, Materialized
  <2>2. \A t \in built' : DdlWords(t) \subseteq Harmless \cup KeptTypeWords(t)
    BY <1>11, <2>1, DdlHarmless DEF SandboxTables
  <2>3. NothingRealPublished'
    BY <1>11, <2>2 DEF SandboxTables, mapVars, Harmless, NothingRealPublished, Public, Tokens,
         GuideWords, DdlWords, IncludedColumns, KeptTypeWords
  <2>4. ~Unmapped(Planned(scans))'
    BY <1>11, StillMapped DEF SandboxTables, mapVars
  <2> QED
    BY <1>11, <2>1, <2>3, <2>4 DEF SandboxTables
<1>12. CASE WriteMap
  BY <1>12, StillHarmless, StillMapped DEF WriteMap, mapVars
<1>13. CASE WriteProfile
  <2>1. profile' \subseteq Harmless
    BY <1>13, ProfileHarmless DEF WriteProfile, Harmless, NothingRealPublished
  <2>2. NothingRealPublished'
    BY <1>13, <2>1 DEF WriteProfile, mapVars, Harmless, NothingRealPublished, Public, Tokens,
         GuideWords, DdlWords, IncludedColumns, KeptTypeWords
  <2> QED
    BY <1>13, <2>2, StillMapped DEF WriteProfile, mapVars
<1>14. CASE WriteGuide
  <2>1. UNION {{g.table, g.column} : g \in guide'} \subseteq Harmless
    BY <1>14, GuideHarmless DEF WriteGuide
  <2>2. NothingRealPublished'
    BY <1>14, <2>1 DEF WriteGuide, mapVars, Harmless, NothingRealPublished, Public, Tokens,
         GuideWords, DdlWords, IncludedColumns, KeptTypeWords
  <2> QED
    BY <1>14, <2>2, StillMapped DEF WriteGuide, mapVars
<1>15. CASE Verify
  <2>1. profile' \subseteq Harmless
    <3>1. MapTo(fwd, "db", cfg.sourceDb) \in Harmless
      BY <1>15, PlanMapped, MapHarmless DEF Verify, Kind
    <3>2. \A t \in tables : MapTo(fwd, "tbl", t) \in Harmless
      BY <1>15, PlanMapped, MapHarmless DEF Verify, Kind
    <3> QED
      BY <1>15, <3>1, <3>2 DEF Verify, Harmless, NothingRealPublished
  <2>2. NothingRealPublished'
    BY <1>15, <2>1 DEF Verify, mapVars, Harmless, NothingRealPublished, Public, Tokens,
         GuideWords, DdlWords, IncludedColumns, KeptTypeWords
  <2> QED
    BY <1>15, <2>2, StillMapped DEF Verify, mapVars
<1>16. CASE WriteManifest
  BY <1>16, StillHarmless DEF WriteManifest, mapVars
<1>17. CASE Quiet
  BY <1>17, StillHarmless, StillMapped DEF Quiet, tokenizeVars, mapVars, publishedVars, PreservePcs
<1> QED
  BY <1>1, <1>2, <1>3, <1>4, <1>5, <1>6, <1>7, <1>8, <1>9, <1>10, <1>11, <1>12, <1>13, <1>14, <1>15, <1>16, <1>17, Steps DEF TokenizeStep

-----------------------------------------------------------------------------
(* The theorems.                                                           *)

LEMMA InvInit == Init => Inv
<1> SUFFICES ASSUME Init PROVE Inv
  OBVIOUS
<1> USE DEF Init, CatalogInit, TokenizeInit
<1>1. SourceInv
  BY DEF SourceInv
<1>2. MapInv
  BY DEF MapInv, BeforeRoster, BeforeBuild, NameSets, NothingObserved
<1>3. PublishedInv
  BY DEF PublishedInv, NothingRealPublished, GuideWords, Publishing
<1> QED
  BY <1>1, <1>2, <1>3 DEF Inv

LEMMA Invariance == Spec => []Inv
<1>1. Inv /\ [Next]_vars => Inv'
  BY SourceNext, MapNext, PublishedNext DEF Inv
<1> QED
  BY <1>1, InvInit, PTL DEF Spec

LEMMA InvMapInjective == Inv => MapInjective
<1> SUFFICES ASSUME Inv, NEW k1 \in Kind, NEW k2 \in Kind,
                    NEW n1 \in DOMAIN fwd[k1], NEW n2 \in DOMAIN fwd[k2],
                    fwd[k1][n1] = fwd[k2][n2]
             PROVE  n1 = n2 /\ (k1 = k2 \/ n1 \in keep[k1])
  BY DEF MapInjective
<1>1. ~BuildFails(cfg.key, values) /\ fwd = Built(cfg.key, values, keep)
  BY DEF Inv, MapInv
<1>2. n1 \in values[k1] \cup keep[k1] /\ n2 \in values[k2] \cup keep[k2]
  BY <1>1 DEF Built
<1>3. cfg.key \in Key /\ values \in [Kind -> SUBSET Name]
  BY DEF Inv, SourceInv, MapInv, Config, NameSets
<1>4. \A k \in Kind : keep[k] \cap Reserved = {}
  BY DEF Inv, MapInv
<1> QED
  BY <1>1, <1>2, <1>3, <1>4, BuiltInjective

\* Tokens are injective over all kinds, in every run, for every HMAC, also when
\* names collide in eight digits or look like tokens themselves.
THEOREM TokensInjective == Spec => []MapInjective
BY Invariance, InvMapInjective, PTL

\* The profile, the guide and the sandbox's CREATE statements show tokens and
\* public words only, for every schema, every text and all outcomes of scans.
THEOREM OnlyTokensPublished == Spec => []NothingRealPublished
<1>1. Inv => NothingRealPublished
  BY DEF Inv, PublishedInv
<1> QED
  BY <1>1, Invariance, PTL
=============================================================================
