------------------------------- MODULE IdMap -------------------------------
(***************************************************************************)
(* The identifier map (anon/internal/idmap) and the token minter           *)
(* (anon/internal/token).                                                  *)
(*                                                                         *)
(* A run registers every identifier it has seen, by kind, and then builds  *)
(* the map once: each observed name gets a token computed from the HMAC    *)
(* key, kept names map to themselves.  A token is the record of its kind   *)
(* and of its hex digits in groups of eight; a token's eight-digit groups  *)
(* are members of Half.  A real name that matches ReservedRe is one that   *)
(* could be a token: Name and Reserved may intersect.                      *)
(***************************************************************************)
EXTENDS Integers, Sequences

CONSTANTS
  Key,     \* HMAC keys
  Name,    \* the identifiers of the source cluster
  NoName,  \* the empty string
  Half,    \* eight hex digits
  Hmac     \* the first sixteen digits of HMAC-SHA256, as two halves

Kind == {"db", "tbl", "col", "user", "role", "dict", "cluster", "disk",
         "host", "sql", "field", "enum"}

HexLen     == 1  \* one group of eight digits
HexLenWide == 2

ASSUME HmacAssumption == Hmac \in [Key \X Kind \X Name -> Half \X Half]

\* Everything of the shape <kind>_<8..16 hex digits> that the minter can make.
Reserved == [kind : Kind, hex : [1..HexLen -> Half] \cup [1..HexLenWide -> Half]]

Token(key, k, n, len) ==
  [kind |-> k, hex |-> [i \in 1..len |-> Hmac[<<key, k, n>>][i]]]

-----------------------------------------------------------------------------
(* Phase 1: observe.  values and keep map a kind to a set of names.        *)

NothingObserved == [k \in Kind |-> {}]

KeepVerbatim(keep, k, n) ==
  IF n = NoName THEN keep ELSE [keep EXCEPT ![k] = @ \cup {n}]

\* Observe(k, n) for every pair <<k, n>> of S; the kept names are registered
\* before the first call.
ObserveAll(values, keep, S) ==
  [k \in Kind |-> values[k] \cup
     {n \in Name : <<k, n>> \in S /\ n # NoName /\ n \notin keep[k]}]

\* What a structured source has minted already, under one of the probed kinds.
KnownNames(values, keep, probed) ==
  (UNION {values[k] : k \in probed}) \cup UNION {keep[k] : k \in Kind}

-----------------------------------------------------------------------------
(* Phase 2: build.                                                         *)

\* Mutant: collisions are not looked for.
MintedShort(key, k, n, S) == Token(key, k, n, HexLen)

\* The names of S that share n's eight-digit token.
Colliding(key, k, n, S) ==
  {m \in S : Token(key, k, m, HexLen) = Token(key, k, n, HexLen)}

Minted(key, k, n, S) ==
  Token(key, k, n, IF Colliding(key, k, n, S) = {n} THEN HexLen ELSE HexLenWide)

\* Build returns an error: a real name is inside the token namespace, or two
\* names of one eight-digit group agree on sixteen digits too.
BuildFails(key, values) ==
  \E k \in Kind : \E n \in values[k] :
    \/ n \in Reserved
    \/ \E m \in Colliding(key, k, n, values[k]) \ {n} :
         Token(key, k, m, HexLenWide) = Token(key, k, n, HexLenWide)

Built(key, values, keep) ==
  [k \in Kind |-> [n \in values[k] \cup keep[k] |->
     IF n \in keep[k] THEN n ELSE Minted(key, k, n, values[k])]]

-----------------------------------------------------------------------------
(* After Build.                                                            *)

\* Lookup answers ok.
Has(fwd, k, n) == n \in DOMAIN fwd[k]

\* Map returns an error for a name nobody observed.
MapFails(fwd, k, n) == n # NoName /\ ~Has(fwd, k, n)

MapTo(fwd, k, n) == IF n = NoName THEN NoName ELSE fwd[k][n]

\* The rows of the secret identifier_map.
Pairs(fwd) ==
  UNION {{[kind |-> k, original |-> n, token |-> fwd[k][n]] :
            n \in DOMAIN fwd[k]} : k \in Kind}
=============================================================================
