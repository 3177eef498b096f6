------------------------------ MODULE RunStore ------------------------------
(***************************************************************************)
(* What anond's readers rely on (anon/internal/store, written by Execute   *)
(* in anon/internal/discover/run.go): the profile of a run appears as a    *)
(* whole, after the run's secrets are stored, and never changes until      *)
(* cleanup --include-meta drops everything that was published.  Sandbox    *)
(* implements it one statement at a time.                                  *)
(***************************************************************************)

CONSTANTS
  Run,     \* run ids
  NoRun,   \* no guide rows
  Secret   \* the trusted tables of a run

VARIABLES
  trusted,    \* run -> trusted tables stored for it
  published,  \* complete run -> its profile, as readers see it
  guide       \* run whose rows schema_guide shows

vars == <<trusted, published, guide>>

Init ==
  /\ trusted = [r \in Run |-> {}]
  /\ DOMAIN published = {}
  /\ guide = NoRun

Store(r, table) ==
  /\ trusted' = [trusted EXCEPT ![r] = @ \cup {table}]
  /\ UNCHANGED <<published, guide>>

Show(r) ==
  /\ trusted[r] = Secret
  /\ guide' = r
  /\ UNCHANGED <<trusted, published>>

\* A run is published once, whatever its rows are, and takes no row of
\* another run along.
Publish(r) ==
  /\ r \notin DOMAIN published /\ trusted[r] = Secret
  /\ DOMAIN published' = DOMAIN published \cup {r}
  /\ \A q \in DOMAIN published : published'[q] = published[q]
  /\ UNCHANGED <<trusted, guide>>

\* The trusted side survives: rows already copied stay translatable.
Forget ==
  /\ DOMAIN published' = {}
  /\ guide' = NoRun
  /\ UNCHANGED trusted

Next ==
  \/ \E r \in Run : Show(r) \/ Publish(r) \/ \E table \in Secret : Store(r, table)
  \/ Forget

Spec == Init /\ [][Next]_vars
=============================================================================
