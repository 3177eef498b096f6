---------------------------- MODULE SpecRuntime ----------------------------
(***************************************************************************)
(* The dashboard runtime that runs inside the SPA's iframe                 *)
(* (runtime/v1/dash.js, class SpecRuntime): it loads every panel of a spec *)
(* at boot, and again whenever a parameter the panel's SQL mentions is     *)
(* changed, while the answers to earlier queries are still on their way.   *)
(*                                                                         *)
(* JavaScript runs one task at a time.  The tasks are user events and      *)
(* answers to queries; what they resume (consumers that awaited the load   *)
(* of their source, the boot loop) runs before the next task.  Each action *)
(* is one task, or one resumption of an await.                             *)
(*                                                                         *)
(* Abstracted: one parameter stands for all of them, its values are        *)
(* numbered in the order they are set; rows are represented by the value   *)
(* they were queried with.  A panel that has shown an error keeps showing  *)
(* it: _showError replaces the nodes the renderer writes to.  "Auth        *)
(* expired" is left out: the SPA reloads the page then.                    *)
(***************************************************************************)
EXTENDS Integers

CONSTANTS
  NumPanels,   \* panels of the spec, in declaration order
  Source,      \* panel -> the panel whose rows it reads, 0 if none, itself
               \* if the panel is unknown or there is a query as well
  Static,      \* panels with neither a query nor a source
  Uses,        \* panels whose query interpolates the parameter
  Noticed,     \* panels in whose query _rerun finds the parameter
  Modes,       \* values of spec.concurrent
  MaxValues,   \* bound: values the parameter is given after its default
  MaxReruns    \* bound: user events

Panel == 1..NumPanels
NoRows == -1                 \* state.rows of a panel that has loaded nothing

ASSUME ConstantsAssumption ==
  /\ NumPanels \in Nat \ {0}
  /\ Source \in [Panel -> 0..NumPanels]
  /\ Static \subseteq {p \in Panel : Source[p] = 0}
  /\ Uses \cup Noticed \subseteq
       {p \in Panel \ Static : Source[p] = 0 \/ Source[p] >= p}
  /\ Modes \subseteq BOOLEAN
  /\ MaxValues \in Nat /\ MaxReruns \in Nat

\* A source must be known, declared before its consumer, and no query set.
Misconfigured(p) == Source[p] >= p
Consumers == {p \in Panel : Source[p] \in 1..(p - 1)}
Queries   == {p \in Panel \ Static : Source[p] = 0}

VARIABLES
  value, bad,   \* the parameter's current value; it fails validation
  reruns,       \* user events so far
  epoch,        \* panel -> state._epoch
  rows,         \* panel -> value its state.rows were queried with
  failed,       \* panels that show an error
  gen,          \* panel -> number of its current _loaded promise
  settled,      \* <<panel, gen>> of the _loaded promises resolved so far
  queries,      \* runs of a panel that await the answer to their query
  waits,        \* runs of a panel that await a _loaded promise
  ledger,       \* panel -> status in the query log
  concurrent,   \* spec.concurrent
  bootAt,       \* panel the boot loop has reached
  awaited       \* <<panel, epoch>> of the runs boot waits for

paramVars == <<value, bad, reruns>>
panelVars == <<epoch, rows, failed, gen, settled, queries, waits, ledger>>
bootVars  == <<concurrent, bootAt, awaited>>
vars == <<paramVars, panelVars, bootVars>>

Done == NumPanels + 1

Init ==
  /\ value = 0 /\ bad = FALSE /\ reruns = 0
  /\ epoch = [p \in Panel |-> 0] /\ rows = [p \in Panel |-> NoRows]
  /\ failed = {} /\ gen = [p \in Panel |-> 1] /\ settled = {}
  /\ queries = {} /\ waits = {} /\ ledger = [p \in Panel |-> "none"]
  /\ concurrent \in Modes /\ bootAt = 0 /\ awaited = {}

-----------------------------------------------------------------------------
(* _runPanel up to its first await, for every panel of S                   *)

\* Panels that end with an error before they ask for anything.
Rejected(S) == {p \in S : \/ Misconfigured(p)
                          \/ p \in Queries \cap Uses /\ bad'}

\* Mutant: a panel that is rejected leaves its consumers waiting.
OverForStatic(S) == S \cap Static

\* Panels whose load is over at once.
OverAtOnce(S) == Rejected(S) \cup (S \cap Static)

\* Mutant: a panel without a query is queried.
AskingAll(S) == S \ (Rejected(S) \cup Consumers)

Asking(S) == (S \cap Queries) \ Rejected(S)

\* Reads the parameter and the _loaded promises as the event has left them.
Start(S) ==
  /\ epoch' = [p \in Panel |-> IF p \in S THEN epoch[p] + 1 ELSE epoch[p]]
  /\ queries' = queries \cup
       {[panel |-> p, epoch |-> epoch[p] + 1,
         with |-> IF p \in Uses THEN value' ELSE 0] : p \in Asking(S)}
  /\ waits' = waits \cup
       {[panel |-> p, epoch |-> epoch[p] + 1, on |-> <<Source[p], gen'[Source[p]]>>]
         : p \in S \cap Consumers}
  /\ ledger' = [p \in Panel |-> IF p \in Asking(S) THEN "Pending" ELSE ledger[p]]
  /\ failed' = failed \cup Rejected(S)
  /\ settled' = settled \cup {<<p, gen'[p]>> : p \in OverAtOnce(S)}
  /\ UNCHANGED rows

-----------------------------------------------------------------------------
(* What runs before the next task: the boot loop and resumed consumers     *)

RunsOf(calls) == {<<c.panel, c.epoch>> : c \in calls}

BootReady == bootAt # Done /\ awaited \cap RunsOf(queries \cup waits) = {}

Idle == ~BootReady /\ \A w \in waits : w.on \notin settled

\* concurrent: every panel is started and then awaited; otherwise the next
\* panel is started once the one before it is over.
BootNext ==
  /\ BootReady
  /\ UNCHANGED <<paramVars, gen, concurrent>>
  /\ \/ /\ bootAt < NumPanels
        /\ bootAt' = IF concurrent THEN NumPanels ELSE bootAt + 1
        /\ LET S == IF concurrent THEN Panel ELSE {bootAt + 1}
           IN  Start(S) /\ awaited' = {<<p, epoch'[p]>> : p \in S}
     \/ /\ bootAt = NumPanels
        /\ bootAt' = Done /\ awaited' = {}
        /\ UNCHANGED panelVars

Settle(p) == settled' = settled \cup {<<p, gen[p]>>}

\* Mutant: the answer to an earlier run of the panel is not recognised.
NeverStale(c) == FALSE

\* A later run of the panel has begun.
Stale(c) == c.epoch # epoch[c.panel]

\* Rows are stored; then the transform's or the renderer's error is shown.
Load(p, with) ==
  /\ rows' = [rows EXCEPT ![p] = with]
  /\ Settle(p)

\* A consumer resumes; its transform may throw before the rows are stored.
Consume(w) ==
  /\ w \in waits /\ w.on \in settled
  /\ waits' = waits \ {w}
  /\ \/ Stale(w) /\ UNCHANGED <<rows, failed, settled>>
     \/ ~Stale(w) /\ Load(w.panel, rows[Source[w.panel]]) /\ UNCHANGED failed
     \/ /\ ~Stale(w) /\ failed' = failed \cup {w.panel} /\ Settle(w.panel)
        /\ UNCHANGED rows
  /\ UNCHANGED <<paramVars, epoch, gen, queries, ledger, bootVars>>

-----------------------------------------------------------------------------
(* Tasks                                                                   *)

\* The answer to a query: dashFetch updates the ledger, _runPanel the panel.
Answer(q, ok) ==
  /\ Idle /\ q \in queries
  /\ queries' = queries \ {q}
  /\ ledger' = [ledger EXCEPT ![q.panel] = IF ok THEN "OK" ELSE "Failed"]
  /\ \/ Stale(q) /\ UNCHANGED <<rows, failed, settled>>
     \/ /\ ~Stale(q) /\ ok
        /\ Load(q.panel, q.with)
        /\ \/ UNCHANGED failed
           \/ failed' = failed \cup {q.panel}  \* the renderer threw
     \/ /\ ~Stale(q) /\ ~ok
        /\ failed' = failed \cup {q.panel} /\ Settle(q.panel)
        /\ UNCHANGED rows
  /\ UNCHANGED <<paramVars, epoch, gen, waits, bootVars>>

\* The panels _rerun runs again: those that mention the parameter, and
\* whatever reads from one of them.
Affected ==
  {p \in Panel : \A S \in SUBSET Panel :
     Noticed \subseteq S /\ (\A q \in Panel : Source[q] \in S => q \in S)
       => p \in S}

\* Mutant: the _loaded promises are left as they are.
KeepLoaded == UNCHANGED gen

\* installLoadedDeferred for every affected panel
RenewLoaded ==
  gen' = [p \in Panel |-> IF p \in Affected THEN gen[p] + 1 ELSE gen[p]]

\* A user event stores a value, new or the same (Enter commits, then the
\* change event commits again).  setParam rejects an invalid one, the toolbar
\* does not.
SetParam(v, invalid) ==
  /\ Idle /\ reruns < MaxReruns
  /\ v \in {value, value + 1} /\ v <= MaxValues
  /\ v = value => invalid = bad
  /\ value' = v /\ bad' = invalid /\ reruns' = reruns + 1
  /\ RenewLoaded
  /\ Start(Affected)
  /\ UNCHANGED bootVars

-----------------------------------------------------------------------------
Resume == BootNext \/ \E w \in waits : Consume(w)

Next ==
  \/ Resume
  \/ \E q \in queries, ok \in BOOLEAN : Answer(q, ok)
  \/ \E v \in 0..MaxValues, invalid \in BOOLEAN : SetParam(v, invalid)

Spec == Init /\ [][Next]_vars

\* Resumptions happen; every query is answered, with rows or with an error
\* (the SPA's CH_FETCH gives up after 30 seconds).
FairSpec ==
  /\ Spec /\ WF_vars(Resume)
  /\ WF_vars(\E q \in queries, ok \in BOOLEAN : Answer(q, ok))

-----------------------------------------------------------------------------
(* Properties                                                              *)

Value == 0..MaxValues

TypeOK ==
  /\ value \in Value /\ bad \in BOOLEAN /\ reruns \in 0..MaxReruns
  /\ epoch \in [Panel -> Nat] /\ gen \in [Panel -> Nat]
  /\ rows \in [Panel -> Value \cup {NoRows}]
  /\ failed \subseteq Panel /\ settled \subseteq Panel \X Nat
  /\ queries \subseteq [panel : Queries, epoch : Nat, with : Value]
  /\ waits \subseteq [panel : Consumers, epoch : Nat, on : Panel \X Nat]
  /\ ledger \in [Panel -> {"none", "Pending", "OK", "Failed"}]
  /\ concurrent \in Modes /\ bootAt \in 0..Done
  /\ awaited \subseteq Panel \X Nat

Fresh == INSTANCE PanelFreshness WITH shown <- rows

\* In whatever order answers arrive, rows are never replaced by rows for an
\* earlier value, and no consumer is ahead of its source: what _epoch is for
\* (dash.js:377, 433, 445).
ShowsFreshRows == Fresh!Spec

\* The latest run of p is still under way.
Loading(p) == <<p, epoch[p]>> \in RunsOf(queries \cup waits)

\* The panels p gets its rows from, p itself included.
Upstream == [p \in Panel |->
  {q \in Panel : \A S \in SUBSET Panel :
     p \in S /\ (\A r \in S \cap Consumers : Source[r] \in S) => q \in S}]

\* p is loaded, and so is everything it gets its rows from.
Loaded(p) ==
  \A q \in Upstream[p] : epoch[q] > 0 /\ ~Loading(q) /\ q \notin failed

\* The value p's rows should have been queried with; a panel without a query
\* has none to pass on.
Current(p) ==
  IF Upstream[p] \cap Static # {} THEN NoRows
  ELSE IF Upstream[p] \cap Uses # {} THEN value ELSE 0

\* Once a panel and its sources have loaded without an error, it shows rows
\* for the parameter's current value (dash.js:257, dataset.md:68).
LoadedIsCurrent == \A p \in Panel : Loaded(p) => rows[p] = Current(p)

\* The latest run of every panel ends, so that no panel stays blank: what it
\* waits for is resolved on every path (dash.js:499).
LatestRunEnds == \A p \in Panel : Loading(p) ~> ~Loading(p)

\* A consumer that already awaited a _loaded promise when a re-run replaced it
\* "sees a fresh one" (dash.js:484), so the boot loop comes to its end.
BootFinishes == <>(bootAt = Done)
=============================================================================
