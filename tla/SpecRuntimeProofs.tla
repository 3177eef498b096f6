------------------------- MODULE SpecRuntimeProofs -------------------------
(***************************************************************************)
(* Theorems about SpecRuntime, for every dashboard and any number of       *)
(* parameter changes.                                                      *)
(***************************************************************************)
EXTENDS SpecRuntime, TLAPS

\* What the definitions below say about panels and values.
LEMMA PanelFacts ==
  /\ Panel \subseteq Nat /\ Queries \subseteq Panel /\ Consumers \subseteq Panel
  /\ \A p \in Consumers : Source[p] \in Panel /\ Source[p] # p
  /\ Queries \cap Consumers = {}
  /\ Static \subseteq Panel /\ 0 \in Value /\ Value \subseteq Nat
  /\ \A p \in Panel : p + 1 \in Int
<1>1. NumPanels \in Nat /\ Source \in [Panel -> 0..NumPanels] /\ MaxValues \in Nat
  BY ConstantsAssumption
<1>2. \A p \in Panel : p \in Nat /\ p <= NumPanels
  BY <1>1 DEF Panel
<1>3. \A p \in Consumers : Source[p] \in Panel /\ Source[p] # p
  BY <1>1, <1>2 DEF Consumers, Panel
<1>4. Queries \cap Consumers = {}
  BY <1>2 DEF Queries, Consumers
<1> QED
  BY <1>1, <1>2, <1>3, <1>4, ConstantsAssumption DEF Queries, Consumers, Value

-----------------------------------------------------------------------------
(* Type correctness                                                        *)

\* TypeOK without the variables of the boot loop.
PanelsOK ==
  /\ epoch \in [Panel -> Nat] /\ gen \in [Panel -> Nat]
  /\ rows \in [Panel -> Value \cup {NoRows}]
  /\ failed \subseteq Panel /\ settled \subseteq Panel \X Nat
  /\ queries \subseteq [panel : Queries, epoch : Nat, with : Value]
  /\ waits \subseteq [panel : Consumers, epoch : Nat, on : Panel \X Nat]
  /\ ledger \in [Panel -> {"none", "Pending", "OK", "Failed"}]

LEMMA StartType ==
  ASSUME PanelsOK, NEW S \in SUBSET Panel, Start(S),
         value' \in Value, gen' \in [Panel -> Nat]
  PROVE  PanelsOK'
<1> USE PanelFacts DEF PanelsOK, Start
<1>1. epoch' \in [Panel -> Nat]
  OBVIOUS
<1>2. queries' \subseteq [panel : Queries, epoch : Nat, with : Value]
  BY DEF Asking
<1>3. waits' \subseteq [panel : Consumers, epoch : Nat, on : Panel \X Nat]
  <2>1. \A p \in Consumers : <<Source[p], gen'[Source[p]]>> \in Panel \X Nat
    OBVIOUS
  <2>2. \A p \in Consumers : epoch[p] + 1 \in Nat
    OBVIOUS
  <2> QED
    BY <2>1, <2>2
<1>4. ledger' \in [Panel -> {"none", "Pending", "OK", "Failed"}]
  OBVIOUS
<1>5. Rejected(S) \subseteq Panel /\ OverAtOnce(S) \subseteq Panel
  BY DEF Rejected, OverAtOnce
<1>6. failed' \subseteq Panel
  BY <1>5
<1>7. settled' \subseteq Panel \X Nat
  <2>1. \A p \in OverAtOnce(S) : <<p, gen'[p]>> \in Panel \X Nat
    BY <1>5
  <2> QED
    BY <2>1
<1> QED
  BY <1>1, <1>2, <1>3, <1>4, <1>6, <1>7

LEMMA TypeNext == TypeOK /\ [Next]_vars => TypeOK'
<1> SUFFICES ASSUME TypeOK, [Next]_vars PROVE TypeOK'
  OBVIOUS
<1>0. PanelsOK
  BY DEF TypeOK, PanelsOK
<1>1. CASE BootNext
  <2>1. value' \in Value /\ bad' \in BOOLEAN /\ reruns' \in 0..MaxReruns
    BY <1>1 DEF BootNext, paramVars, TypeOK
  <2>2. gen' \in [Panel -> Nat] /\ concurrent' \in Modes
    BY <1>1 DEF BootNext, TypeOK
  <2>3. CASE bootAt = NumPanels /\ bootAt' = Done /\ awaited' = {}
             /\ UNCHANGED panelVars
    BY <2>1, <2>2, <2>3, ConstantsAssumption DEF TypeOK, panelVars, Done
  <2>4. CASE bootAt < NumPanels
    <3>1. bootAt \in Nat /\ bootAt + 1 \in Panel /\ NumPanels \in 0..Done
          /\ bootAt + 1 \in 0..Done
      BY <2>4, ConstantsAssumption DEF TypeOK, Panel, Done
    <3>2. PICK S \in SUBSET Panel :
               Start(S) /\ awaited' = {<<p, epoch'[p]>> : p \in S}
      BY <1>1, <2>4, <3>1 DEF BootNext
    <3>3. PanelsOK'
      BY <1>0, <2>1, <2>2, <3>2, StartType
    <3>4. awaited' \subseteq Panel \X Nat
      BY <3>2, <3>3 DEF PanelsOK
    <3>5. bootAt' \in 0..Done
      BY <1>1, <2>4, <3>1 DEF BootNext
    <3> QED
      BY <2>1, <2>2, <3>3, <3>4, <3>5 DEF TypeOK, PanelsOK
  <2> QED
    BY <1>1, <2>3, <2>4 DEF BootNext
<1>2. ASSUME NEW w \in waits, Consume(w) PROVE TypeOK'
  <2>1. w.panel \in Panel /\ Source[w.panel] \in Panel
    BY PanelFacts DEF TypeOK
  <2>2. rows' \in [Panel -> Value \cup {NoRows}] /\ failed' \subseteq Panel
    BY <1>2, <2>1 DEF Consume, Load, TypeOK
  <2>3. settled' \subseteq Panel \X Nat
    BY <1>2, <2>1 DEF Consume, Load, Settle, TypeOK
  <2> QED
    BY <1>2, <2>2, <2>3 DEF Consume, TypeOK, paramVars, bootVars
<1>3. ASSUME NEW q \in queries, NEW ok \in BOOLEAN, Answer(q, ok) PROVE TypeOK'
  <2>1. q.panel \in Panel /\ q.with \in Value
    BY PanelFacts DEF TypeOK
  <2>2. rows' \in [Panel -> Value \cup {NoRows}] /\ failed' \subseteq Panel
    BY <1>3, <2>1 DEF Answer, Load, TypeOK
  <2>3. settled' \subseteq Panel \X Nat
    BY <1>3, <2>1 DEF Answer, Load, Settle, TypeOK
  <2>4. ledger' \in [Panel -> {"none", "Pending", "OK", "Failed"}]
    BY <1>3, <2>1 DEF Answer, TypeOK
  <2> QED
    BY <1>3, <2>2, <2>3, <2>4 DEF Answer, TypeOK, paramVars, bootVars
<1>4. ASSUME NEW v \in 0..MaxValues, NEW invalid \in BOOLEAN, SetParam(v, invalid)
      PROVE  TypeOK'
  <2>1. value' \in Value /\ bad' \in BOOLEAN
    BY <1>4 DEF SetParam, Value
  <2>2. reruns' \in 0..MaxReruns
    BY <1>4, ConstantsAssumption DEF SetParam, TypeOK
  <2>3. gen' \in [Panel -> Nat]
    BY <1>4 DEF SetParam, RenewLoaded, TypeOK
  <2>4. PanelsOK'
    <3>1. Affected \in SUBSET Panel
      BY DEF Affected
    <3> QED
      BY <1>0, <1>4, <2>1, <2>3, <3>1, StartType DEF SetParam
  <2> QED
    BY <1>4, <2>1, <2>2, <2>4 DEF SetParam, TypeOK, PanelsOK, bootVars
<1>5. CASE UNCHANGED vars
  BY <1>5 DEF TypeOK, vars, paramVars, panelVars, bootVars
<1> QED
  BY <1>1, <1>2, <1>3, <1>4, <1>5 DEF Next, Resume

LEMMA TypeInit == Init => TypeOK
<1> SUFFICES ASSUME Init PROVE TypeOK
  OBVIOUS
<1>1. rows \in [Panel -> Value \cup {NoRows}] /\ gen \in [Panel -> Nat]
      /\ epoch \in [Panel -> Nat]
  BY DEF Init
<1>2. ledger \in [Panel -> {"none", "Pending", "OK", "Failed"}]
  BY DEF Init
<1>3. value \in Value /\ reruns \in 0..MaxReruns /\ bootAt \in 0..Done
  BY ConstantsAssumption DEF Init, Value, Done
<1> QED
  BY <1>1, <1>2, <1>3 DEF Init, TypeOK

\* Every reachable state is well-typed.
THEOREM TypeCorrect == Spec => []TypeOK
  BY TypeInit, TypeNext, PTL DEF Spec

-----------------------------------------------------------------------------
(* SpecRuntime implements PanelFreshness.                                  *)

\* An answer still wanted is at least as new as what it replaces, nothing is
\* newer than the parameter, and consumers are not ahead of their sources.
NewerThanShown ==
  \A q \in queries :
    /\ q.epoch <= epoch[q.panel] /\ q.with <= value
    /\ ~Stale(q) => q.with >= rows[q.panel]
    /\ q.panel \notin Uses => q.with = 0

NotAhead ==
  /\ \A p \in Queries : rows[p] <= (IF p \in Uses THEN value ELSE 0)
  /\ \A p \in Consumers : rows[p] <= rows[Source[p]]

OneQueryPerRun ==
  \A q, r \in queries : q.panel = r.panel /\ q.epoch = r.epoch => q = r

FreshInv == TypeOK /\ NewerThanShown /\ NotAhead /\ OneQueryPerRun

\* The facts about types the steps below need.
LEMMA FreshTypes ==
  ASSUME TypeOK
  PROVE  /\ value \in Nat
         /\ epoch \in [Panel -> Nat] /\ rows \in [Panel -> Value \cup {NoRows}]
         /\ \A p \in Panel : rows[p] \in Int /\ epoch[p] \in Nat
         /\ \A q \in queries : q.panel \in Panel /\ q.panel \in Queries
                              /\ q.epoch \in Nat /\ q.with \in Nat
<1>1. Value \subseteq Nat /\ Value \cup {NoRows} \subseteq Int
  BY PanelFacts DEF NoRows
<1>2. \A q \in queries : q \in [panel : Queries, epoch : Nat, with : Value]
  BY DEF TypeOK
<1> QED
  BY <1>1, <1>2, PanelFacts DEF TypeOK

LEMMA FreshStart ==
  ASSUME FreshInv, NEW S \in SUBSET Panel, Start(S), value' \in Value,
         value <= value'
  PROVE  NewerThanShown' /\ NotAhead' /\ OneQueryPerRun'
<1>t. /\ value \in Nat /\ value' \in Nat
      /\ epoch \in [Panel -> Nat] /\ rows \in [Panel -> Value \cup {NoRows}]
      /\ \A p \in Panel : rows[p] \in Int /\ epoch[p] \in Nat
      /\ \A q \in queries : q.panel \in Queries /\ q.epoch \in Nat /\ q.with \in Nat
  BY FreshTypes, PanelFacts DEF FreshInv
<1>1. rows' = rows /\ \A p \in Panel : epoch'[p] = IF p \in S THEN epoch[p] + 1 ELSE epoch[p]
  BY DEF Start
<1>2. NotAhead'
  BY <1>t, <1>1, PanelFacts DEF FreshInv, NotAhead
<1>3. ASSUME NEW q \in queries'
      PROVE  /\ q.epoch <= epoch'[q.panel] /\ q.with <= value'
             /\ ~Stale(q)' => q.with >= rows'[q.panel]
             /\ q.panel \notin Uses => q.with = 0
  <2>1. CASE q \in queries
    <3>1. /\ q.panel \in Panel
          /\ q.epoch <= epoch[q.panel] /\ q.with <= value
          /\ q.epoch = epoch[q.panel] => q.with >= rows[q.panel]
          /\ q.panel \notin Uses => q.with = 0
      BY <1>t, <2>1, PanelFacts DEF FreshInv, NewerThanShown, Stale
    <3>2. q.epoch <= epoch'[q.panel] /\ q.with <= value'
      BY <1>t, <1>1, <2>1, <3>1
    <3>3. ASSUME q.epoch = epoch'[q.panel] PROVE q.epoch = epoch[q.panel]
      BY <1>t, <1>1, <2>1, <3>1, <3>3
    <3> QED
      BY <1>1, <3>1, <3>2, <3>3 DEF Stale
  <2>2. CASE q \notin queries
    <3>1. PICK p \in Asking(S) :
               q = [panel |-> p, epoch |-> epoch[p] + 1,
                    with |-> IF p \in Uses THEN value' ELSE 0]
      BY <2>2 DEF Start
    <3>2. p \in Queries /\ p \in S
      BY <3>1 DEF Asking
    <3>3. /\ q.panel = p /\ q.epoch = epoch'[p]
          /\ q.with = IF p \in Uses THEN value' ELSE 0
      BY <1>1, <3>1, <3>2
    <3>4. epoch'[p] \in Nat /\ rows[p] \in Int
      BY <1>t, <1>1, <3>2
    <3>5. rows[p] <= (IF p \in Uses THEN value ELSE 0)
      BY <3>2 DEF FreshInv, NotAhead
    <3> QED
      BY <1>t, <1>1, <3>3, <3>4, <3>5
  <2> QED
    BY <2>1, <2>2
<1>4. OneQueryPerRun'
  <2>1. \A q \in queries' :
          \/ q \in queries
          \/ /\ q.epoch = epoch[q.panel] + 1 /\ q.panel \in Panel
             /\ q = [panel |-> q.panel, epoch |-> epoch[q.panel] + 1,
                     with |-> IF q.panel \in Uses THEN value' ELSE 0]
    <3>1. Asking(S) \subseteq Panel
      BY DEF Asking
    <3> QED
      BY <3>1 DEF Start
  <2>2. \A q \in queries : q.epoch <= epoch[q.panel] /\ q.epoch \in Nat
                           /\ epoch[q.panel] \in Nat
    BY <1>t, FreshTypes, PanelFacts DEF FreshInv, NewerThanShown
  <2>3. \A i, j \in Nat : i <= j => i # j + 1
    OBVIOUS
  <2>4. \A q \in queries : q.epoch # epoch[q.panel] + 1
    BY <2>2, <2>3
  <2> QED
    BY <2>1, <2>4 DEF FreshInv, OneQueryPerRun
<1> QED
  BY <1>2, <1>3, <1>4 DEF NewerThanShown

\* Storing rows that are newer, but no newer than the panel's limit.
LEMMA FreshLoad ==
  ASSUME FreshInv, NEW p \in Panel, NEW v \in Value \cup {NoRows},
         rows' = [rows EXCEPT ![p] = v],
         queries' \subseteq queries, UNCHANGED <<value, epoch>>,
         \A q \in queries' : q.panel = p => Stale(q) \/ q.with >= v,
         rows[p] <= v,
         p \in Queries => v <= (IF p \in Uses THEN value ELSE 0),
         p \in Consumers => v <= rows[Source[p]]
  PROVE  NewerThanShown' /\ NotAhead'
<1>t. /\ rows \in [Panel -> Value \cup {NoRows}] /\ v \in Int
      /\ \A x \in Panel : rows[x] \in Int
      /\ \A q \in queries : q.panel \in Panel
  <2>1. Value \cup {NoRows} \subseteq Int
    BY PanelFacts DEF NoRows
  <2> QED
    BY <2>1, FreshTypes DEF FreshInv
<1>1. rows'[p] = v /\ \A x \in Panel : x # p => rows'[x] = rows[x]
  BY <1>t
<1>2. NewerThanShown'
  BY <1>t, <1>1 DEF FreshInv, NewerThanShown, Stale
<1>3. \A x \in Queries : rows'[x] <= (IF x \in Uses THEN value' ELSE 0)
  BY <1>1, PanelFacts DEF FreshInv, NotAhead
<1>4. ASSUME NEW x \in Consumers PROVE rows'[x] <= rows'[Source[x]]
  <2>1. x \in Panel /\ Source[x] \in Panel /\ Source[x] # x
    BY PanelFacts
  <2>2. rows[x] <= rows[Source[x]]
    BY DEF FreshInv, NotAhead
  <2>3. CASE Source[x] = p
    BY <1>t, <1>1, <2>1, <2>2, <2>3
  <2>4. CASE Source[x] # p
    BY <1>t, <1>1, <2>1, <2>2, <2>4
  <2> QED
    BY <2>3, <2>4
<1> QED
  BY <1>2, <1>3, <1>4 DEF NotAhead

\* Every step is one of PanelFreshness or leaves value and rows alone.
LEMMA FreshNext ==
  ASSUME FreshInv, TypeOK', [Next]_vars
  PROVE  FreshInv' /\ [Fresh!Next]_<<value, rows>>
<1> USE DEF Fresh!Next, Fresh!SetValue, Fresh!Show, Fresh!Limit
<1>1. CASE BootNext
  <2>1. UNCHANGED <<value, rows>>
    BY <1>1 DEF BootNext, Start, paramVars, panelVars
  <2>2. CASE UNCHANGED panelVars
    BY <2>1, <2>2 DEF panelVars, FreshInv, NewerThanShown, NotAhead,
                      OneQueryPerRun, Stale
  <2>3. CASE bootAt < NumPanels
    <3>1. bootAt \in Nat /\ NumPanels \in Nat /\ bootAt + 1 \in Panel
      BY <2>3, ConstantsAssumption DEF FreshInv, TypeOK, Panel, Done
    <3>2. PICK S \in SUBSET Panel : Start(S)
      BY <1>1, <2>3, <3>1 DEF BootNext
    <3>3. value' \in Value /\ value <= value'
      <4>1. \A i \in Nat : i <= i
        OBVIOUS
      <4> QED
        BY <2>1, <4>1, FreshTypes DEF FreshInv, TypeOK
    <3> QED
      BY <2>1, <3>2, <3>3, FreshStart DEF FreshInv
  <2> QED
    BY <1>1, <2>2, <2>3 DEF BootNext
<1>2. ASSUME UNCHANGED <<value, rows, epoch>>, queries' \subseteq queries
      PROVE  FreshInv' /\ [Fresh!Next]_<<value, rows>>
  BY <1>2 DEF FreshInv, NewerThanShown, NotAhead, OneQueryPerRun, Stale
<1>3. ASSUME NEW p \in Panel, NEW v \in Value \cup {NoRows},
             rows' = [rows EXCEPT ![p] = v],
             queries' \subseteq queries, UNCHANGED <<value, epoch>>,
             \A q \in queries' : q.panel = p => Stale(q) \/ q.with >= v,
             rows[p] <= v,
             p \in Queries => v <= (IF p \in Uses THEN value ELSE 0),
             p \in Consumers => v <= rows[Source[p]],
             p \in Queries \cup Consumers
      PROVE  FreshInv' /\ [Fresh!Next]_<<value, rows>>
  <2>1. NewerThanShown' /\ NotAhead'
    BY <1>3, FreshLoad
  <2>2. OneQueryPerRun'
    BY <1>3 DEF FreshInv, OneQueryPerRun
  <2>3. /\ rows[p] \in Int /\ v \in Int /\ value \in Nat /\ 0 <= value
        /\ p \in Consumers => rows[Source[p]] \in Int
    <3>1. Value \cup {NoRows} \subseteq Int
      BY PanelFacts DEF NoRows
    <3>2. p \in Consumers => Source[p] \in Panel
      BY PanelFacts
    <3>3. value \in Nat /\ \A x \in Panel : rows[x] \in Int
      BY FreshTypes DEF FreshInv
    <3> QED
      BY <3>1, <3>2, <3>3
  <2>4. v \in rows[p]..(IF p \in Consumers THEN rows[Source[p]] ELSE value)
    BY <1>3, <2>3
  <2>5. Fresh!Show(p)
    BY <1>3, <2>4
  <2> QED
    BY <2>1, <2>2, <2>5 DEF FreshInv
<1>4. ASSUME NEW w \in waits, Consume(w)
      PROVE  FreshInv' /\ [Fresh!Next]_<<value, rows>>
  <2>1. UNCHANGED <<value, epoch, queries>>
    BY <1>4 DEF Consume, paramVars
  <2>2. CASE UNCHANGED rows
    BY <1>2, <2>1, <2>2
  <2>3. CASE Load(w.panel, rows[Source[w.panel]])
    <3>1. w.panel \in Consumers /\ w.panel \in Panel /\ w.panel \notin Queries
      BY PanelFacts DEF FreshInv, TypeOK
    <3>2. Source[w.panel] \in Panel
      BY <3>1, PanelFacts
    <3>3. rows[Source[w.panel]] \in Value \cup {NoRows}
          /\ rows[w.panel] <= rows[Source[w.panel]]
      BY <3>1, <3>2 DEF FreshInv, TypeOK, NotAhead
    <3>4. rows[Source[w.panel]] <= rows[Source[w.panel]]
      <4>1. \A i \in Int : i <= i
        OBVIOUS
      <4> QED
        BY <3>2, <4>1, FreshTypes DEF FreshInv
    <3>5. \A q \in queries : q.panel # w.panel
      BY <3>1, FreshTypes DEF FreshInv
    <3>6. rows' = [rows EXCEPT ![w.panel] = rows[Source[w.panel]]]
      BY <2>3 DEF Load
    <3> QED
      BY <1>3, <2>1, <3>1, <3>3, <3>4, <3>5, <3>6
  <2> QED
    BY <1>4, <2>2, <2>3 DEF Consume
<1>5. ASSUME NEW q \in queries, NEW ok \in BOOLEAN, Answer(q, ok)
      PROVE  FreshInv' /\ [Fresh!Next]_<<value, rows>>
  <2>1. UNCHANGED <<value, epoch>> /\ queries' = queries \ {q}
    BY <1>5 DEF Answer, paramVars
  <2>2. CASE UNCHANGED rows
    BY <1>2, <2>1, <2>2
  <2>3. CASE ~Stale(q) /\ Load(q.panel, q.with)
    <3>1. q.panel \in Queries /\ q.panel \in Panel /\ q.panel \notin Consumers
      BY PanelFacts DEF FreshInv, TypeOK
    <3>2. q.with \in Value /\ rows[q.panel] <= q.with
          /\ q.with <= (IF q.panel \in Uses THEN value ELSE 0)
      <4>1. q.with \in Value /\ q.with \in Nat /\ rows[q.panel] \in Int
        BY <3>1, FreshTypes DEF FreshInv, TypeOK
      <4>2. q.with >= rows[q.panel] /\ q.with <= value
            /\ (q.panel \notin Uses => q.with = 0)
        BY <2>3 DEF FreshInv, NewerThanShown
      <4> QED
        BY <4>1, <4>2
    <3>3. \A r \in queries' : r.panel = q.panel => Stale(r)
      BY <2>1, <2>3 DEF FreshInv, OneQueryPerRun, Stale
    <3>4. rows' = [rows EXCEPT ![q.panel] = q.with]
      BY <2>3 DEF Load
    <3> QED
      BY <1>3, <2>1, <3>1, <3>2, <3>3, <3>4
  <2> QED
    BY <1>5, <2>2, <2>3 DEF Answer
<1>6. ASSUME NEW v \in 0..MaxValues, NEW invalid \in BOOLEAN, SetParam(v, invalid)
      PROVE  FreshInv' /\ [Fresh!Next]_<<value, rows>>
  <2>1. value' = v /\ v \in {value, value + 1} /\ Start(Affected)
    BY <1>6 DEF SetParam
  <2>2. value' \in Value /\ value <= value' /\ Affected \in SUBSET Panel
    BY <2>1, FreshTypes DEF FreshInv, Value, Affected
  <2>3. rows' = rows
    BY <2>1 DEF Start
  <2> QED
    BY <2>1, <2>2, <2>3, FreshStart DEF FreshInv
<1>7. CASE UNCHANGED vars
  BY <1>2, <1>7 DEF vars, paramVars, panelVars
<1> QED
  BY <1>1, <1>4, <1>5, <1>6, <1>7 DEF Next, Resume

LEMMA FreshInit == Init => FreshInv /\ Fresh!Init
<1> SUFFICES ASSUME Init PROVE FreshInv /\ Fresh!Init
  OBVIOUS
<1>1. queries = {} /\ value = 0 /\ rows = [p \in Panel |-> NoRows]
  BY DEF Init
<1>2. Fresh!Init
  BY <1>1 DEF Fresh!Init, Fresh!NoRows, NoRows
<1>3. NotAhead
  BY <1>1, PanelFacts DEF NotAhead, NoRows
<1> QED
  BY <1>1, <1>2, <1>3, TypeInit DEF FreshInv, NewerThanShown, OneQueryPerRun

\* Whatever order answers arrive in, however often the parameter is changed
\* meanwhile, no panel goes back to rows of an earlier value and no consumer
\* is ahead of its source (dash.js:377, 433, 445).
THEOREM Freshness == Spec => ShowsFreshRows
<1>1. Init => FreshInv /\ Fresh!Init
  BY FreshInit
<1>2. FreshInv /\ [Next]_vars => FreshInv' /\ [Fresh!Next]_<<value, rows>>
  BY TypeNext, FreshNext DEF FreshInv
<1> QED
  BY <1>1, <1>2, PTL DEF Spec, ShowsFreshRows, Fresh!Spec

-----------------------------------------------------------------------------
(* Loaded panels show the parameter's current value.                       *)

\* Every query that interpolates the parameter is found by _rerun, which looks
\* for the two usual spellings of a placeholder only (dash.js:459).
NoticesUses == Uses \subseteq Noticed

\* What a run that is still wanted asks for, and what it waits for.
AsksForCurrent ==
  \A q \in queries : ~Stale(q) => q.with = IF q.panel \in Uses THEN value ELSE 0

AwaitsCurrent ==
  \A w \in waits :
    /\ w.epoch <= epoch[w.panel]
    /\ ~Stale(w) => w.on = <<Source[w.panel], gen[Source[w.panel]]>>

\* The end of a panel's latest run resolves its current promise, and only that.
OverIsSettled ==
  \A p \in Panel : epoch[p] > 0 /\ ~Loading(p) => <<p, gen[p]>> \in settled

SettledSoFar == \A x \in settled : x[2] <= gen[x[1]]

SettledIsCurrent ==
  \A p \in Panel :
    <<p, gen[p]>> \in settled /\ Upstream[p] \cap failed = {} => rows[p] = Current(p)

StaticIsEmpty == \A p \in Static : rows[p] = NoRows

CurrentInv ==
  /\ FreshInv /\ AsksForCurrent /\ AwaitsCurrent /\ OverIsSettled
  /\ SettledSoFar /\ SettledIsCurrent /\ StaticIsEmpty

\* A panel's rows come from itself or, if it is a consumer, from its source.
LEMMA UpstreamOf ==
  ASSUME NEW p \in Panel
  PROVE  /\ Upstream[p] \subseteq Panel /\ p \in Upstream[p]
         /\ p \notin Consumers => Upstream[p] = {p}
         /\ p \in Consumers => Upstream[p] = {p} \cup Upstream[Source[p]]
<1> DEFINE Closed(S) == \A r \in S \cap Consumers : Source[r] \in S
<1>1. \A x \in Panel : Upstream[x] =
        {q \in Panel : \A S \in SUBSET Panel : x \in S /\ Closed(S) => q \in S}
  BY DEF Upstream
<1>2. \A x \in Panel : Upstream[x] \subseteq Panel /\ x \in Upstream[x]
  BY <1>1
<1>3. \A x \in Panel : \A S \in SUBSET Panel :
        x \in S /\ Closed(S) => Upstream[x] \subseteq S
  BY <1>1
<1>4. \A x \in Panel : Closed(Upstream[x])
  <2> SUFFICES ASSUME NEW x \in Panel, NEW r \in Upstream[x] \cap Consumers
               PROVE  Source[r] \in Upstream[x]
    OBVIOUS
  <2>1. Source[r] \in Panel
    BY PanelFacts
  <2> QED
    BY <1>1, <2>1
<1> HIDE DEF Closed
<1>5. ASSUME p \notin Consumers PROVE Upstream[p] = {p}
  <2>1. Closed({p})
    BY <1>5 DEF Closed
  <2> QED
    BY <1>2, <1>3, <2>1
<1>6. ASSUME p \in Consumers PROVE Upstream[p] = {p} \cup Upstream[Source[p]]
  <2>1. Source[p] \in Panel /\ Source[p] \in Upstream[p]
    BY <1>2, <1>4, <1>6, PanelFacts DEF Closed
  <2>2. Upstream[Source[p]] \subseteq Upstream[p]
    BY <1>2, <1>3, <1>4, <2>1
  <2>3. Closed({p} \cup Upstream[Source[p]])
    BY <1>2, <1>4, <2>1 DEF Closed
  <2>4. Upstream[p] \subseteq {p} \cup Upstream[Source[p]]
    BY <1>2, <1>3, <2>1, <2>3
  <2> QED
    BY <1>2, <2>2, <2>4
<1> QED
  BY <1>2, <1>5, <1>6

\* Every panel is of one of four kinds.
LEMMA PanelKinds ==
  /\ \A p \in Panel : p \in Static \cup Queries \cup Consumers \/ Misconfigured(p)
  /\ Static \cap (Queries \cup Consumers \cup Uses) = {} /\ Uses \cap Consumers = {}
<1>1. NumPanels \in Nat /\ Source \in [Panel -> 0..NumPanels]
      /\ Static \subseteq {p \in Panel : Source[p] = 0}
      /\ Uses \subseteq {p \in Panel \ Static : Source[p] = 0 \/ Source[p] >= p}
  BY ConstantsAssumption
<1>2. \A p \in Panel : p \in Nat /\ p >= 1 /\ Source[p] \in Nat
  BY <1>1 DEF Panel
<1>3. \A p \in Panel : Source[p] # 0 /\ ~(Source[p] >= p) => Source[p] \in 1..(p - 1)
  BY <1>2
<1>4. \A p \in Consumers : p \in Panel /\ Source[p] # 0 /\ ~(Source[p] >= p)
  BY <1>2 DEF Consumers
<1>5. \A p \in Panel : p \in Static \cup Queries \cup Consumers \/ Misconfigured(p)
  BY <1>3 DEF Queries, Consumers, Misconfigured
<1>6. Static \cap Consumers = {} /\ Uses \cap Consumers = {}
  BY <1>1, <1>4
<1> QED
  BY <1>1, <1>5, <1>6 DEF Queries

\* What a panel should show is what its source should show.
LEMMA CurrentOf ==
  ASSUME NEW p \in Panel
  PROVE  /\ p \in Queries => Current(p) = IF p \in Uses THEN value ELSE 0
         /\ p \in Static => Current(p) = NoRows
         /\ p \in Consumers => Current(p) = Current(Source[p])
<1>1. CASE p \in Consumers
  <2>1. Upstream[p] = {p} \cup Upstream[Source[p]]
    BY <1>1, UpstreamOf
  <2>2. p \notin Static /\ p \notin Uses /\ p \notin Queries
    BY <1>1, PanelKinds, PanelFacts
  <2>3. /\ Upstream[p] \cap Static = Upstream[Source[p]] \cap Static
        /\ Upstream[p] \cap Uses = Upstream[Source[p]] \cap Uses
    BY <2>1, <2>2
  <2> QED
    BY <1>1, <2>2, <2>3 DEF Current
<1>2. CASE p \notin Consumers
  BY <1>2, UpstreamOf, PanelKinds DEF Current
<1> QED
  BY <1>1, <1>2

\* _rerun reruns the consumers of what it reruns, and every panel whose rows
\* depend on the parameter.
LEMMA AffectedClosed ==
  /\ Affected \subseteq Panel
  /\ \A p \in Consumers : Source[p] \in Affected => p \in Affected
  /\ NoticesUses => \A p \in Panel \ Affected : Upstream[p] \cap Uses = {}
<1>1. Affected \subseteq Panel /\ Noticed \subseteq Affected
  <2>1. Noticed \subseteq Panel
    BY ConstantsAssumption
  <2> QED
    BY <2>1 DEF Affected
<1>2. ASSUME NEW p \in Consumers, Source[p] \in Affected PROVE p \in Affected
  BY <1>2, PanelFacts DEF Affected
<1>3. ASSUME NoticesUses, NEW p \in Panel \ Affected PROVE Upstream[p] \cap Uses = {}
  <2>1. \A r \in (Panel \ Affected) \cap Consumers : Source[r] \in Panel \ Affected
    BY <1>2, PanelFacts
  <2>2. Upstream[p] \subseteq Panel \ Affected
    BY <2>1 DEF Upstream
  <2> QED
    BY <1>1, <1>3, <2>2 DEF NoticesUses
<1> QED
  BY <1>1, <1>2, <1>3

\* The types of the records in queries and waits.
LEMMA CurrentTypes ==
  ASSUME TypeOK
  PROVE  /\ epoch \in [Panel -> Nat] /\ gen \in [Panel -> Nat]
         /\ \A x \in settled : x[1] \in Panel /\ x[2] \in Nat
         /\ \A q \in queries : q.panel \in Queries /\ q.panel \in Panel /\ q.epoch \in Nat
         /\ \A w \in waits : w.panel \in Consumers /\ w.panel \in Panel
                             /\ w.epoch \in Nat /\ Source[w.panel] \in Panel
<1>1. \A q \in queries : q \in [panel : Queries, epoch : Nat, with : Value]
  BY DEF TypeOK
<1>2. \A w \in waits : w \in [panel : Consumers, epoch : Nat, on : Panel \X Nat]
  BY DEF TypeOK
<1>3. \A x \in settled : x \in Panel \X Nat
  BY DEF TypeOK
<1> QED
  BY <1>1, <1>2, <1>3, PanelFacts DEF TypeOK

\* Panels of S start: nothing that has settled already counts for a panel
\* whose promise is renewed, and a panel that is not renewed shows the same.
LEMMA CurrentStart ==
  ASSUME CurrentInv, FreshInv', NEW S \in SUBSET Panel, Start(S),
         \A p \in Panel : gen[p] <= gen'[p],
         \A p \in Panel : gen'[p] # gen[p] => p \in S,
         \A p \in Consumers : p \notin S => gen'[Source[p]] = gen[Source[p]],
         \A p \in Panel : gen'[p] = gen[p] => Current(p)' = Current(p)
  PROVE  CurrentInv'
<1>t. /\ TypeOK /\ TypeOK'
      /\ epoch \in [Panel -> Nat] /\ gen \in [Panel -> Nat] /\ gen' \in [Panel -> Nat]
      /\ \A x \in settled : x[1] \in Panel /\ x[2] \in Nat
      /\ \A q \in queries : q.panel \in Queries /\ q.panel \in Panel /\ q.epoch \in Nat
      /\ \A w \in waits : w.panel \in Consumers /\ w.panel \in Panel
                          /\ w.epoch \in Nat /\ Source[w.panel] \in Panel
  BY CurrentTypes DEF CurrentInv, FreshInv, TypeOK
<1>1. /\ rows' = rows /\ failed' = failed \cup Rejected(S)
      /\ settled' = settled \cup {<<p, gen'[p]>> : p \in OverAtOnce(S)}
      /\ queries \subseteq queries' /\ waits \subseteq waits'
      /\ \A p \in Panel : epoch'[p] = IF p \in S THEN epoch[p] + 1 ELSE epoch[p]
  BY DEF Start
<1>2. OverAtOnce(S) \subseteq S /\ OverAtOnce(S) \subseteq Rejected(S) \cup Static
  BY DEF OverAtOnce, Rejected
<1>3. AsksForCurrent'
  <2> SUFFICES ASSUME NEW q \in queries', ~Stale(q)'
               PROVE  q.with = IF q.panel \in Uses THEN value' ELSE 0
    BY DEF AsksForCurrent
  <2>1. CASE q \in queries
    <3>1. q.epoch = epoch'[q.panel] /\ q.epoch <= epoch[q.panel]
      BY <2>1 DEF Stale, CurrentInv, FreshInv, NewerThanShown
    <3>2. q.panel \notin S /\ q.epoch = epoch[q.panel]
      BY <1>t, <1>1, <2>1, <3>1
    <3>3. Current(q.panel)' = Current(q.panel)
      BY <1>t, <2>1, <3>2
    <3>4. q.with = Current(q.panel)
      BY <1>t, <2>1, <3>2, CurrentOf DEF CurrentInv, AsksForCurrent, Stale
    <3>5. Current(q.panel)' = IF q.panel \in Uses THEN value' ELSE 0
      <4>1. q.panel \in Panel /\ q.panel \in Queries
        BY <1>t, <2>1
      <4>2. Upstream[q.panel] = {q.panel} /\ q.panel \notin Static
        BY <4>1, UpstreamOf, PanelFacts, PanelKinds
      <4> QED
        BY <4>2 DEF Current
    <3> QED
      BY <3>3, <3>4, <3>5
  <2>2. CASE q \notin queries
    BY <2>2 DEF Start
  <2> QED
    BY <2>1, <2>2
<1>4. AwaitsCurrent'
  <2> SUFFICES ASSUME NEW w \in waits'
               PROVE  /\ w.epoch <= epoch'[w.panel]
                      /\ ~Stale(w)' => w.on = <<Source[w.panel], gen'[Source[w.panel]]>>
    BY DEF AwaitsCurrent
  <2>1. CASE w \in waits
    <3>1. w.epoch <= epoch[w.panel]
          /\ (~Stale(w) => w.on = <<Source[w.panel], gen[Source[w.panel]]>>)
      BY <2>1 DEF CurrentInv, AwaitsCurrent
    <3>2. w.epoch <= epoch'[w.panel]
      BY <1>t, <1>1, <2>1, <3>1
    <3>3. ASSUME w.epoch = epoch'[w.panel]
          PROVE  w.panel \notin S /\ w.epoch = epoch[w.panel]
      BY <1>t, <1>1, <2>1, <3>1, <3>3
    <3> QED
      BY <1>t, <2>1, <3>1, <3>2, <3>3 DEF Stale
  <2>2. CASE w \notin waits
    <3>1. PICK p \in S \cap Consumers :
            w = [panel |-> p, epoch |-> epoch[p] + 1, on |-> <<Source[p], gen'[Source[p]]>>]
      BY <2>2 DEF Start
    <3>2. w.epoch = epoch'[w.panel] /\ epoch'[w.panel] \in Nat
      BY <1>t, <1>1, <3>1
    <3> QED
      BY <3>1, <3>2
  <2> QED
    BY <2>1, <2>2
<1>5. OverIsSettled'
  <2> SUFFICES ASSUME NEW p \in Panel, epoch'[p] > 0, ~Loading(p)'
               PROVE  <<p, gen'[p]>> \in settled'
    BY DEF OverIsSettled
  <2>1. CASE p \in S
    <3>0. \A c \in queries' \cup waits' : ~(c.panel = p /\ c.epoch = epoch[p] + 1)
      BY <1>1, <2>1 DEF Loading, RunsOf
    <3>1. p \notin Asking(S)
      <4>1. p \in Asking(S) =>
              [panel |-> p, epoch |-> epoch[p] + 1,
               with |-> IF p \in Uses THEN value' ELSE 0] \in queries'
        BY DEF Start
      <4> QED
        BY <3>0, <4>1
    <3>2. p \notin Consumers
      <4>1. p \in Consumers =>
              [panel |-> p, epoch |-> epoch[p] + 1,
               on |-> <<Source[p], gen'[Source[p]]>>] \in waits'
        BY <2>1 DEF Start
      <4> QED
        BY <3>0, <4>1
    <3>3. p \in OverAtOnce(S)
      BY <2>1, <3>1, <3>2, PanelKinds DEF Asking, OverAtOnce, Rejected
    <3> QED
      BY <1>1, <3>3
  <2>2. CASE p \notin S
    <3>1. ~Loading(p) /\ epoch[p] > 0
      BY <1>1, <2>2 DEF Loading, RunsOf
    <3> QED
      BY <1>1, <2>2, <3>1 DEF CurrentInv, OverIsSettled
  <2> QED
    BY <2>1, <2>2
<1>6. SettledSoFar'
  <2> SUFFICES ASSUME NEW x \in settled' PROVE x[2] <= gen'[x[1]]
    BY DEF SettledSoFar
  <2>1. CASE x \in settled
    <3>1. x[1] \in Panel /\ x[2] \in Nat /\ x[2] <= gen[x[1]] /\ gen[x[1]] <= gen'[x[1]]
      BY <1>t, <2>1 DEF CurrentInv, SettledSoFar
    <3> QED
      BY <1>t, <3>1
  <2>2. CASE x \notin settled
    <3>1. PICK p \in OverAtOnce(S) : x = <<p, gen'[p]>>
      BY <1>1, <2>2
    <3> QED
      BY <1>t, <1>2, <3>1
  <2> QED
    BY <2>1, <2>2
<1>7. SettledIsCurrent'
  <2> SUFFICES ASSUME NEW p \in Panel, <<p, gen'[p]>> \in settled',
                      Upstream[p] \cap failed' = {}
               PROVE  rows'[p] = Current(p)'
    BY DEF SettledIsCurrent
  <2>1. p \notin Rejected(S)
    BY <1>1, UpstreamOf
  <2>2. CASE p \in Static
    <3>1. Current(p)' = NoRows
      BY <2>2, UpstreamOf DEF Current
    <3> QED
      BY <1>1, <2>2, <3>1 DEF CurrentInv, StaticIsEmpty
  <2>3. CASE p \notin Static
    <3>1. <<p, gen'[p]>> \in settled
      BY <1>1, <1>2, <2>1, <2>3
    <3>2. gen'[p] <= gen[p]
      BY <3>1 DEF CurrentInv, SettledSoFar
    <3>3. gen'[p] = gen[p]
      BY <1>t, <3>2
    <3>4. rows[p] = Current(p)
      BY <1>1, <3>1, <3>3 DEF CurrentInv, SettledIsCurrent
    <3> QED
      BY <1>1, <3>3, <3>4
  <2> QED
    BY <2>2, <2>3
<1>8. StaticIsEmpty'
  BY <1>1 DEF CurrentInv, StaticIsEmpty
<1> QED
  BY <1>3, <1>4, <1>5, <1>6, <1>7, <1>8 DEF CurrentInv

\* Runs of a panel end: its latest one resolves the panel's current promise,
\* and then the panel shows what it should.
LEMMA CurrentResume ==
  ASSUME CurrentInv, FreshInv', NEW p \in Panel, p \notin Static,
         UNCHANGED <<value, epoch, gen>>,
         queries' \subseteq queries, waits' \subseteq waits, failed \subseteq failed',
         settled \subseteq settled', settled' \subseteq settled \cup {<<p, gen[p]>>},
         \A x \in Panel : Loading(x) => Loading(x)' \/ <<x, gen[x]>> \in settled',
         \A x \in Panel : x # p => rows'[x] = rows[x],
         <<p, gen[p]>> \in settled' /\ Upstream[p] \cap failed' = {}
           => rows'[p] = Current(p)
  PROVE  CurrentInv'
<1>1. \A c \in queries \cup waits : Stale(c)' <=> Stale(c)
  BY DEF Stale
<1>2. AsksForCurrent' /\ AwaitsCurrent'
  BY <1>1 DEF CurrentInv, AsksForCurrent, AwaitsCurrent
<1>3. OverIsSettled'
  BY DEF CurrentInv, OverIsSettled
<1>4. SettledSoFar'
  <2>1. gen[p] <= gen[p]
    BY CurrentTypes DEF CurrentInv, FreshInv
  <2> QED
    BY <2>1 DEF CurrentInv, SettledSoFar
<1>5. SettledIsCurrent'
  <2> SUFFICES ASSUME NEW x \in Panel, <<x, gen'[x]>> \in settled',
                      Upstream[x] \cap failed' = {}
               PROVE  rows'[x] = Current(x)'
    BY DEF SettledIsCurrent
  <2>1. Current(x)' = Current(x)
    BY DEF Current
  <2>2. CASE x # p
    <3>1. <<x, gen[x]>> \in settled /\ Upstream[x] \cap failed = {}
      BY <2>2
    <3> QED
      BY <2>1, <2>2, <3>1 DEF CurrentInv, SettledIsCurrent
  <2> QED
    BY <2>1, <2>2
<1>6. StaticIsEmpty'
  BY PanelFacts DEF CurrentInv, StaticIsEmpty
<1> QED
  BY <1>2, <1>3, <1>4, <1>5, <1>6 DEF CurrentInv

LEMMA CurrentNext ==
  ASSUME NoticesUses, CurrentInv, FreshInv', [Next]_vars
  PROVE  CurrentInv'
<1>t. /\ TypeOK /\ TypeOK'
      /\ epoch \in [Panel -> Nat] /\ gen \in [Panel -> Nat] /\ gen' \in [Panel -> Nat]
      /\ \A q \in queries : q.panel \in Queries /\ q.panel \in Panel
      /\ \A w \in waits : w.panel \in Consumers /\ w.panel \in Panel
                          /\ Source[w.panel] \in Panel
  BY CurrentTypes DEF CurrentInv, FreshInv, TypeOK
<1>r. rows \in [Panel -> Value \cup {NoRows}]
  BY <1>t DEF TypeOK
<1>0. CASE UNCHANGED <<value, panelVars>>
  <2>1. \A p \in Panel : Current(p)' = Current(p)
    BY <1>0 DEF Current
  <2>2. \A p \in Panel : Loading(p)' <=> Loading(p)
    BY <1>0 DEF panelVars, Loading
  <2>3. \A c \in queries \cup waits : Stale(c)' <=> Stale(c)
    BY <1>0 DEF panelVars, Stale
  <2>4. AsksForCurrent' /\ AwaitsCurrent'
    BY <1>0, <2>3 DEF panelVars, CurrentInv, AsksForCurrent, AwaitsCurrent
  <2>5. OverIsSettled' /\ SettledSoFar'
    BY <1>0, <2>2 DEF panelVars, CurrentInv, OverIsSettled, SettledSoFar
  <2>6. SettledIsCurrent' /\ StaticIsEmpty'
    BY <1>0, <2>1 DEF panelVars, CurrentInv, SettledIsCurrent, StaticIsEmpty
  <2> QED
    BY <2>4, <2>5, <2>6 DEF CurrentInv
<1>1. CASE BootNext
  <2>1. UNCHANGED <<value, gen>>
    BY <1>1 DEF BootNext, paramVars
  <2>2. CASE UNCHANGED panelVars
    BY <1>0, <2>1, <2>2
  <2>3. CASE bootAt < NumPanels
    <3>1. bootAt \in Nat /\ NumPanels \in Nat /\ bootAt + 1 \in Panel
      BY <1>t, <2>3, ConstantsAssumption DEF TypeOK, Panel, Done
    <3>2. PICK S \in SUBSET Panel : Start(S)
      BY <1>1, <2>3, <3>1 DEF BootNext
    <3>3. \A p \in Panel : gen[p] <= gen'[p]
      BY <1>t, <2>1
    <3>4. \A p \in Panel : Current(p)' = Current(p)
      BY <2>1 DEF Current
    <3> QED
      BY <2>1, <3>2, <3>3, <3>4, CurrentStart
  <2> QED
    BY <1>1, <2>2, <2>3 DEF BootNext
<1>2. ASSUME NEW w \in waits, Consume(w) PROVE CurrentInv'
  <2> DEFINE p == w.panel
  <2>1. /\ p \in Panel /\ p \in Consumers /\ p \notin Static /\ Source[p] \in Panel
        /\ waits' = waits \ {w} /\ UNCHANGED <<value, epoch, gen, queries>>
        /\ w.on \in settled
    BY <1>2, <1>t, PanelKinds DEF Consume, paramVars
  <2>2. \A x \in Panel : Loading(x) => Loading(x)' \/ (x = p /\ ~Stale(w))
    BY <2>1 DEF Loading, RunsOf, Stale
  <2>3. CASE Stale(w) /\ UNCHANGED <<rows, failed, settled>>
    <3>1. <<p, gen[p]>> \in settled' /\ Upstream[p] \cap failed' = {}
            => rows'[p] = Current(p)
      BY <2>1, <2>3 DEF CurrentInv, SettledIsCurrent
    <3> QED
      BY <2>1, <2>2, <2>3, <3>1, CurrentResume
  <2>4. CASE /\ ~Stale(w) /\ failed' = failed \cup {p} /\ Settle(p) /\ UNCHANGED rows
    <3>1. p \in Upstream[p] \cap failed'
      BY <2>1, <2>4, UpstreamOf
    <3> QED
      BY <2>1, <2>2, <2>4, <3>1, CurrentResume DEF Settle
  <2>5. CASE ~Stale(w) /\ Load(p, rows[Source[p]]) /\ UNCHANGED failed
    <3>1. <<Source[p], gen[Source[p]]>> \in settled
      BY <2>1, <2>5 DEF CurrentInv, AwaitsCurrent
    <3>2. ASSUME Upstream[p] \cap failed' = {} PROVE rows'[p] = Current(p)
      <4>1. Upstream[Source[p]] \cap failed = {}
        BY <2>1, <2>5, <3>2, UpstreamOf
      <4>2. rows[Source[p]] = Current(Source[p])
        BY <2>1, <3>1, <4>1 DEF CurrentInv, SettledIsCurrent
      <4>3. rows'[p] = rows[Source[p]]
        BY <1>r, <2>1, <2>5 DEF Load
      <4> QED
        BY <2>1, <4>2, <4>3, CurrentOf
    <3>3. \A x \in Panel : x # p => rows'[x] = rows[x]
      BY <1>r, <2>5 DEF Load
    <3>4. settled' = settled \cup {<<p, gen[p]>>}
      BY <2>5 DEF Load, Settle
    <3> QED
      BY <2>1, <2>2, <2>5, <3>2, <3>3, <3>4, CurrentResume
  <2> QED
    BY <1>2, <2>3, <2>4, <2>5 DEF Consume
<1>3. ASSUME NEW q \in queries, NEW ok \in BOOLEAN, Answer(q, ok) PROVE CurrentInv'
  <2> DEFINE p == q.panel
  <2>1. /\ p \in Panel /\ p \in Queries /\ p \notin Static
        /\ queries' = queries \ {q} /\ UNCHANGED <<value, epoch, gen, waits>>
    BY <1>3, <1>t, PanelKinds DEF Answer, paramVars
  <2>2. \A x \in Panel : Loading(x) => Loading(x)' \/ (x = p /\ ~Stale(q))
    BY <2>1 DEF Loading, RunsOf, Stale
  <2>3. CASE Stale(q) /\ UNCHANGED <<rows, failed, settled>>
    <3>1. <<p, gen[p]>> \in settled' /\ Upstream[p] \cap failed' = {}
            => rows'[p] = Current(p)
      BY <2>1, <2>3 DEF CurrentInv, SettledIsCurrent
    <3> QED
      BY <2>1, <2>2, <2>3, <3>1, CurrentResume
  <2>4. CASE /\ ~Stale(q) /\ failed' = failed \cup {p} /\ Settle(p) /\ UNCHANGED rows
    <3>1. p \in Upstream[p] \cap failed'
      BY <2>1, <2>4, UpstreamOf
    <3> QED
      BY <2>1, <2>2, <2>4, <3>1, CurrentResume DEF Settle
  <2>5. CASE ~Stale(q) /\ Load(p, q.with) /\ failed \subseteq failed'
    <3>1. q.with = Current(p)
      BY <2>1, <2>5, CurrentOf DEF CurrentInv, AsksForCurrent
    <3>2. rows'[p] = Current(p) /\ \A x \in Panel : x # p => rows'[x] = rows[x]
      BY <1>r, <2>1, <2>5, <3>1 DEF Load
    <3>3. settled' = settled \cup {<<p, gen[p]>>}
      BY <2>5 DEF Load, Settle
    <3> QED
      BY <2>1, <2>2, <2>5, <3>2, <3>3, CurrentResume
  <2> QED
    BY <1>3, <2>3, <2>4, <2>5 DEF Answer
<1>4. ASSUME NEW v \in 0..MaxValues, NEW invalid \in BOOLEAN, SetParam(v, invalid)
      PROVE  CurrentInv'
  <2>1. /\ Start(Affected)
        /\ \A p \in Panel : gen'[p] = IF p \in Affected THEN gen[p] + 1 ELSE gen[p]
    BY <1>4 DEF SetParam, RenewLoaded
  <2>2. \A p \in Panel : gen[p] <= gen'[p]
    BY <1>t, <2>1
  <2>3. \A p \in Consumers : p \notin Affected => gen'[Source[p]] = gen[Source[p]]
    BY <2>1, AffectedClosed, PanelFacts
  <2>4. \A p \in Panel : gen'[p] = gen[p] => p \notin Affected
    BY <1>t, <2>1
  <2>5. \A p \in Panel : gen'[p] = gen[p] => Current(p)' = Current(p)
    BY <2>4, AffectedClosed DEF Current
  <2> QED
    BY <2>1, <2>2, <2>3, <2>5, AffectedClosed, CurrentStart
<1>5. CASE UNCHANGED vars
  BY <1>0, <1>5 DEF vars, paramVars
<1> QED
  BY <1>1, <1>2, <1>3, <1>4, <1>5 DEF Next, Resume

LEMMA CurrentInit == Init => CurrentInv
<1> SUFFICES ASSUME Init PROVE CurrentInv
  OBVIOUS
<1>1. /\ queries = {} /\ waits = {} /\ settled = {} /\ epoch = [p \in Panel |-> 0]
      /\ rows = [p \in Panel |-> NoRows]
  BY DEF Init
<1>2. FreshInv
  BY FreshInit
<1> QED
  BY <1>1, <1>2, PanelFacts DEF CurrentInv, AsksForCurrent, AwaitsCurrent,
     OverIsSettled, SettledSoFar, SettledIsCurrent, StaticIsEmpty

\* Once a panel and everything it gets its rows from have loaded without an
\* error, it shows rows for the parameter's current value, whatever was set,
\* answered and rerun before (dash.js:257), if _rerun finds every placeholder.
THEOREM LoadedCurrent ==
  ASSUME NoticesUses
  PROVE  Spec => []LoadedIsCurrent
<1>1. CurrentInv => LoadedIsCurrent
  <2> SUFFICES ASSUME CurrentInv, NEW p \in Panel, Loaded(p)
               PROVE  rows[p] = Current(p)
    BY DEF LoadedIsCurrent
  <2>1. p \in Upstream[p] /\ Upstream[p] \cap failed = {}
    BY UpstreamOf DEF Loaded
  <2>2. <<p, gen[p]>> \in settled
    BY <2>1 DEF Loaded, CurrentInv, OverIsSettled
  <2> QED
    BY <2>1, <2>2 DEF CurrentInv, SettledIsCurrent
<1>2. CurrentInv /\ [Next]_vars => CurrentInv'
  BY FreshNext, TypeNext, CurrentNext DEF CurrentInv, FreshInv
<1> QED
  BY <1>1, <1>2, CurrentInit, PTL DEF Spec
=============================================================================
