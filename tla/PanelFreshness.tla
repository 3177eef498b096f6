-------------------------- MODULE PanelFreshness --------------------------
(***************************************************************************)
(* What a dashboard promises about the rows its panels show, in a          *)
(* parameter's values: rows of a query panel never go back to an earlier   *)
(* value, and a panel that reads another panel's rows never runs ahead of  *)
(* it.  SpecRuntime implements it.                                         *)
(***************************************************************************)
EXTENDS Integers

CONSTANTS
  Panel,    \* the panels
  Source,   \* panel -> the panel it reads from
  Consumers \* panels that read from another panel

NoRows == -1

VARIABLES
  value,    \* how often the parameter has been given another value
  shown     \* panel -> value its rows belong to

Init == value = 0 /\ shown = [p \in Panel |-> NoRows]

SetValue == value' = value + 1 /\ UNCHANGED shown

Limit(p) == IF p \in Consumers THEN shown[Source[p]] ELSE value

Show(p) ==
  /\ \E v \in shown[p]..Limit(p) : shown' = [shown EXCEPT ![p] = v]
  /\ UNCHANGED value

Next == SetValue \/ \E p \in Panel : Show(p)

Spec == Init /\ [][Next]_<<value, shown>>
=============================================================================
