---------------------------- MODULE SampleInsert ----------------------------
(***************************************************************************)
(* What populate promises the loop over the sandbox tables (populate in    *)
(* anon/internal/discover/sandbox.go): rows reach the table at most once   *)
(* and before it returns, and after success it holds all that was selected *)
(* or nothing.  Sandbox's Populate and PopulateFails are an Insert followed*)
(* by a Return in one step; Transport implements it with a stream between  *)
(* two client processes.                                                   *)
(***************************************************************************)
EXTENDS Naturals

CONSTANT MaxRows   \* bound: how many rows the query may return

VARIABLES
  rows,    \* how many rows the masked SELECT returns
  stored,  \* how many of them are in the table
  result   \* what populate returned

vars == <<rows, stored, result>>

Init == rows \in 0..MaxRows /\ stored = 0 /\ result = "none"

\* Blocks of an insert that fails later stay in the table.
Insert ==
  /\ result = "none" /\ stored = 0
  /\ stored' \in 1..rows
  /\ UNCHANGED <<rows, result>>

Return ==
  /\ result = "none"
  /\ \/ result' = "ok" /\ stored \in {0, rows}
     \/ result' = "error"
  /\ UNCHANGED <<rows, stored>>

Next == Insert \/ Return

Spec == Init /\ [][Next]_vars
=============================================================================
