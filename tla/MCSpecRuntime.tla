--------------------------- MODULE MCSpecRuntime ---------------------------
(* Instances of SpecRuntime for TLC.                                       *)
EXTENDS SpecRuntime

\* Panel 1 is queried, 2 reads from 1 and 3 from 2; 4 reads from 5, which is
\* declared too late and static; 6 reads from 5 too.
ChainSource == <<0, 1, 2, 5, 0, 5>>
\* Panel 1 is queried, 2 reads from it, 3 is queried without the parameter.
PairSource == <<0, 1, 0>>
=============================================================================
