----------------------------- MODULE MCSession -----------------------------
(* Instances of Session.                                                   *)
EXTENDS Session
CONSTANTS t1, t2
=============================================================================
