----------------------------- MODULE MCRunPage -----------------------------
(* Two transactions at a time.                                             *)
EXTENDS RunPage
=============================================================================
