----------------------------- MODULE MCKeyRing -----------------------------
(* Two requests at a time.                                                 *)
EXTENDS KeyRing
=============================================================================
