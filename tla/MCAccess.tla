------------------------------ MODULE MCAccess ------------------------------
(* Logins, and requests that change roles, are interchangeable.  The two    *)
(* halves share nothing, so one rests while the other runs.                 *)
EXTENDS Access, TLC

Interchangeable == Permutations(Login) \cup Permutations(Change) \cup Permutations(Role)

OneHalf ==
  \/ changes = 0 /\ \A c \in Change : change[c] = Idle
  \/ now = 0 /\ failures = <<>> /\ \A l \in Login : login[l] = "idle"
=============================================================================
