------------------------------- MODULE KeyRing -------------------------------
(***************************************************************************)
(* The credentials of one flow, their encrypted revisions, and the change   *)
(* of the key they are encrypted with (group_api.py, security/).            *)
(*                                                                         *)
(* A process reads its key ring from the environment once, when it starts.  *)
(* The requests of the API run in threads; each is one transaction, whose   *)
(* reads see what was committed and whose writes wait for rows that another *)
(* has written.  rotate_credential_keys is a process of its own, started in *)
(* the container of the API: one transaction over every revision it finds.  *)
(* The operator follows README.md:241.                                     *)
(*                                                                         *)
(* Of a revision only its key matters: what is encrypted under it, nonce    *)
(* and associated data are left out.                                       *)
(***************************************************************************)
EXTENDS Integers, Sequences

CONSTANTS
  Credential,
  Request,         \* requests the API serves at the same time
  MaxRevisions     \* bound on the revisions of a credential

ASSUME KeyRingAssumption == MaxRevisions \in Nat

VARIABLES
  environment,     \* the key ring as the operator has written it
  ring,            \* the key ring each process works with
  stage,           \* how far the operator has come
  restarted,       \* the processes restarted since the keys were rotated
  state,           \* whether a credential exists
  current,         \* current_revision
  revisions,       \* for each credential the keys of its revisions
  request,         \* what each request has read
  script,          \* how far rotate_credential_keys has come
  seen,            \* the revisions its query has found, 1 up to this one
  covered          \* history: what it had seen when it last committed

credentialVars == <<state, current, revisions>>
operatorVars == <<environment, ring, stage, restarted>>
scriptVars == <<script, seen, covered>>
keyRingVars == <<operatorVars, credentialVars, request, scriptVars>>

Key == {"old", "new"}
Process == {"api", "worker"}
Ring == [keys : SUBSET Key, active : Key]

Idle == [phase |-> "idle"]
Revise ==
  [phase : {"read", "flushed"}, of : Credential, revision : Nat, key : Key]

KeyRingInit ==
  /\ environment = [keys |-> {"old"}, active |-> "old"]
  /\ ring = [p \in Process |-> environment]
  /\ stage = "one key"
  /\ restarted = {}
  /\ state = [c \in Credential |-> "none"]
  /\ current = [c \in Credential |-> 0]
  /\ revisions = [c \in Credential |-> <<>>]
  /\ request = [r \in Request |-> Idle]
  /\ script = "idle"
  /\ seen = [c \in Credential |-> 0]
  /\ covered = [c \in Credential |-> 0]

-----------------------------------------------------------------------------
(* Revisions: create_credential and rotate_credential. *)

(* A transaction has written rows of the credential and not committed. *)
Locked(c) ==
  \E r \in Request : request[r].phase = "flushed" /\ request[r].of = c

(* create_revision counts on from what was read and encrypts under the      *)
(* active key of the API.                                                  *)
BeginRevision(r, c) ==
  /\ request[r].phase = "idle"
  /\ state[c] # "deleted"
  /\ current[c] < MaxRevisions
  /\ request' = [request EXCEPT ![r] =
       [phase |-> "read", of |-> c, revision |-> current[c] + 1,
        key |-> ring["api"].active]]
  /\ UNCHANGED <<operatorVars, credentialVars, scriptVars>>

(* wrong variant: no unique constraint on credential and revision *)
FlushAnyRevision(r) ==
  /\ request[r].phase = "read"
  /\ ~Locked(request[r].of)
  /\ request' = [request EXCEPT ![r] =
       IF state[request[r].of] = "deleted" THEN Idle ELSE [@ EXCEPT !.phase = "flushed"]]
  /\ UNCHANGED <<operatorVars, credentialVars, scriptVars>>

(* The rows are written.  A number that is taken by now, or a credential    *)
(* that is gone, is an error.                                              *)
FlushRevision(r) ==
  /\ request[r].phase = "read"
  /\ ~Locked(request[r].of)
  /\ LET c == request[r].of
         ok == state[c] # "deleted" /\ request[r].revision > Len(revisions[c])
     IN request' = [request EXCEPT ![r] =
          IF ok THEN [@ EXCEPT !.phase = "flushed"] ELSE Idle]
  /\ UNCHANGED <<operatorVars, credentialVars, scriptVars>>

CommitRevision(r) ==
  /\ request[r].phase = "flushed"
  /\ LET c == request[r].of
     IN /\ state' = [state EXCEPT ![c] = "present"]
        /\ current' = [current EXCEPT ![c] = request[r].revision]
        /\ revisions' = [revisions EXCEPT ![c] = Append(@, request[r].key)]
  /\ request' = [request EXCEPT ![r] = Idle]
  /\ UNCHANGED <<operatorVars, scriptVars>>

(* delete_credential, when nothing refers to it (FlowLifecycle). *)
DeleteCredential(c) ==
  /\ state[c] = "present"
  /\ ~Locked(c)
  /\ state' = [state EXCEPT ![c] = "deleted"]
  /\ current' = [current EXCEPT ![c] = 0]
  /\ revisions' = [revisions EXCEPT ![c] = <<>>]
  /\ UNCHANGED <<operatorVars, request, scriptVars>>

-----------------------------------------------------------------------------
(* rotate_credential_keys, with the key ring of the container it runs in. *)

(* Its SELECT ... FOR UPDATE finds what is committed when it starts.        *)
SelectRevisions ==
  /\ stage # "one key"
  /\ script = "idle"
  /\ "new" \in ring["api"].keys
  /\ script' = "selected"
  /\ seen' = [c \in Credential |-> Len(revisions[c])]
  /\ UNCHANGED <<operatorVars, credentialVars, request, covered>>

(* wrong variant: re-encrypts the current revision of each credential *)
ReencryptedCurrentOnly ==
  [c \in Credential |-> [n \in DOMAIN revisions[c] |->
     IF n = seen[c] THEN "new" ELSE revisions[c][n]]]

Reencrypted ==
  [c \in Credential |-> [n \in DOMAIN revisions[c] |->
     IF n <= seen[c] THEN "new" ELSE revisions[c][n]]]

Decryptable ==
  \A c \in Credential : \A n \in DOMAIN revisions[c] :
    n <= seen[c] => revisions[c][n] \in ring["api"].keys

(* It has waited for the rows others had written and got every lock; nobody *)
(* writes them until it commits.                                           *)
Reencrypt ==
  /\ script = "selected"
  /\ Decryptable
  /\ \A c \in Credential : seen[c] > 0 => ~Locked(c)
  /\ revisions' = Reencrypted
  /\ script' = "idle"
  /\ covered' = seen
  /\ stage' = IF stage = "two keys" THEN "rotated" ELSE stage
  /\ restarted' = IF stage = "two keys" THEN {} ELSE restarted
  /\ UNCHANGED <<environment, ring, state, current, request, seen>>

ReencryptFails ==
  /\ script = "selected"
  /\ ~Decryptable
  /\ script' = "idle"
  /\ UNCHANGED <<operatorVars, credentialVars, request, seen, covered>>

-----------------------------------------------------------------------------
(* The operator. *)

AddKey ==
  /\ stage = "one key"
  /\ stage' = "two keys"
  /\ \E k \in Key : environment' = [keys |-> Key, active |-> k]
  /\ UNCHANGED <<ring, restarted, credentialVars, request, scriptVars>>

(* README.md does not say when. *)
ActivateNewKey ==
  /\ stage # "one key"
  /\ environment.active = "old"
  /\ environment' = [environment EXCEPT !.active = "new"]
  /\ UNCHANGED <<ring, stage, restarted, credentialVars, request, scriptVars>>

(* "Only remove the old key after the command succeeds and API and Worker   *)
(* have restarted with the same Key Ring."                                 *)
RemoveKey ==
  /\ stage = "rotated"
  /\ restarted = Process
  /\ ring["api"] = ring["worker"]
  /\ stage' = "removed"
  /\ environment' = [environment EXCEPT !.keys = {"new"}]
  /\ UNCHANGED <<ring, restarted, credentialVars, request, scriptVars>>

(* wrong variant: validate_key_ring is not called *)
RestartUnchecked(p) ==
  /\ ring' = [ring EXCEPT ![p] = environment]
  /\ restarted' = restarted \cup {p}
  /\ request' = IF p = "api" THEN [r \in Request |-> Idle] ELSE request
  /\ script' = IF p = "api" THEN "idle" ELSE script
  /\ UNCHANGED <<environment, stage, credentialVars, seen, covered>>

(* A process starts with a ring that validate_key_ring accepts.  With the   *)
(* container of the API its requests and the script die.                   *)
Restart(p) ==
  /\ environment.active \in environment.keys
  /\ ring' = [ring EXCEPT ![p] = environment]
  /\ restarted' = restarted \cup {p}
  /\ request' = IF p = "api" THEN [r \in Request |-> Idle] ELSE request
  /\ script' = IF p = "api" THEN "idle" ELSE script
  /\ UNCHANGED <<environment, stage, credentialVars, seen, covered>>

KeyRingNext ==
  \/ \E r \in Request :
       \/ \E c \in Credential : BeginRevision(r, c)
       \/ FlushRevision(r) \/ CommitRevision(r)
  \/ \E c \in Credential : DeleteCredential(c)
  \/ SelectRevisions \/ Reencrypt \/ ReencryptFails
  \/ AddKey \/ ActivateNewKey \/ RemoveKey
  \/ \E p \in Process : Restart(p)

KeyRingSpec == KeyRingInit /\ [][KeyRingNext]_keyRingVars

-----------------------------------------------------------------------------
(* Properties. *)

(* Type invariant.  A process always works with a ring that holds its       *)
(* active key.                                                             *)
KeyRingTypeOK ==
  /\ environment \in Ring
  /\ ring \in [Process -> Ring]
  /\ \A p \in Process : ring[p].active \in ring[p].keys
  /\ stage \in {"one key", "two keys", "rotated", "removed"}
  /\ restarted \subseteq Process
  /\ state \in [Credential -> {"none", "present", "deleted"}]
  /\ current \in [Credential -> Nat]
  /\ revisions \in [Credential -> Seq(Key)]
  /\ request \in [Request -> {Idle} \cup Revise]
  /\ script \in {"idle", "selected"}
  /\ seen \in [Credential -> Nat] /\ covered \in [Credential -> Nat]

(* A credential that exists has a current revision, the newest one, and its *)
(* revisions are numbered without a gap, however its rotations overlap.    *)
RevisionsInOrder ==
  \A c \in Credential :
    /\ current[c] = Len(revisions[c])
    /\ state[c] = "present" => current[c] > 0

Late(c, n) == stage \in {"rotated", "removed"} /\ n > covered[c]

(* When API and worker work with the same ring, as their logged fingerprints *)
(* tell, both can decrypt every revision, before, during and after the      *)
(* change of the key, also when the script is run again or dies.  The       *)
(* exception are revisions committed after its query.                      *)
RevisionsReadable ==
  ring["api"] = ring["worker"] =>
    \A c \in Credential : \A n \in DOMAIN revisions[c] :
      Late(c, n) \/ revisions[c][n] \in ring["api"].keys
=============================================================================
