---------------------------- MODULE KeyRingProofs ----------------------------
(***************************************************************************)
(* Proofs about the key ring, for any number of credentials, requests and   *)
(* revisions.                                                              *)
(***************************************************************************)
EXTENDS KeyRing, TLAPS

Reads(r) == request[r].phase = "read"
Flushed(r) == request[r].phase = "flushed"

(* The numbers that requests hold are the next ones or taken by now; who    *)
(* has flushed holds the next one, alone.                                  *)
CountInv ==
  /\ RevisionsInOrder
  /\ \A r \in Request : Reads(r) /\ state[request[r].of] # "deleted" =>
       request[r].revision <= Len(revisions[request[r].of]) + 1
  /\ \A r \in Request : Flushed(r) =>
       /\ state[request[r].of] # "deleted"
       /\ request[r].revision = Len(revisions[request[r].of]) + 1
  /\ \A r, q \in Request :
       Flushed(r) /\ Flushed(q) /\ request[r].of = request[q].of => r = q

(* What the operator has reached, and which rings may still be at work.     *)
StageInv ==
  /\ stage = "one key" =>
       environment.keys = {"old"} /\ \A p \in Process : ring[p].keys = {"old"}
  /\ stage \in {"two keys", "rotated"} =>
       environment.keys = Key /\ \A p \in Process : ring[p].keys \in {{"old"}, Key}
  /\ stage = "rotated" => \A p \in restarted : ring[p].keys = Key
  /\ stage = "removed" =>
       environment.keys = {"new"} /\ \A p \in Process : ring[p].keys \in {Key, {"new"}}

(* The new key is used only where it is known, ...                          *)
OldInv ==
  "new" \notin ring["api"].keys =>
    /\ \A c \in Credential : \A n \in DOMAIN revisions[c] : revisions[c][n] = "old"
    /\ \A r \in Request : Reads(r) \/ Flushed(r) => request[r].key = "old"
    /\ script = "idle"

(* ... and what the script has covered is encrypted under it.               *)
CoveredInv ==
  /\ \A c \in Credential : state[c] # "deleted" =>
       seen[c] <= Len(revisions[c]) /\ covered[c] <= Len(revisions[c])
  /\ stage \in {"rotated", "removed"} =>
       \A c \in Credential : \A n \in DOMAIN revisions[c] :
         n <= covered[c] => revisions[c][n] = "new"

-----------------------------------------------------------------------------
LEMMA Pending ==
  ASSUME KeyRingTypeOK, NEW r \in Request, request[r].phase # "idle"
  PROVE  /\ request[r] \in Revise
         /\ request[r].of \in Credential /\ request[r].revision \in Nat
         /\ request[r].key \in Key
         /\ request[r].phase \in {"read", "flushed"}
<1>1. request[r] \in {Idle} \cup Revise
  BY DEF KeyRingTypeOK
<1>2. request[r] # Idle
  BY DEF Idle
<1>3. request[r] \in Revise
  BY <1>1, <1>2
<1> QED BY <1>3 DEF Revise

LEMMA InitTypes == KeyRingInit => KeyRingTypeOK
<1> SUFFICES ASSUME KeyRingInit PROVE KeyRingTypeOK
  OBVIOUS
<1>1. environment \in Ring /\ environment.active \in environment.keys
  BY DEF KeyRingInit, Ring, Key
<1>2. ring \in [Process -> Ring] /\ \A p \in Process : ring[p].active \in ring[p].keys
  BY <1>1 DEF KeyRingInit
<1>3. /\ state \in [Credential -> {"none", "present", "deleted"}]
      /\ current \in [Credential -> Nat]
      /\ seen \in [Credential -> Nat] /\ covered \in [Credential -> Nat]
  BY DEF KeyRingInit
<1>5. revisions \in [Credential -> Seq(Key)]
  <2>1. <<>> \in Seq(Key)
    OBVIOUS
  <2> QED BY <2>1 DEF KeyRingInit
<1>4. request \in [Request -> {Idle} \cup Revise]
  BY DEF KeyRingInit
<1> QED BY <1>1, <1>2, <1>3, <1>4, <1>5 DEF KeyRingInit, KeyRingTypeOK

LEMMA RequestTypes ==
  ASSUME KeyRingTypeOK, NEW r \in Request,
         (\E c \in Credential : BeginRevision(r, c)) \/ FlushRevision(r) \/ CommitRevision(r)
  PROVE  KeyRingTypeOK'
<1>1. CASE \E c \in Credential : BeginRevision(r, c)
  <2>1. PICK c \in Credential : BeginRevision(r, c)
    BY <1>1
  <2>2. current[c] + 1 \in Nat
    <3>1. current[c] \in Nat
      BY DEF KeyRingTypeOK
    <3> QED BY <3>1
  <2>5. ring["api"].active \in Key
    <3>1. ring["api"] \in Ring
      BY DEF KeyRingTypeOK, Process
    <3> QED BY <3>1 DEF Ring
  <2>3. [phase |-> "read", of |-> c, revision |-> current[c] + 1,
         key |-> ring["api"].active] \in Revise
    BY <2>2, <2>5 DEF Revise
  <2>4. request' \in [Request -> {Idle} \cup Revise]
    BY <2>1, <2>3 DEF BeginRevision, KeyRingTypeOK
  <2> QED BY <2>1, <2>4 DEF BeginRevision, KeyRingTypeOK, operatorVars, credentialVars,
          scriptVars
<1>2. CASE FlushRevision(r)
  <2>1. request[r] \in Revise
    BY <1>2, Pending DEF FlushRevision
  <2>2. [request[r] EXCEPT !.phase = "flushed"] \in Revise
    BY <2>1 DEF Revise
  <2>3. request' \in [Request -> {Idle} \cup Revise]
    BY <1>2, <2>2 DEF FlushRevision, KeyRingTypeOK
  <2> QED BY <1>2, <2>3 DEF FlushRevision, KeyRingTypeOK, operatorVars, credentialVars,
          scriptVars
<1>3. CASE CommitRevision(r)
  <2> DEFINE c == request[r].of
  <2>1. c \in Credential /\ request[r].revision \in Nat /\ request[r].key \in Key
    BY <1>3, Pending DEF CommitRevision
  <2>2. state' \in [Credential -> {"none", "present", "deleted"}]
    BY <1>3, <2>1 DEF CommitRevision, KeyRingTypeOK
  <2>3. current' \in [Credential -> Nat]
    BY <1>3, <2>1 DEF CommitRevision, KeyRingTypeOK
  <2>4. revisions[c] \in Seq(Key)
    BY <2>1 DEF KeyRingTypeOK
  <2>5. Append(revisions[c], request[r].key) \in Seq(Key)
    BY <2>1, <2>4
  <2>6. revisions' = [revisions EXCEPT ![c] = Append(revisions[c], request[r].key)]
    BY <1>3 DEF CommitRevision
  <2>7. revisions' \in [Credential -> Seq(Key)]
    BY <2>5, <2>6 DEF KeyRingTypeOK
  <2>8. request' \in [Request -> {Idle} \cup Revise]
    BY <1>3 DEF CommitRevision, KeyRingTypeOK
  <2> QED BY <1>3, <2>2, <2>3, <2>7, <2>8 DEF CommitRevision, KeyRingTypeOK,
          operatorVars, scriptVars
<1> QED BY <1>1, <1>2, <1>3

LEMMA ReencryptedFacts ==
  ASSUME KeyRingTypeOK
  PROVE  /\ Reencrypted \in [Credential -> Seq(Key)]
         /\ \A c \in Credential :
              /\ Len(Reencrypted[c]) = Len(revisions[c])
              /\ DOMAIN Reencrypted[c] = DOMAIN revisions[c]
              /\ \A n \in DOMAIN revisions[c] : Reencrypted[c][n] =
                   IF n <= seen[c] THEN "new" ELSE revisions[c][n]
<1>1. ASSUME NEW c \in Credential
      PROVE  /\ Reencrypted[c] \in Seq(Key)
             /\ Len(Reencrypted[c]) = Len(revisions[c])
             /\ DOMAIN Reencrypted[c] = DOMAIN revisions[c]
             /\ \A n \in DOMAIN revisions[c] : Reencrypted[c][n] =
                  IF n <= seen[c] THEN "new" ELSE revisions[c][n]
  <2>1. PICK s \in Seq(Key) : s = revisions[c]
    BY DEF KeyRingTypeOK
  <2>2. Len(s) \in Nat /\ DOMAIN s = 1 .. Len(s) /\ \A n \in 1 .. Len(s) : s[n] \in Key
    OBVIOUS
  <2>3. Reencrypted[c] = [n \in 1 .. Len(s) |-> IF n <= seen[c] THEN "new" ELSE s[n]]
    BY <2>1, <2>2 DEF Reencrypted
  <2>4. \A n \in 1 .. Len(s) : (IF n <= seen[c] THEN "new" ELSE s[n]) \in Key
    BY <2>2 DEF Key
  <2> DEFINE new == [n \in 1 .. Len(s) |-> IF n <= seen[c] THEN "new" ELSE s[n]]
  <2>5. new \in Seq(Key) /\ Len(new) = Len(s) /\ DOMAIN new = 1 .. Len(s)
    BY <2>2, <2>4
  <2> QED BY <2>1, <2>2, <2>3, <2>5
<1> QED BY <1>1 DEF Reencrypted

LEMMA OtherTypes ==
  ASSUME KeyRingTypeOK,
         \/ \E c \in Credential : DeleteCredential(c)
         \/ SelectRevisions \/ Reencrypt \/ ReencryptFails
         \/ AddKey \/ ActivateNewKey \/ RemoveKey \/ \E p \in Process : Restart(p)
  PROVE  KeyRingTypeOK'
<1>1. CASE \E c \in Credential : DeleteCredential(c)
  <2>1. PICK c \in Credential : DeleteCredential(c)
    BY <1>1
  <2>2. revisions' \in [Credential -> Seq(Key)]
    <3>1. <<>> \in Seq(Key)
      OBVIOUS
    <3> QED BY <2>1, <3>1 DEF DeleteCredential, KeyRingTypeOK
  <2>3. /\ state' \in [Credential -> {"none", "present", "deleted"}]
        /\ current' \in [Credential -> Nat]
    BY <2>1 DEF DeleteCredential, KeyRingTypeOK
  <2> QED BY <2>1, <2>2, <2>3 DEF DeleteCredential, KeyRingTypeOK, operatorVars, scriptVars
<1>2. CASE SelectRevisions
  <2>1. \A c \in Credential : Len(revisions[c]) \in Nat
    <3> SUFFICES ASSUME NEW c \in Credential PROVE Len(revisions[c]) \in Nat
      OBVIOUS
    <3>1. revisions[c] \in Seq(Key)
      BY DEF KeyRingTypeOK
    <3> QED BY <3>1
  <2>2. seen' \in [Credential -> Nat]
    BY <1>2, <2>1 DEF SelectRevisions
  <2> QED BY <1>2, <2>2 DEF SelectRevisions, KeyRingTypeOK, operatorVars, credentialVars
<1>3. CASE Reencrypt
  <2>1. revisions' \in [Credential -> Seq(Key)]
    BY <1>3, ReencryptedFacts DEF Reencrypt
  <2> QED BY <1>3, <2>1 DEF Reencrypt, KeyRingTypeOK
<1>4. CASE ReencryptFails
  BY <1>4 DEF ReencryptFails, KeyRingTypeOK, operatorVars, credentialVars
<1>5. CASE AddKey
  <2>1. PICK k \in Key : environment' = [keys |-> Key, active |-> k]
    BY <1>5 DEF AddKey
  <2>2. environment' \in Ring
    BY <2>1 DEF Ring
  <2> QED BY <1>5, <2>2 DEF AddKey, KeyRingTypeOK, credentialVars, scriptVars
<1>6. CASE ActivateNewKey
  <2>1. environment' \in Ring
    BY <1>6 DEF ActivateNewKey, KeyRingTypeOK, Ring, Key
  <2> QED BY <1>6, <2>1 DEF ActivateNewKey, KeyRingTypeOK, credentialVars, scriptVars
<1>7. CASE RemoveKey
  <2>1. environment' \in Ring
    BY <1>7 DEF RemoveKey, KeyRingTypeOK, Ring, Key
  <2> QED BY <1>7, <2>1 DEF RemoveKey, KeyRingTypeOK, credentialVars, scriptVars
<1>8. CASE \E p \in Process : Restart(p)
  <2>1. PICK p \in Process : Restart(p)
    BY <1>8
  <2>2. /\ ring' \in [Process -> Ring]
        /\ \A q \in Process : ring'[q].active \in ring'[q].keys
    BY <2>1 DEF Restart, KeyRingTypeOK
  <2>3. request' \in [Request -> {Idle} \cup Revise]
    BY <2>1 DEF Restart, KeyRingTypeOK
  <2> QED BY <2>1, <2>2, <2>3 DEF Restart, KeyRingTypeOK, credentialVars
<1> QED BY <1>1, <1>2, <1>3, <1>4, <1>5, <1>6, <1>7, <1>8

LEMMA TypesInductive == KeyRingTypeOK /\ [KeyRingNext]_keyRingVars => KeyRingTypeOK'
<1> SUFFICES ASSUME KeyRingTypeOK, [KeyRingNext]_keyRingVars PROVE KeyRingTypeOK'
  OBVIOUS
<1>1. CASE KeyRingNext
  BY <1>1, RequestTypes, OtherTypes DEF KeyRingNext
<1>2. CASE UNCHANGED keyRingVars
  BY <1>2 DEF keyRingVars, operatorVars, credentialVars, scriptVars, KeyRingTypeOK
<1> QED BY <1>1, <1>2

(* Every variable keeps its type, and every process a ring with its active  *)
(* key.                                                                    *)
THEOREM KeyRingTypes == KeyRingSpec => []KeyRingTypeOK
  BY InitTypes, TypesInductive, PTL DEF KeyRingSpec

-----------------------------------------------------------------------------
(* What a step does to the request r, all others staying as they are.       *)
LEMMA Lengths ==
  ASSUME KeyRingTypeOK
  PROVE  \A c \in Credential : Len(revisions[c]) \in Nat /\ revisions[c] \in Seq(Key)
                               /\ DOMAIN revisions[c] = 1 .. Len(revisions[c])
<1> SUFFICES ASSUME NEW c \in Credential
             PROVE  Len(revisions[c]) \in Nat /\ revisions[c] \in Seq(Key)
                    /\ DOMAIN revisions[c] = 1 .. Len(revisions[c])
  OBVIOUS
<1>1. revisions[c] \in Seq(Key)
  BY DEF KeyRingTypeOK
<1> QED BY <1>1

LEMMA BeginForms ==
  ASSUME KeyRingTypeOK, NEW r \in Request, NEW c \in Credential, BeginRevision(r, c)
  PROVE  /\ request'[r] = [phase |-> "read", of |-> c, revision |-> current[c] + 1,
                           key |-> ring["api"].active]
         /\ \A q \in Request : q # r => request'[q] = request[q]
         /\ UNCHANGED <<operatorVars, credentialVars, scriptVars>>
  BY DEF BeginRevision, KeyRingTypeOK

LEMMA FlushForms ==
  ASSUME KeyRingTypeOK, NEW r \in Request, FlushRevision(r)
  PROVE  /\ \/ request'[r] = Idle
            \/ /\ request'[r] = [request[r] EXCEPT !.phase = "flushed"]
               /\ state[request[r].of] # "deleted"
               /\ request[r].revision > Len(revisions[request[r].of])
         /\ request[r] \in Revise /\ Reads(r) /\ ~Locked(request[r].of)
         /\ \A q \in Request : q # r => request'[q] = request[q]
         /\ UNCHANGED <<operatorVars, credentialVars, scriptVars>>
<1>1. request[r] \in Revise /\ Reads(r)
  BY Pending DEF FlushRevision, Reads
<1> QED BY <1>1 DEF FlushRevision, KeyRingTypeOK

LEMMA CommitForms ==
  ASSUME KeyRingTypeOK, NEW r \in Request, CommitRevision(r),
         NEW c \in Credential, c = request[r].of
  PROVE  /\ Flushed(r) /\ request'[r] = Idle
         /\ \A q \in Request : q # r => request'[q] = request[q]
         /\ state'[c] = "present" /\ current'[c] = request[r].revision
         /\ revisions'[c] = Append(revisions[c], request[r].key)
         /\ Len(revisions'[c]) = Len(revisions[c]) + 1
         /\ \A d \in Credential : d # c =>
              /\ state'[d] = state[d] /\ current'[d] = current[d]
              /\ revisions'[d] = revisions[d]
         /\ UNCHANGED <<operatorVars, scriptVars>>
<1>1. request[r].key \in Key
  BY Pending DEF CommitRevision
<1>2. revisions[c] \in Seq(Key)
  BY DEF KeyRingTypeOK
<1>3. revisions'[c] = Append(revisions[c], request[r].key)
  BY DEF CommitRevision, KeyRingTypeOK
<1>4. Len(revisions'[c]) = Len(revisions[c]) + 1
  BY <1>1, <1>2, <1>3
<1>5. Flushed(r) /\ request'[r] = Idle /\ \A q \in Request : q # r => request'[q] = request[q]
  BY DEF CommitRevision, KeyRingTypeOK, Flushed
<1>6. /\ state'[c] = "present" /\ current'[c] = request[r].revision
      /\ \A d \in Credential : d # c =>
           /\ state'[d] = state[d] /\ current'[d] = current[d]
           /\ revisions'[d] = revisions[d]
      /\ UNCHANGED <<operatorVars, scriptVars>>
  BY DEF CommitRevision, KeyRingTypeOK
<1> QED BY <1>3, <1>4, <1>5, <1>6

LEMMA BeginKeepsCount ==
  ASSUME KeyRingTypeOK, CountInv, NEW r \in Request, NEW c \in Credential,
         BeginRevision(r, c)
  PROVE  CountInv'
<1>1. /\ \A q \in Request : q # r => request'[q] = request[q]
      /\ state' = state /\ current' = current /\ revisions' = revisions
  <2>1. UNCHANGED credentialVars /\ \A q \in Request : q # r => request'[q] = request[q]
    BY BeginForms
  <2> QED BY <2>1 DEF credentialVars
<1>2. /\ request'[r].phase = "read" /\ request'[r].of = c
      /\ request'[r].revision = current[c] + 1
  <2>1. request'[r] = [phase |-> "read", of |-> c, revision |-> current[c] + 1,
                       key |-> ring["api"].active]
    BY BeginForms
  <2> QED BY <2>1
<1>3. current[c] = Len(revisions[c]) /\ Len(revisions[c]) \in Nat
  BY Lengths DEF CountInv, RevisionsInOrder
<1>4. RevisionsInOrder'
  BY <1>1 DEF CountInv, RevisionsInOrder
<1>5. (\A q \in Request : Reads(q) /\ state[request[q].of] # "deleted" =>
         request[q].revision <= Len(revisions[request[q].of]) + 1)'
  BY <1>1, <1>2, <1>3 DEF CountInv, Reads
<1>6. \A q \in Request : Flushed(q)' => q # r /\ Flushed(q) /\ request'[q] = request[q]
  BY <1>1, <1>2 DEF Flushed
<1>7. (\A q \in Request : Flushed(q) =>
         /\ state[request[q].of] # "deleted"
         /\ request[q].revision = Len(revisions[request[q].of]) + 1)'
  BY <1>1, <1>6 DEF CountInv
<1>8. (\A p, q \in Request :
         Flushed(p) /\ Flushed(q) /\ request[p].of = request[q].of => p = q)'
  BY <1>6 DEF CountInv
<1> QED BY <1>4, <1>5, <1>7, <1>8 DEF CountInv

LEMMA FlushKeepsCount ==
  ASSUME KeyRingTypeOK, CountInv, NEW r \in Request, FlushRevision(r)
  PROVE  CountInv'
<1> DEFINE c == request[r].of
<1>1. /\ c \in Credential /\ request[r].revision \in Nat /\ Reads(r)
      /\ \A q \in Request : q # r => request'[q] = request[q]
      /\ state' = state /\ current' = current /\ revisions' = revisions
      /\ Len(revisions[c]) \in Nat
  BY FlushForms, Lengths DEF credentialVars, Revise
<1>2. CASE request'[r] = Idle
  <2>1. request'[r].phase = "idle"
    BY <1>2 DEF Idle
  <2> QED BY <1>1, <2>1 DEF CountInv, RevisionsInOrder, Reads, Flushed
<1>3. CASE request'[r] # Idle
  <2>1. /\ request'[r].phase = "flushed" /\ request'[r].of = c
        /\ request'[r].revision = request[r].revision
        /\ state[c] # "deleted" /\ request[r].revision > Len(revisions[c])
    BY <1>3, FlushForms DEF Revise
  <2>2. request[r].revision = Len(revisions[c]) + 1
    BY <1>1, <2>1 DEF CountInv
  <2>3. \A q \in Request : Flushed(q) => request[q].of # c
    BY FlushForms DEF Locked, Flushed
  <2> HIDE DEF c
  <2> QED BY <1>1, <2>1, <2>2, <2>3 DEF CountInv, RevisionsInOrder, Reads, Flushed
<1> QED BY <1>2, <1>3

LEMMA CommitKeepsCount ==
  ASSUME KeyRingTypeOK, CountInv, NEW r \in Request, CommitRevision(r)
  PROVE  CountInv'
<1>1. PICK c \in Credential : c = request[r].of
  BY Pending DEF CommitRevision
<1>2. /\ Flushed(r) /\ request'[r] = Idle
      /\ \A q \in Request : q # r => request'[q] = request[q]
      /\ state'[c] = "present" /\ current'[c] = request[r].revision
      /\ Len(revisions'[c]) = Len(revisions[c]) + 1
      /\ \A d \in Credential : d # c =>
           /\ state'[d] = state[d] /\ current'[d] = current[d]
           /\ revisions'[d] = revisions[d]
  BY <1>1, CommitForms
<1>3. request[r].revision = Len(revisions[c]) + 1 /\ state[c] # "deleted"
  BY <1>1, <1>2 DEF CountInv
<1>4. Len(revisions[c]) \in Nat
  BY Lengths
<1>5. RevisionsInOrder'
  BY <1>2, <1>3, <1>4 DEF CountInv, RevisionsInOrder
<1>6. request'[r].phase = "idle"
  BY <1>2 DEF Idle
<1>7. ASSUME NEW q \in Request, Reads(q)', state'[request'[q].of] # "deleted"
      PROVE  request'[q].revision <= Len(revisions'[request'[q].of]) + 1
  <2>1. q # r /\ request'[q] = request[q] /\ Reads(q)
    BY <1>2, <1>6, <1>7 DEF Reads
  <2>2. request[q].of \in Credential /\ request[q].revision \in Nat
    BY <2>1, Pending DEF Reads
  <2>3. CASE request[q].of = c
    <3>1. request[q].revision <= Len(revisions[c]) + 1
      BY <1>3, <2>1, <2>3 DEF CountInv
    <3> QED BY <1>2, <1>4, <2>1, <2>2, <2>3, <3>1
  <2>4. CASE request[q].of # c
    BY <1>2, <1>7, <2>1, <2>2, <2>4 DEF CountInv
  <2> QED BY <2>3, <2>4
<1>8. ASSUME NEW q \in Request, Flushed(q)'
      PROVE  /\ state'[request'[q].of] # "deleted"
             /\ request'[q].revision = Len(revisions'[request'[q].of]) + 1
  <2>1. q # r /\ request'[q] = request[q] /\ Flushed(q)
    BY <1>2, <1>6, <1>8 DEF Flushed
  <2>2. request[q].of \in Credential /\ request[q].of # c
    BY <1>1, <1>2, <2>1, Pending DEF CountInv, Flushed
  <2> QED BY <1>2, <2>1, <2>2 DEF CountInv
<1>9. (\A p, q \in Request :
         Flushed(p) /\ Flushed(q) /\ request[p].of = request[q].of => p = q)'
  BY <1>2, <1>6 DEF CountInv, Flushed
<1> QED BY <1>5, <1>7, <1>8, <1>9 DEF CountInv

LEMMA OthersKeepCount ==
  ASSUME KeyRingTypeOK, CountInv,
         \/ \E c \in Credential : DeleteCredential(c)
         \/ SelectRevisions \/ Reencrypt \/ ReencryptFails
         \/ AddKey \/ ActivateNewKey \/ RemoveKey \/ \E p \in Process : Restart(p)
  PROVE  CountInv'
<1>1. CASE \E c \in Credential : DeleteCredential(c)
  <2>1. PICK c \in Credential : DeleteCredential(c)
    BY <1>1
  <2>2. /\ state'[c] = "deleted" /\ current'[c] = 0 /\ Len(revisions'[c]) = 0
        /\ \A d \in Credential : d # c =>
             /\ state'[d] = state[d] /\ current'[d] = current[d]
             /\ revisions'[d] = revisions[d]
        /\ request' = request
    BY <2>1 DEF DeleteCredential, KeyRingTypeOK
  <2>3. \A q \in Request : Flushed(q) => request[q].of # c
    BY <2>1 DEF DeleteCredential, Locked, Flushed
  <2>4. \A q \in Request : Flushed(q) \/ Reads(q) => request[q].of \in Credential
    BY Pending DEF Flushed, Reads
  <2>5. RevisionsInOrder'
    BY <2>2 DEF CountInv, RevisionsInOrder
  <2>6. (\A r \in Request : Reads(r) /\ state[request[r].of] # "deleted" =>
           request[r].revision <= Len(revisions[request[r].of]) + 1)'
    BY <2>2, <2>4 DEF CountInv, Reads
  <2>7. (\A r \in Request : Flushed(r) =>
           /\ state[request[r].of] # "deleted"
           /\ request[r].revision = Len(revisions[request[r].of]) + 1)'
    BY <2>2, <2>3, <2>4 DEF CountInv, Flushed
  <2>8. (\A r, q \in Request :
           Flushed(r) /\ Flushed(q) /\ request[r].of = request[q].of => r = q)'
    BY <2>2 DEF CountInv, Flushed
  <2> QED BY <2>5, <2>6, <2>7, <2>8 DEF CountInv
<1>2. CASE Reencrypt
  <2>1. /\ \A c \in Credential : Len(revisions'[c]) = Len(revisions[c])
        /\ state' = state /\ current' = current /\ request' = request
    BY <1>2, ReencryptedFacts DEF Reencrypt
  <2>2. \A q \in Request : Flushed(q) \/ Reads(q) => request[q].of \in Credential
    BY Pending DEF Flushed, Reads
  <2> QED BY <2>1, <2>2 DEF CountInv, RevisionsInOrder, Flushed, Reads
<1>3. CASE \E p \in Process : Restart(p)
  <2>1. /\ state' = state /\ current' = current /\ revisions' = revisions
        /\ request' = request \/ request' = [r \in Request |-> Idle]
    BY <1>3 DEF Restart, credentialVars
  <2>2. CASE request' = request
    BY <2>1, <2>2 DEF CountInv, RevisionsInOrder, Flushed, Reads
  <2>3. CASE request' = [r \in Request |-> Idle]
    <3>1. \A r \in Request : request'[r].phase = "idle"
      BY <2>3 DEF Idle
    <3> QED BY <2>1, <3>1 DEF CountInv, RevisionsInOrder, Flushed, Reads
  <2> QED BY <2>1, <2>2, <2>3
<1>4. CASE SelectRevisions \/ ReencryptFails \/ AddKey \/ ActivateNewKey \/ RemoveKey
  <2>1. /\ state' = state /\ current' = current /\ revisions' = revisions
        /\ request' = request
    BY <1>4 DEF SelectRevisions, ReencryptFails, AddKey, ActivateNewKey, RemoveKey,
       credentialVars
  <2> QED BY <2>1 DEF CountInv, RevisionsInOrder, Flushed, Reads
<1> QED BY <1>1, <1>2, <1>3, <1>4

LEMMA CountInductive ==
  KeyRingTypeOK /\ CountInv /\ [KeyRingNext]_keyRingVars => CountInv'
<1> SUFFICES ASSUME KeyRingTypeOK, CountInv, [KeyRingNext]_keyRingVars PROVE CountInv'
  OBVIOUS
<1>1. CASE KeyRingNext
  BY <1>1, BeginKeepsCount, FlushKeepsCount, CommitKeepsCount, OthersKeepCount
     DEF KeyRingNext
<1>2. CASE UNCHANGED keyRingVars
  BY <1>2 DEF keyRingVars, credentialVars, CountInv, RevisionsInOrder, Flushed, Reads
<1> QED BY <1>1, <1>2

LEMMA CountStarts == KeyRingInit => CountInv
<1> SUFFICES ASSUME KeyRingInit PROVE CountInv
  OBVIOUS
<1>1. \A c \in Credential :
        state[c] = "none" /\ current[c] = 0 /\ Len(revisions[c]) = 0
  BY DEF KeyRingInit
<1>2. \A r \in Request : request[r].phase = "idle"
  BY DEF KeyRingInit, Idle
<1> QED BY <1>1, <1>2 DEF CountInv, RevisionsInOrder, Flushed, Reads

(* The revisions of a credential are numbered without a gap up to the       *)
(* current one, for any number of overlapping rotations.                   *)
THEOREM RevisionsStayInOrder == KeyRingSpec => []RevisionsInOrder
<1>1. CountInv => RevisionsInOrder
  BY DEF CountInv
<1> QED BY <1>1, InitTypes, TypesInductive, CountStarts, CountInductive, PTL
        DEF KeyRingSpec

-----------------------------------------------------------------------------
LEMMA StageInductive ==
  KeyRingTypeOK /\ StageInv /\ [KeyRingNext]_keyRingVars => StageInv'
<1> SUFFICES ASSUME KeyRingTypeOK, StageInv, [KeyRingNext]_keyRingVars PROVE StageInv'
  OBVIOUS
<1>1. CASE UNCHANGED operatorVars
  BY <1>1 DEF operatorVars, StageInv
<1>2. CASE Reencrypt
  BY <1>2 DEF Reencrypt, StageInv
<1>3. CASE AddKey
  <2>1. environment'.keys = Key /\ stage' = "two keys" /\ ring' = ring
    <3>1. PICK k \in Key : environment' = [keys |-> Key, active |-> k]
      BY <1>3 DEF AddKey
    <3> QED BY <1>3, <3>1 DEF AddKey
  <2> QED BY <1>3, <2>1 DEF AddKey, StageInv
<1>4. CASE ActivateNewKey
  <2>1. environment'.keys = environment.keys /\ UNCHANGED <<ring, stage, restarted>>
    BY <1>4 DEF ActivateNewKey, KeyRingTypeOK, Ring
  <2> QED BY <2>1 DEF StageInv
<1>5. CASE RemoveKey
  <2>1. environment'.keys = {"new"} /\ stage' = "removed" /\ ring' = ring
    BY <1>5 DEF RemoveKey, KeyRingTypeOK, Ring
  <2>2. \A p \in Process : ring[p].keys = Key
    BY <1>5 DEF RemoveKey, StageInv
  <2> QED BY <2>1, <2>2 DEF StageInv
<1>6. CASE \E p \in Process : Restart(p)
  <2>1. PICK p \in Process : Restart(p)
    BY <1>6
  <2>2. /\ ring'[p] = environment /\ \A q \in Process : q # p => ring'[q] = ring[q]
        /\ restarted' = restarted \cup {p} /\ environment' = environment /\ stage' = stage
    BY <2>1 DEF Restart, KeyRingTypeOK
  <2>3. restarted \subseteq Process
    BY DEF KeyRingTypeOK
  <2> QED BY <2>2, <2>3 DEF StageInv
<1>7. CASE UNCHANGED keyRingVars
  BY <1>1, <1>7 DEF keyRingVars
<1>8. CASE \/ \E r \in Request, c \in Credential : BeginRevision(r, c)
           \/ \E r \in Request : FlushRevision(r) \/ CommitRevision(r)
           \/ \E c \in Credential : DeleteCredential(c)
           \/ SelectRevisions \/ ReencryptFails
  <2>1. UNCHANGED operatorVars
    BY <1>8 DEF BeginRevision, FlushRevision, CommitRevision, DeleteCredential,
       SelectRevisions, ReencryptFails
  <2> QED BY <1>1, <2>1
<1> QED BY <1>2, <1>3, <1>4, <1>5, <1>6, <1>7, <1>8 DEF KeyRingNext

-----------------------------------------------------------------------------
LEMMA OldInductive ==
  KeyRingTypeOK /\ StageInv /\ OldInv /\ [KeyRingNext]_keyRingVars => OldInv'
<1> SUFFICES ASSUME KeyRingTypeOK, StageInv, OldInv, [KeyRingNext]_keyRingVars,
                    "new" \notin ring'["api"].keys
             PROVE  /\ \A c \in Credential : \A n \in DOMAIN revisions'[c] :
                         revisions'[c][n] = "old"
                    /\ \A r \in Request : (Reads(r) \/ Flushed(r))' => request'[r].key = "old"
                    /\ script' = "idle"
  BY DEF OldInv
<1>1. "new" \notin ring["api"].keys
  <2>1. CASE \E p \in Process : Restart(p)
    <3>1. PICK p \in Process : Restart(p)
      BY <2>1
    <3>2. CASE p = "api"
      <4>1. ring'["api"] = environment
        BY <3>1, <3>2 DEF Restart, KeyRingTypeOK, Process
      <4>2. stage = "one key"
        BY <4>1 DEF StageInv, KeyRingTypeOK, Key
      <4>3. "api" \in Process
        BY DEF Process
      <4>4. ring["api"].keys = {"old"}
        BY <4>2, <4>3 DEF StageInv
      <4> QED BY <4>4
    <3>3. CASE p # "api"
      <4>1. ring'["api"] = ring["api"]
        BY <3>1, <3>3 DEF Restart, KeyRingTypeOK, Process
      <4> QED BY <4>1
    <3> QED BY <3>2, <3>3
  <2>2. CASE UNCHANGED ring
    BY <2>2
  <2> QED BY <2>1, <2>2 DEF KeyRingNext, BeginRevision, FlushRevision, CommitRevision,
      DeleteCredential, SelectRevisions, Reencrypt, ReencryptFails, AddKey,
      ActivateNewKey, RemoveKey, keyRingVars, operatorVars
<1>2. /\ \A c \in Credential : \A n \in DOMAIN revisions[c] : revisions[c][n] = "old"
      /\ \A r \in Request : Reads(r) \/ Flushed(r) => request[r].key = "old"
      /\ script = "idle"
  BY <1>1 DEF OldInv
<1>3. ASSUME NEW r \in Request, NEW c \in Credential, BeginRevision(r, c)
      PROVE  /\ \A q \in Request : (Reads(q) \/ Flushed(q))' => request'[q].key = "old"
             /\ UNCHANGED <<revisions, script>>
  <2>1. ring["api"].active = "old"
    BY <1>1 DEF KeyRingTypeOK, Ring, Key, Process
  <2>2. request'[r].key = "old" /\ \A q \in Request : q # r => request'[q] = request[q]
    BY <1>3, <2>1 DEF BeginRevision, KeyRingTypeOK
  <2> QED BY <1>2, <1>3, <2>2 DEF BeginRevision, credentialVars, scriptVars, Reads, Flushed
<1>4. ASSUME NEW r \in Request, FlushRevision(r)
      PROVE  /\ \A q \in Request : (Reads(q) \/ Flushed(q))' => request'[q].key = "old"
             /\ UNCHANGED <<revisions, script>>
  <2>1. /\ \A q \in Request : q # r => request'[q] = request[q]
        /\ UNCHANGED <<operatorVars, credentialVars, scriptVars>>
        /\ Reads(r) /\ request[r] \in Revise
        /\ request'[r] = Idle \/ request'[r] = [request[r] EXCEPT !.phase = "flushed"]
    BY <1>4, FlushForms
  <2>2. (Reads(r) \/ Flushed(r))' => request'[r].key = request[r].key
    BY <2>1 DEF Reads, Flushed, Idle, Revise
  <2> QED BY <1>2, <2>1, <2>2 DEF credentialVars, scriptVars, Reads, Flushed
<1>5. ASSUME NEW r \in Request, CommitRevision(r)
      PROVE  /\ \A c \in Credential : \A n \in DOMAIN revisions'[c] : revisions'[c][n] = "old"
             /\ \A q \in Request : (Reads(q) \/ Flushed(q))' => request'[q].key = "old"
             /\ UNCHANGED script
  <2>1. PICK c \in Credential : c = request[r].of
    BY <1>5, Pending DEF CommitRevision
  <2>2. /\ Flushed(r) /\ request'[r] = Idle
        /\ \A q \in Request : q # r => request'[q] = request[q]
        /\ revisions'[c] = Append(revisions[c], request[r].key)
        /\ \A d \in Credential : d # c => revisions'[d] = revisions[d]
        /\ UNCHANGED scriptVars
    BY <1>5, <2>1, CommitForms
  <2>3. request[r].key = "old" /\ revisions[c] \in Seq(Key)
    BY <1>2, <2>2, Lengths
  <2>4. \A n \in DOMAIN revisions'[c] : revisions'[c][n] = "old"
    <3>1. PICK old \in Seq(Key) : old = revisions[c]
      BY <2>3
    <3>2. \A n \in DOMAIN Append(old, "old") : n \in DOMAIN old \/ n = Len(old) + 1
      BY <3>1
    <3>3. ASSUME NEW n \in DOMAIN Append(old, "old") PROVE Append(old, "old")[n] = "old"
      <4>1. CASE n \in DOMAIN old
        <5>1. old[n] = "old"
          BY <1>2, <3>1, <4>1
        <5> QED BY <4>1, <5>1
      <4>2. CASE n = Len(old) + 1
        BY <4>2
      <4> QED BY <3>2, <4>1, <4>2
    <3> QED BY <2>2, <2>3, <3>1, <3>3
  <2>5. ~(Reads(r) \/ Flushed(r))'
    BY <2>2 DEF Reads, Flushed, Idle
  <2> QED BY <1>2, <2>2, <2>4, <2>5 DEF scriptVars, Reads, Flushed
<1>6. ASSUME NEW c \in Credential, DeleteCredential(c)
      PROVE  /\ \A d \in Credential : \A n \in DOMAIN revisions'[d] : revisions'[d][n] = "old"
             /\ UNCHANGED <<request, script>>
  <2>1. /\ revisions'[c] = <<>>
        /\ \A d \in Credential : d # c => revisions'[d] = revisions[d]
    BY <1>6 DEF DeleteCredential, KeyRingTypeOK
  <2> QED BY <1>2, <1>6, <2>1 DEF DeleteCredential, scriptVars
<1>7. ASSUME NEW p \in Process, Restart(p)
      PROVE  /\ \A q \in Request : (Reads(q) \/ Flushed(q))' => request'[q].key = "old"
             /\ UNCHANGED revisions /\ script' = "idle"
  <2>1. /\ request' = request \/ request' = [r \in Request |-> Idle]
        /\ script' = script \/ script' = "idle"
        /\ UNCHANGED revisions
    BY <1>7 DEF Restart, credentialVars
  <2> QED BY <1>2, <2>1 DEF Reads, Flushed, Idle
<1>8. ~SelectRevisions /\ ~Reencrypt /\ ~ReencryptFails
  BY <1>1, <1>2 DEF SelectRevisions, Reencrypt, ReencryptFails
<1>9. CASE AddKey \/ ActivateNewKey \/ RemoveKey \/ UNCHANGED keyRingVars
  <2>1. UNCHANGED <<revisions, request, script>>
    BY <1>9 DEF AddKey, ActivateNewKey, RemoveKey, keyRingVars, credentialVars, scriptVars
  <2> QED BY <1>2, <2>1 DEF Reads, Flushed
<1> QED BY <1>2, <1>3, <1>4, <1>5, <1>6, <1>7, <1>8, <1>9 DEF KeyRingNext, Reads, Flushed
-----------------------------------------------------------------------------
LEMMA CoveredInductive ==
  KeyRingTypeOK /\ CountInv /\ StageInv /\ CoveredInv /\ [KeyRingNext]_keyRingVars
    => CoveredInv'
<1> SUFFICES ASSUME KeyRingTypeOK, CountInv, StageInv, CoveredInv, [KeyRingNext]_keyRingVars
             PROVE  CoveredInv'
  OBVIOUS
<1>1. CASE /\ UNCHANGED <<state, revisions, seen, covered>>
           /\ stage' \in {"rotated", "removed"} => stage \in {"rotated", "removed"}
  BY <1>1 DEF CoveredInv
<1>2. CASE \E r \in Request : CommitRevision(r)
  <2>1. PICK r \in Request : CommitRevision(r)
    BY <1>2
  <2>2. PICK c \in Credential : c = request[r].of
    BY <2>1, Pending DEF CommitRevision
  <2>3. /\ Flushed(r) /\ state'[c] = "present"
        /\ revisions'[c] = Append(revisions[c], request[r].key)
        /\ \A d \in Credential : d # c =>
             state'[d] = state[d] /\ revisions'[d] = revisions[d]
        /\ UNCHANGED <<operatorVars, scriptVars>>
    BY <2>1, <2>2, CommitForms
  <2>4. /\ state[c] # "deleted"
        /\ seen[c] <= Len(revisions[c]) /\ covered[c] <= Len(revisions[c])
    BY <2>2, <2>3 DEF CountInv, CoveredInv
  <2>5. PICK old \in Seq(Key) : old = revisions[c]
    BY Lengths
  <2>6. request[r].key \in Key /\ seen[c] \in Nat /\ covered[c] \in Nat
    BY <2>3, Pending DEF Flushed, KeyRingTypeOK
  <2>7. PICK key \in Key : key = request[r].key
    BY <2>6
  <2>8. /\ Len(Append(old, key)) = Len(old) + 1
        /\ \A n \in DOMAIN Append(old, key) :
             n <= Len(old) => n \in DOMAIN old /\ Append(old, key)[n] = old[n]
    OBVIOUS
  <2>9. seen[c] <= Len(revisions'[c]) /\ covered[c] <= Len(revisions'[c])
    BY <2>3, <2>4, <2>5, <2>6, <2>7, <2>8
  <2>10. stage \in {"rotated", "removed"} =>
           \A n \in DOMAIN revisions'[c] : n <= covered[c] => revisions'[c][n] = "new"
    <3> SUFFICES ASSUME stage \in {"rotated", "removed"}, NEW n \in DOMAIN revisions'[c],
                        n <= covered[c]
                 PROVE  revisions'[c][n] = "new"
      OBVIOUS
    <3>1. n \in Nat /\ n <= Len(old)
      BY <2>3, <2>4, <2>5, <2>6, <2>7, <2>8
    <3>2. n \in DOMAIN old /\ revisions'[c][n] = old[n]
      BY <2>3, <2>5, <2>7, <2>8, <3>1
    <3> QED BY <2>5, <3>2 DEF CoveredInv
  <2> QED BY <2>3, <2>4, <2>9, <2>10 DEF CoveredInv, operatorVars, scriptVars
<1>3. CASE \E c \in Credential : DeleteCredential(c)
  <2>1. PICK c \in Credential : DeleteCredential(c)
    BY <1>3
  <2>2. /\ state'[c] = "deleted" /\ DOMAIN revisions'[c] = {}
        /\ \A d \in Credential : d # c =>
             state'[d] = state[d] /\ revisions'[d] = revisions[d]
        /\ UNCHANGED <<stage, seen, covered>>
    <3>1. revisions'[c] = <<>>
      BY <2>1 DEF DeleteCredential, KeyRingTypeOK
    <3>2. DOMAIN <<>> = {}
      OBVIOUS
    <3>3. /\ state'[c] = "deleted"
          /\ \A d \in Credential : d # c =>
               state'[d] = state[d] /\ revisions'[d] = revisions[d]
          /\ UNCHANGED <<stage, seen, covered>>
      BY <2>1 DEF DeleteCredential, KeyRingTypeOK, operatorVars, scriptVars
    <3> QED BY <3>1, <3>2, <3>3
  <2> QED BY <2>2 DEF CoveredInv
<1>4. CASE SelectRevisions
  <2>1. /\ \A c \in Credential : seen'[c] = Len(revisions[c])
        /\ UNCHANGED <<state, revisions, covered, stage>>
    BY <1>4 DEF SelectRevisions, credentialVars, operatorVars
  <2> QED BY <2>1, Lengths DEF CoveredInv
<1>5. CASE Reencrypt
  <2>1. /\ covered' = seen /\ UNCHANGED <<state, seen>> /\ revisions' = Reencrypted
    BY <1>5 DEF Reencrypt
  <2> QED BY <2>1, ReencryptedFacts DEF CoveredInv
<1>6. CASE \/ \E r \in Request, c \in Credential : BeginRevision(r, c)
           \/ \E r \in Request : FlushRevision(r)
           \/ ReencryptFails \/ AddKey \/ ActivateNewKey \/ RemoveKey
           \/ \E p \in Process : Restart(p)
           \/ UNCHANGED keyRingVars
  <2>1. /\ UNCHANGED <<state, revisions, seen, covered>>
        /\ stage' \in {"rotated", "removed"} => stage \in {"rotated", "removed"}
    BY <1>6 DEF BeginRevision, FlushRevision, ReencryptFails, AddKey, ActivateNewKey,
       RemoveKey, Restart, keyRingVars, operatorVars, credentialVars, scriptVars
  <2> QED BY <1>1, <2>1
<1> QED BY <1>2, <1>3, <1>4, <1>5, <1>6 DEF KeyRingNext

LEMMA KeysStart == KeyRingInit => StageInv /\ OldInv /\ CoveredInv
<1> SUFFICES ASSUME KeyRingInit PROVE StageInv /\ OldInv /\ CoveredInv
  OBVIOUS
<1>1. StageInv
  BY DEF KeyRingInit, StageInv
<1>2. \A c \in Credential :
        seen[c] = 0 /\ covered[c] = 0 /\ Len(revisions[c]) = 0 /\ DOMAIN revisions[c] = {}
  <2>1. \A c \in Credential : seen[c] = 0 /\ covered[c] = 0 /\ revisions[c] = <<>>
    BY DEF KeyRingInit
  <2>2. Len(<<>>) = 0 /\ DOMAIN <<>> = {}
    OBVIOUS
  <2> QED BY <2>1, <2>2
<1>3. OldInv
  BY <1>2 DEF KeyRingInit, OldInv, Reads, Flushed, Idle
<1>4. CoveredInv
  <2>1. \A c \in Credential : seen[c] <= Len(revisions[c]) /\ covered[c] <= Len(revisions[c])
    <3>1. 0 <= 0
      OBVIOUS
    <3>2. \A c \in Credential : seen[c] = 0 /\ covered[c] = 0 /\ Len(revisions[c]) = 0
      BY <1>2
    <3> QED BY <3>1, <3>2, Zenon
  <2> QED BY <1>2, <2>1 DEF CoveredInv
<1> QED BY <1>1, <1>3, <1>4

(* Before, during and after the change of the key, both processes can       *)
(* decrypt every revision but those committed behind the script, for any    *)
(* number of credentials, requests and runs of the script.                  *)
THEOREM RevisionsStayReadable == KeyRingSpec => []RevisionsReadable
<1>1. KeyRingTypeOK /\ StageInv /\ OldInv /\ CoveredInv => RevisionsReadable
  <2> SUFFICES ASSUME KeyRingTypeOK, StageInv, OldInv, CoveredInv,
                      NEW c \in Credential, NEW n \in DOMAIN revisions[c], ~Late(c, n)
               PROVE  revisions[c][n] \in ring["api"].keys
    BY DEF RevisionsReadable
  <2>1. revisions[c][n] \in Key
    BY Lengths
  <2>2. CASE "new" \notin ring["api"].keys
    BY <2>2 DEF OldInv, KeyRingTypeOK, Ring, Key, Process
  <2>3. CASE ring["api"].keys = Key
    BY <2>1, <2>3
  <2>4. CASE stage = "removed"
    <3>1. n \in Nat
      BY Lengths
    <3>2. covered[c] \in Nat
      BY DEF KeyRingTypeOK
    <3>3. n <= covered[c]
      BY <2>4, <3>1, <3>2 DEF Late
    <3>4. revisions[c][n] = "new"
      BY <2>4, <3>3 DEF CoveredInv
    <3>5. "new" \in ring["api"].keys
      BY <2>4 DEF StageInv, Process, Key
    <3> QED BY <3>4, <3>5
  <2> QED BY <2>2, <2>3, <2>4 DEF StageInv, KeyRingTypeOK, Process, Key
<1> QED BY <1>1, InitTypes, TypesInductive, CountStarts, CountInductive, KeysStart,
           StageInductive, OldInductive, CoveredInductive, PTL DEF KeyRingSpec
=============================================================================
