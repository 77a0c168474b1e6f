------------------------ MODULE FlowLifecycleProofs ------------------------
(***************************************************************************)
(* Proofs about the life of a flow, for any number of editors.              *)
(***************************************************************************)
EXTENDS FlowLifecycleProperties, SequenceTheorems, TLAPS

Waits(e) == request[e].handler \notin {"none", "refresh"}

(* What remains true of a request from its checks to its commit, because    *)
(* versions are only added and current_version only grows.                 *)
RequestHolds(e) ==
  LET r == request[e] IN
    /\ Waits(e) => r.seen.current_version <= flow.current_version
    /\ r.handler = "update_draft" => r.seen.row_version = editor[e].row_version
    /\ r.handler = "publish_flow" => r.arg = r.seen.draft /\ r.arg \in Sound
    /\ r.handler = "rollback_flow_version" =>
         \E n \in DOMAIN versions : r.arg = versions[n]
    /\ r.handler = "update_flow_status" =>
         (r.arg = "ACTIVE" => r.seen.current_version >= 1)
    /\ r.handler = "delete_credential" =>
         /\ r.arg \notin Uses[r.seen.draft]
         /\ \A n \in 1 .. r.seen.current_version : r.arg \notin Uses[versions[n]]

RequestInv == \A e \in Editor : RequestHolds(e)

VersionsSound == \A n \in DOMAIN versions : versions[n] \in Sound

HistoryInv ==
  /\ CurrentIsLatest
  /\ ActiveIsPublished
  /\ VersionsSound
  /\ RequestInv

(* Without a race the revision only grows, so it names one draft, and a row *)
(* once changed never looks again as a request has seen it.                *)
RevisionInv ==
  /\ \A e \in Editor : editor[e].row_version <= flow.row_version
  /\ \A e \in Editor :
       Waits(e) => request[e].seen.row_version <= flow.row_version
  /\ \A e \in Editor :
       ~blind[e] /\ editor[e].row_version = flow.row_version
         => editor[e].base = flow.draft
  /\ \A n \in DOMAIN versions : Uses[versions[n]] \subseteq credentials
  /\ \A e \in Editor :
       request[e].handler = "publish_flow" /\ request[e].seen = flow
         => Uses[request[e].arg] \subseteq credentials

UnracedInv == ~raced => RevisionInv

LifecycleInv == LifecycleTypeOK /\ HistoryInv /\ UnracedInv

LEMMA UpdatedColumns ==
  ASSUME NEW row \in Row, NEW seen \in Row, NEW new \in Row
  PROVE  LET u == Updated(row, seen, new) IN
         /\ u \in Row
         /\ u.draft = IF new.draft = seen.draft THEN row.draft ELSE new.draft
         /\ u.status = IF new.status = seen.status THEN row.status ELSE new.status
         /\ u.current_version =
              IF new.current_version = seen.current_version
                THEN row.current_version ELSE new.current_version
         /\ u.row_version =
              IF new.row_version = seen.row_version
                THEN row.row_version ELSE new.row_version
BY DEF Updated, Row

LEMMA UpdatedAsRead ==
  ASSUME NEW row \in Row, NEW new \in Row
  PROVE  Updated(row, row, new) = new
BY DEF Updated, Row

(* The rows that handlers write, column by column.  *)
LEMMA NewRows ==
  ASSUME NEW row \in Row, NEW c \in Content, NEW s \in Status
  PROVE  /\ SavedRow(row, c) \in Row /\ PublishedRow(row) \in Row
         /\ RestoredRow(row, c) \in Row /\ StatusRow(row, s) \in Row
         /\ /\ SavedRow(row, c).draft = c
            /\ SavedRow(row, c).status = row.status
            /\ SavedRow(row, c).current_version = row.current_version
            /\ SavedRow(row, c).row_version = row.row_version + 1
         /\ /\ PublishedRow(row).draft = row.draft
            /\ PublishedRow(row).status = "ACTIVE"
            /\ PublishedRow(row).current_version = row.current_version + 1
            /\ PublishedRow(row).row_version = row.row_version
         /\ /\ RestoredRow(row, c).draft = c
            /\ RestoredRow(row, c).status = "ACTIVE"
            /\ RestoredRow(row, c).current_version = row.current_version + 1
            /\ RestoredRow(row, c).row_version = row.row_version + 1
         /\ /\ StatusRow(row, s).draft = row.draft
            /\ StatusRow(row, s).status = s
            /\ StatusRow(row, s).current_version = row.current_version
            /\ StatusRow(row, s).row_version = row.row_version + 1
<1>1. \A r \in Row : /\ [r EXCEPT !.draft = c] \in Row
                    /\ [r EXCEPT !.status = s] \in Row
                    /\ [r EXCEPT !.status = "ACTIVE"] \in Row
  BY DEF Row, Status
<1>2. \A r \in Row : /\ [r EXCEPT !.current_version = @ + 1] \in Row
                    /\ [r EXCEPT !.row_version = @ + 1] \in Row
  BY DEF Row
<1>3. SavedRow(row, c) \in Row
  BY <1>1, <1>2 DEF SavedRow
<1>4. PublishedRow(row) \in Row
  BY <1>1, <1>2 DEF PublishedRow
<1>5. [row EXCEPT !.draft = c, !.status = "ACTIVE"] \in Row
  BY <1>1
<1>6. [row EXCEPT !.draft = c, !.status = "ACTIVE", !.current_version = @ + 1] \in Row
  BY <1>2, <1>5
<1>7. RestoredRow(row, c) \in Row
  BY <1>2, <1>6 DEF RestoredRow
<1>8. StatusRow(row, s) \in Row
  BY <1>1, <1>2 DEF StatusRow
<1> QED
  BY <1>3, <1>4, <1>7, <1>8 DEF SavedRow, PublishedRow, RestoredRow, StatusRow, Row

(* What waits is a request of one handler, with its argument and row. *)
LEMMA WaitingRequest ==
  ASSUME LifecycleTypeOK, NEW e \in Editor
  PROVE  /\ Waits(e) => request[e].seen \in Row
         /\ request[e].handler \in {"update_draft", "publish_flow", "rollback_flow_version"}
              => request[e].arg \in Content
         /\ request[e].handler = "update_flow_status" => request[e].arg \in Status
         /\ request[e].handler = "delete_credential" => request[e].arg \in Alias
         /\ request[e].handler = "refresh" => request[e].shown \in Content
BY DEF LifecycleTypeOK, Request, Pending, Waits, Idle

LEMMA TypeInit ==
  ASSUME LifecycleInit
  PROVE  LifecycleTypeOK
<1>1. PICK c \in Content :
        /\ flow = [draft |-> c, status |-> "DRAFT",
                   current_version |-> 0, row_version |-> 1]
        /\ editor = [e \in Editor |-> [base |-> c, row_version |-> 1]]
  BY DEF LifecycleInit
<1>2. flow \in Row
  BY <1>1 DEF Row, Status
<1>3. editor \in [Editor -> [base : Content, row_version : Nat]]
  BY <1>1
<1>4. request \in [Editor -> Request]
  BY DEF LifecycleInit, Request
<1>5. DOMAIN versions = {} /\ versions \in [DOMAIN versions -> Content]
  BY DEF LifecycleInit
<1> QED
  BY <1>2, <1>3, <1>4, <1>5 DEF LifecycleInit, LifecycleTypeOK

LEMMA TypeStep ==
  ASSUME LifecycleTypeOK, LifecycleNext
  PROVE  LifecycleTypeOK'
<1> USE DEF LifecycleTypeOK
<1>1. ASSUME NEW e \in Editor, EditorAsks(e)
      PROVE  LifecycleTypeOK'
  <2>1. ASSUME NEW handler, NEW arg, Receive(e, handler, arg),
               [handler |-> handler, arg |-> arg, seen |-> flow] \in Request
        PROVE  LifecycleTypeOK'
    BY <2>1 DEF Receive
  <2>2. flow.draft \in Content /\ \A n \in DOMAIN versions : versions[n] \in Content
    BY DEF Row
  <2>3. CASE \E c \in Content : UpdateDraft(e, c)
    BY <2>1, <2>3 DEF UpdateDraft, Request, Pending
  <2>4. CASE PublishFlow(e)
    BY <2>1, <2>2, <2>4 DEF PublishFlow, Request, Pending
  <2>5. CASE \E n \in DOMAIN versions : RollbackFlowVersion(e, n)
    BY <2>1, <2>2, <2>5 DEF RollbackFlowVersion, Request, Pending
  <2>6. CASE \E s \in Status \ {"DRAFT"} : UpdateFlowStatus(e, s)
    BY <2>1, <2>6 DEF UpdateFlowStatus, Request, Pending
  <2>7. CASE \E a \in Alias : DeleteCredential(e, a)
    BY <2>1, <2>7 DEF DeleteCredential, Request, Pending
  <2> QED
    BY <1>1, <2>3, <2>4, <2>5, <2>6, <2>7 DEF EditorAsks
<1>2. ASSUME NEW e \in Editor, HandlerCommits(e)
      PROVE  LifecycleTypeOK'
  <2> DEFINE seen == request[e].seen
  <2>1. Idle \in Request /\ \A c \in Content : [handler |-> "refresh", shown |-> c] \in Request
    BY DEF Request
  <2>2. editor[e].base \in Content
    OBVIOUS
  <2>3. ASSUME NEW c \in Content, AddVersion(e, c), seen \in Row
        PROVE  versions' \in [DOMAIN versions' -> Content] /\ DOMAIN versions' \subseteq Nat \ {0}
    BY <2>3 DEF AddVersion, NextVersion, Row
  <2>4. CASE CommitDraft(e)
    <3>1. seen \in Row /\ request[e].arg \in Content
      BY <2>4, WaitingRequest DEF CommitDraft, Committing, Waits
    <3>2. SavedRow(seen, request[e].arg) \in Row
      BY <3>1, NewRows DEF Status
    <3>3. flow' \in Row
      BY <2>4, <3>1, <3>2, UpdatedColumns DEF CommitDraft, Write
    <3>4. request' \in [Editor -> Request]
      BY <2>1, <2>4, <3>1 DEF CommitDraft, Refresh, Committing
    <3> QED
      BY <2>4, <3>3, <3>4 DEF CommitDraft, Committing
  <2>5. CASE CommitPublish(e)
    <3>1. seen \in Row /\ request[e].arg \in Content
      BY <2>5, WaitingRequest DEF CommitPublish, Committing, Waits
    <3>2. PublishedRow(seen) \in Row
      BY <3>1, NewRows DEF Status
    <3>3. flow' \in Row
      BY <2>5, <3>1, <3>2, UpdatedColumns DEF CommitPublish, Write
    <3> QED
      BY <2>1, <2>3, <2>5, <3>1, <3>3 DEF CommitPublish, Committing, Answer
  <2>6. CASE CommitRollback(e)
    <3>1. seen \in Row /\ request[e].arg \in Content
      BY <2>6, WaitingRequest DEF CommitRollback, Committing, Waits
    <3>2. RestoredRow(seen, request[e].arg) \in Row
      BY <3>1, NewRows DEF Status
    <3>3. flow' \in Row
      BY <2>6, <3>1, <3>2, UpdatedColumns DEF CommitRollback, Write
    <3> QED
      BY <2>1, <2>3, <2>6, <3>1, <3>3 DEF CommitRollback, Committing, Answer
  <2>7. CASE VersionNumberTaken(e)
    BY <2>1, <2>7 DEF VersionNumberTaken, Answer
  <2>8. CASE CommitStatus(e)
    <3>1. seen \in Row /\ request[e].arg \in Status
      BY <2>8, WaitingRequest DEF CommitStatus, Committing, Waits
    <3>2. StatusRow(seen, request[e].arg) \in Row
      BY <3>1, NewRows DEF Status
    <3>3. flow' \in Row
      BY <2>8, <3>1, <3>2, UpdatedColumns DEF CommitStatus, Write
    <3>4. request' \in [Editor -> Request]
      BY <2>1, <2>2, <2>8 DEF CommitStatus, Refresh, Committing
    <3> QED
      BY <2>8, <3>3, <3>4 DEF CommitStatus, Committing
  <2>9. CASE CommitDelete(e)
    BY <2>1, <2>9 DEF CommitDelete, Committing
  <2> QED
    BY <1>2, <2>4, <2>5, <2>6, <2>7, <2>8, <2>9 DEF HandlerCommits
<1>3. ASSUME NEW e \in Editor, EditorHears(e)
      PROVE  LifecycleTypeOK'
  <2>1. Idle \in Request
    BY DEF Request
  <2>2. CASE LoadEditor(e)
    BY <2>2 DEF LoadEditor, Row
  <2>3. CASE TakeAnswer(e)
    BY <2>1, <2>3, WaitingRequest DEF TakeAnswer, Answer, Row
  <2>4. CASE LoseAnswer(e)
    BY <2>1, <2>4 DEF LoseAnswer, Answer
  <2> QED
    BY <1>3, <2>2, <2>3, <2>4 DEF EditorHears
<1>4. ASSUME NEW a \in Alias, CreateCredential(a)
      PROVE  LifecycleTypeOK'
  BY <1>4 DEF CreateCredential
<1> QED
  BY <1>1, <1>2, <1>3, <1>4 DEF LifecycleNext

(* Requests keep what they know while the history grows and editors wait.  *)
LEMMA RequestsKept ==
  ASSUME LifecycleTypeOK, LifecycleTypeOK', HistoryInv,
         flow.current_version <= flow'.current_version,
         \A n \in DOMAIN versions :
           n \in DOMAIN versions' /\ versions'[n] = versions[n],
         \A e \in Editor :
           \/ request'[e].handler \in {"none", "refresh"}
           \/ request'[e] = request[e] /\ editor'[e] = editor[e]
  PROVE  RequestInv'
<1> SUFFICES ASSUME NEW e \in Editor
             PROVE  RequestHolds(e)'
  BY DEF RequestInv
<1>1. CASE request'[e].handler \in {"none", "refresh"}
  BY <1>1 DEF RequestHolds, Waits
<1>2. CASE request'[e] = request[e] /\ editor'[e] = editor[e] /\ Waits(e)
  <2>1. request[e].seen \in Row /\ flow \in Row /\ flow' \in Row
    BY <1>2, WaitingRequest DEF LifecycleTypeOK
  <2>2. request[e].seen.current_version <= flow.current_version
    BY <1>2 DEF HistoryInv, RequestInv, RequestHolds
  <2>3. request[e].seen.current_version <= flow'.current_version
    BY <2>1, <2>2 DEF Row
  <2>4. \A n \in 1 .. request[e].seen.current_version : n \in DOMAIN versions
    BY <2>1, <2>2 DEF HistoryInv, CurrentIsLatest, Row
  <2> QED
    BY <1>2, <2>3, <2>4 DEF HistoryInv, RequestInv, RequestHolds, Waits
<1> QED
  BY <1>1, <1>2 DEF Waits

(* A new version takes the next number, and the request that adds it had    *)
(* seen the newest one.                                                    *)
LEMMA NextNumber ==
  ASSUME LifecycleTypeOK, HistoryInv, NEW e \in Editor, Waits(e),
         NEW c \in Content, AddVersion(e, c)
  PROVE  /\ request[e].seen.current_version = flow.current_version
         /\ NextVersion(e) = flow.current_version + 1
         /\ DOMAIN versions' = 1 .. flow.current_version + 1
         /\ versions'[flow.current_version + 1] = c
         /\ \A n \in DOMAIN versions :
              n \in DOMAIN versions' /\ versions'[n] = versions[n]
<1>1. request[e].seen \in Row /\ flow \in Row
  BY WaitingRequest DEF LifecycleTypeOK
<1>2. request[e].seen.current_version <= flow.current_version
  BY DEF HistoryInv, RequestInv, RequestHolds
<1>3. DOMAIN versions = 1 .. flow.current_version
  BY DEF HistoryInv, CurrentIsLatest
<1>4. request[e].seen.current_version = flow.current_version
  BY <1>1, <1>2, <1>3 DEF AddVersion, NextVersion, Row
<1>5. NextVersion(e) = flow.current_version + 1
  BY <1>4 DEF NextVersion
<1> QED
  BY <1>1, <1>3, <1>4, <1>5 DEF AddVersion, Row

(* The columns of the row after each kind of commit. *)
LEMMA WrittenColumns ==
  ASSUME LifecycleTypeOK, NEW e \in Editor, Waits(e),
         NEW new \in Row, Write(e, new)
  PROVE  /\ flow'.draft = IF new.draft = request[e].seen.draft
                            THEN flow.draft ELSE new.draft
         /\ flow'.status = IF new.status = request[e].seen.status
                             THEN flow.status ELSE new.status
         /\ flow'.current_version =
              IF new.current_version = request[e].seen.current_version
                THEN flow.current_version ELSE new.current_version
         /\ flow'.row_version =
              IF new.row_version = request[e].seen.row_version
                THEN flow.row_version ELSE new.row_version
         /\ flow = request[e].seen => flow' = new
<1>1. request[e].seen \in Row /\ flow \in Row
  BY WaitingRequest DEF LifecycleTypeOK
<1> DEFINE seen == request[e].seen
<1>2. flow' = Updated(flow, seen, new)
  BY DEF Write
<1> HIDE DEF seen
<1>3. flow = seen => flow' = new
  BY <1>1, <1>2, UpdatedAsRead DEF seen
<1>4. seen \in Row
  BY <1>1 DEF seen
<1>5. /\ flow'.draft = IF new.draft = seen.draft THEN flow.draft ELSE new.draft
      /\ flow'.status = IF new.status = seen.status THEN flow.status ELSE new.status
      /\ flow'.current_version =
           IF new.current_version = seen.current_version
             THEN flow.current_version ELSE new.current_version
      /\ flow'.row_version =
           IF new.row_version = seen.row_version
             THEN flow.row_version ELSE new.row_version
  BY <1>1, <1>2, <1>4, UpdatedColumns
<1> QED
  BY <1>3, <1>5 DEF seen

LEMMA HistoryStart ==
  ASSUME LifecycleInit
  PROVE  HistoryInv
<1>1. flow.status = "DRAFT" /\ flow.current_version = 0 /\ DOMAIN versions = {}
  BY DEF LifecycleInit
<1>2. \A e \in Editor : request[e].handler = "none"
  BY DEF LifecycleInit, Idle
<1> QED
  BY <1>1, <1>2 DEF HistoryInv, CurrentIsLatest, ActiveIsPublished,
       VersionsSound, RequestInv, RequestHolds, Waits

(* Passing the checks gives a request what RequestHolds says of it.  *)
LEMMA HistoryAsked ==
  ASSUME LifecycleTypeOK, LifecycleTypeOK', HistoryInv,
         NEW e \in Editor, EditorAsks(e)
  PROVE  HistoryInv'
<1>1. PICK handler, arg : Receive(e, handler, arg)
  BY DEF EditorAsks, UpdateDraft, PublishFlow, RollbackFlowVersion,
         UpdateFlowStatus, DeleteCredential
<1>2. UNCHANGED <<flow, versions, editor>>
  BY <1>1 DEF Receive
<1>3. CurrentIsLatest' /\ ActiveIsPublished' /\ VersionsSound'
  BY <1>2 DEF HistoryInv, CurrentIsLatest, ActiveIsPublished, VersionsSound
<1>4. ASSUME NEW o \in Editor, o # e
      PROVE  RequestHolds(o)'
  <2>1. request'[o] = request[o]
    BY <1>1, <1>4 DEF Receive, LifecycleTypeOK
  <2> QED
    BY <1>2, <2>1 DEF HistoryInv, RequestInv, RequestHolds, Waits
<1>5. RequestHolds(e)'
  <2>1. /\ request'[e].seen = flow /\ flow.current_version <= flow.current_version
        /\ 1 .. flow.current_version = DOMAIN versions
    BY <1>1 DEF Receive, LifecycleTypeOK, Row, HistoryInv, CurrentIsLatest
  <2>2. CASE \E c \in Content : UpdateDraft(e, c)
    <3>1. request'[e].handler = "update_draft" /\ flow.row_version = editor[e].row_version
      BY <2>2 DEF UpdateDraft, Receive, LifecycleTypeOK
    <3> QED
      BY <1>2, <2>1, <3>1 DEF RequestHolds
  <2>3. CASE PublishFlow(e)
    <3>1. /\ request'[e].handler = "publish_flow"
          /\ request'[e].arg = flow.draft /\ flow.draft \in Sound
      BY <2>3 DEF PublishFlow, Receive, LifecycleTypeOK
    <3> QED
      BY <1>2, <2>1, <3>1 DEF RequestHolds
  <2>4. CASE \E n \in DOMAIN versions : RollbackFlowVersion(e, n)
    <3>1. /\ request'[e].handler = "rollback_flow_version"
          /\ \E n \in DOMAIN versions : request'[e].arg = versions[n]
      BY <2>4 DEF RollbackFlowVersion, Receive, LifecycleTypeOK
    <3> QED
      BY <1>2, <2>1, <3>1 DEF RequestHolds
  <2>5. CASE \E s \in Status \ {"DRAFT"} : UpdateFlowStatus(e, s)
    <3>1. /\ request'[e].handler = "update_flow_status"
          /\ request'[e].arg = "ACTIVE" => flow.current_version >= 1
      BY <2>5 DEF UpdateFlowStatus, Receive, LifecycleTypeOK
    <3> QED
      BY <1>2, <2>1, <3>1 DEF RequestHolds
  <2>6. CASE \E a \in Alias : DeleteCredential(e, a)
    <3>1. /\ request'[e].handler = "delete_credential"
          /\ request'[e].arg \notin Uses[flow.draft]
          /\ \A n \in DOMAIN versions : request'[e].arg \notin Uses[versions[n]]
      BY <2>6 DEF DeleteCredential, CredentialIsReferenced, Receive, LifecycleTypeOK
    <3> QED
      BY <1>2, <2>1, <3>1 DEF RequestHolds
  <2> QED
    BY <2>2, <2>3, <2>4, <2>5, <2>6 DEF EditorAsks
<1> QED
  BY <1>3, <1>4, <1>5 DEF HistoryInv, RequestInv

LEMMA HistoryCommitted ==
  ASSUME LifecycleTypeOK, LifecycleTypeOK', HistoryInv,
         NEW e \in Editor, HandlerCommits(e)
  PROVE  HistoryInv'
<1> DEFINE r == request[e]
<1>1. flow \in Row /\ (Waits(e) => r.seen \in Row) /\ DOMAIN versions = 1 .. flow.current_version
  BY WaitingRequest DEF LifecycleTypeOK, HistoryInv, CurrentIsLatest
<1>2. \A o \in Editor : o # e =>
        \/ request'[o] = request[o]
        \/ request'[o].handler = "none"
  BY DEF HandlerCommits, CommitDraft, CommitPublish, CommitRollback, VersionNumberTaken,
         CommitStatus, CommitDelete, Refresh, Answer, Idle, LifecycleTypeOK
<1>3. request'[e].handler \in {"none", "refresh"} /\ editor' = editor
  <2>1. Refresh(e) => request'[e].handler = "refresh"
    BY DEF Refresh, LifecycleTypeOK
  <2>2. Answer(e) => request'[e].handler = "none"
    BY DEF Answer, Idle, LifecycleTypeOK
  <2>3. CommitDelete(e) => request'[e].handler = "none"
    BY DEF CommitDelete, Committing, Idle
  <2> QED
    BY <2>1, <2>2, <2>3 DEF HandlerCommits, CommitDraft, CommitPublish, CommitRollback,
         VersionNumberTaken, CommitStatus, CommitDelete
<1>a. "DRAFT" \in Status
  BY DEF Status
<1>4. CASE flow'.current_version = flow.current_version /\ versions' = versions
           /\ (flow'.status = "ACTIVE" => flow.current_version >= 1)
  <2>1. RequestInv'
    BY <1>1, <1>2, <1>3, <1>4, RequestsKept DEF Row
  <2> QED
    BY <1>4, <2>1 DEF HistoryInv, CurrentIsLatest, ActiveIsPublished, VersionsSound
<1>5. ASSUME NEW c \in Sound \cap Content, AddVersion(e, c), Waits(e),
             NEW new \in Row, Write(e, new),
             new.current_version = r.seen.current_version + 1
      PROVE  HistoryInv'
  <2>1. /\ r.seen.current_version = flow.current_version
        /\ DOMAIN versions' = 1 .. flow.current_version + 1
        /\ versions'[flow.current_version + 1] = c
        /\ \A n \in DOMAIN versions :
             n \in DOMAIN versions' /\ versions'[n] = versions[n]
    BY <1>5, NextNumber
  <2>2. flow'.current_version = flow.current_version + 1
    BY <1>1, <1>5, <2>1, WrittenColumns DEF Row
  <2>3. RequestInv'
    BY <1>1, <1>2, <1>3, <2>1, <2>2, RequestsKept DEF Row
  <2>4. VersionsSound'
    BY <1>1, <1>5, <2>1 DEF HistoryInv, VersionsSound, Row
  <2> QED
    BY <1>1, <2>1, <2>2, <2>3, <2>4 DEF HistoryInv, CurrentIsLatest, ActiveIsPublished, Row
<1>6. CASE CommitDraft(e)
  <2>1. r.arg \in Content /\ Waits(e)
    BY <1>6, WaitingRequest DEF CommitDraft, Committing, Waits
  <2>2. /\ SavedRow(r.seen, r.arg) \in Row
        /\ SavedRow(r.seen, r.arg).status = r.seen.status
        /\ SavedRow(r.seen, r.arg).current_version = r.seen.current_version
    BY <1>1, <1>a, <2>1, NewRows
  <2>3. flow'.status = flow.status /\ flow'.current_version = flow.current_version
    BY <1>6, <2>1, <2>2, WrittenColumns DEF CommitDraft
  <2> QED
    BY <1>4, <1>6, <2>3 DEF CommitDraft, HistoryInv, ActiveIsPublished
<1>7. CASE CommitPublish(e)
  <2>1. r.arg \in Sound \cap Content /\ Waits(e)
    BY <1>7, WaitingRequest
       DEF CommitPublish, Committing, Waits, HistoryInv, RequestInv, RequestHolds
  <2>2. /\ PublishedRow(r.seen) \in Row
        /\ PublishedRow(r.seen).current_version = r.seen.current_version + 1
    BY <1>1, <2>1, NewRows DEF Status
  <2> QED
    BY <1>5, <1>7, <2>1, <2>2 DEF CommitPublish
<1>8. CASE CommitRollback(e)
  <2>1. r.arg \in Sound \cap Content /\ Waits(e)
    BY <1>8, WaitingRequest
       DEF CommitRollback, Committing, Waits, HistoryInv, RequestInv, RequestHolds, VersionsSound
  <2>2. /\ RestoredRow(r.seen, r.arg) \in Row
        /\ RestoredRow(r.seen, r.arg).current_version = r.seen.current_version + 1
    BY <1>1, <2>1, NewRows DEF Status
  <2> QED
    BY <1>5, <1>8, <2>1, <2>2 DEF CommitRollback
<1>9. CASE VersionNumberTaken(e)
  BY <1>4, <1>9 DEF VersionNumberTaken, HistoryInv, ActiveIsPublished
<1>10. CASE CommitStatus(e)
  <2>1. r.arg \in Status /\ Waits(e)
    BY <1>10, WaitingRequest DEF CommitStatus, Committing, Waits
  <2>2. flow.draft \in Content
    BY <1>1 DEF Row
  <2>3. /\ StatusRow(r.seen, r.arg) \in Row
        /\ StatusRow(r.seen, r.arg).status = r.arg
        /\ StatusRow(r.seen, r.arg).current_version = r.seen.current_version
    BY <1>1, <2>1, <2>2, NewRows
  <2>4. flow'.current_version = flow.current_version /\ flow'.status \in {flow.status, r.arg}
    BY <1>10, <2>1, <2>3, WrittenColumns DEF CommitStatus
  <2>5. r.arg = "ACTIVE" => flow.current_version >= 1
    BY <1>1, <1>10, <2>1
       DEF CommitStatus, Committing, HistoryInv, RequestInv, RequestHolds, Row
  <2> QED
    BY <1>4, <1>10, <2>4, <2>5 DEF CommitStatus, HistoryInv, ActiveIsPublished
<1>11. CASE CommitDelete(e)
  BY <1>4, <1>11 DEF CommitDelete, HistoryInv, ActiveIsPublished
<1> QED
  BY <1>6, <1>7, <1>8, <1>9, <1>10, <1>11 DEF HandlerCommits

LEMMA HistoryStep ==
  ASSUME LifecycleTypeOK, LifecycleTypeOK', HistoryInv, [LifecycleNext]_lifecycleVars
  PROVE  HistoryInv'
<1>1. ASSUME UNCHANGED <<flow, versions>>,
             \A e \in Editor :
               \/ request'[e].handler \in {"none", "refresh"}
               \/ request'[e] = request[e] /\ editor'[e] = editor[e]
      PROVE  HistoryInv'
  <2>1. RequestInv'
    BY <1>1, RequestsKept DEF LifecycleTypeOK, Row
  <2> QED
    BY <1>1, <2>1 DEF HistoryInv, CurrentIsLatest, ActiveIsPublished, VersionsSound
<1>2. ASSUME NEW e \in Editor, EditorHears(e)
      PROVE  HistoryInv'
  <2>1. /\ UNCHANGED <<flow, versions>>
        /\ \A o \in Editor : o # e => request'[o] = request[o] /\ editor'[o] = editor[o]
        /\ request'[e].handler = "none"
    BY <1>2 DEF EditorHears, LoadEditor, TakeAnswer, LoseAnswer, Answer, Idle, LifecycleTypeOK
  <2> QED
    BY <1>1, <2>1
<1>3. ASSUME NEW a \in Alias, CreateCredential(a)
      PROVE  HistoryInv'
  BY <1>1, <1>3 DEF CreateCredential
<1>4. CASE UNCHANGED lifecycleVars
  BY <1>1, <1>4 DEF lifecycleVars
<1> QED
  BY <1>2, <1>3, <1>4, HistoryAsked, HistoryCommitted DEF LifecycleNext

(* Adding a version appends it to the history. *)
LEMMA AddingAppends ==
  ASSUME LifecycleTypeOK, HistoryInv, NEW e \in Editor, Waits(e),
         NEW c \in Sound \cap Content, AddVersion(e, c)
  PROVE  History!HistoryNext
<1> DEFINE last == flow.current_version
<1>1. last \in Nat /\ versions \in [1 .. last -> Content]
  BY DEF LifecycleTypeOK, HistoryInv, CurrentIsLatest, Row
<1>2. versions \in Seq(Content) /\ Len(versions) = last
  BY <1>1
<1>3. versions' = [n \in 1 .. last + 1 |-> IF n = last + 1 THEN c ELSE versions[n]]
  BY <1>1, NextNumber DEF AddVersion
<1> HIDE DEF last
<1> DEFINE longer == Append(versions, c)
<1>4. /\ longer \in [1 .. last + 1 -> Content]
      /\ \A n \in 1 .. last + 1 : longer[n] = IF n = last + 1 THEN c ELSE versions[n]
  <2>1. /\ longer \in Seq(Content) /\ Len(longer) = last + 1
        /\ \A n \in 1 .. last : longer[n] = versions[n]
        /\ longer[last + 1] = c
    BY <1>2, AppendProperties
  <2> HIDE DEF longer
  <2>2. longer \in [1 .. Len(longer) -> Content]
    BY <2>1, LenProperties
  <2> QED
    BY <1>1, <2>1, <2>2
<1>5. versions' = longer
  <2> HIDE DEF longer
  <2> QED
    BY <1>1, <1>3, <1>4
<1> QED
  BY <1>5 DEF History!HistoryNext, History!Publish

LEMMA HistoryRefined ==
  ASSUME LifecycleTypeOK, HistoryInv, [LifecycleNext]_lifecycleVars
  PROVE  [History!HistoryNext]_versions
<1>1. ASSUME NEW e \in Editor, CommitPublish(e) \/ CommitRollback(e)
      PROVE  History!HistoryNext
  <2>1. request[e].arg \in Sound \cap Content /\ Waits(e)
    BY <1>1, WaitingRequest
       DEF CommitPublish, CommitRollback, Committing, Waits,
           HistoryInv, RequestInv, RequestHolds, VersionsSound
  <2> QED
    BY <1>1, <2>1, AddingAppends DEF CommitPublish, CommitRollback
<1>2. ASSUME NEW e \in Editor, EditorAsks(e) \/ EditorHears(e)
      PROVE  UNCHANGED versions
  BY <1>2 DEF EditorAsks, UpdateDraft, PublishFlow, RollbackFlowVersion, UpdateFlowStatus,
       DeleteCredential, Receive, EditorHears, LoadEditor, TakeAnswer, LoseAnswer
<1>3. ASSUME NEW e \in Editor,
             CommitDraft(e) \/ VersionNumberTaken(e) \/ CommitStatus(e) \/ CommitDelete(e)
      PROVE  UNCHANGED versions
  BY <1>3 DEF CommitDraft, VersionNumberTaken, CommitStatus, CommitDelete
<1> QED
  BY <1>1, <1>2, <1>3 DEF LifecycleNext, HandlerCommits, CreateCredential, lifecycleVars

(* LifecycleTypeOK: the rows, the editors and their requests keep their     *)
(* types in every behaviour.                                               *)
THEOREM LifecycleTypes == LifecycleSpec => []LifecycleTypeOK
<1>1. LifecycleTypeOK /\ [LifecycleNext]_lifecycleVars => LifecycleTypeOK'
  <2>1. CASE UNCHANGED lifecycleVars
    BY <2>1 DEF lifecycleVars, LifecycleTypeOK
  <2> QED
    BY <2>1, TypeStep
<1> QED
  BY <1>1, TypeInit, PTL DEF LifecycleSpec

LEMMA HistoryAlways == LifecycleSpec => []HistoryInv
<1>1. LifecycleTypeOK /\ LifecycleTypeOK' /\ HistoryInv /\ [LifecycleNext]_lifecycleVars
        => HistoryInv'
  BY HistoryStep
<1> QED
  BY <1>1, HistoryStart, LifecycleTypes, PTL DEF LifecycleSpec

(* CurrentIsLatest: however publishing and rolling back overtake each       *)
(* other, versions are numbered 1 to current_version.                      *)
THEOREM VersionsNumbered == LifecycleSpec => []CurrentIsLatest
BY HistoryAlways, PTL DEF HistoryInv

(* ActiveIsPublished: an active flow has a version to run.  *)
THEOREM ActiveFlowsRunnable == LifecycleSpec => []ActiveIsPublished
BY HistoryAlways, PTL DEF HistoryInv

(* KeepsHistory: published versions are appended in order, all validated,   *)
(* and never change.                                                       *)
THEOREM LifecycleKeepsHistory == LifecycleSpec => KeepsHistory
<1>1. LifecycleInit => History!HistoryInit
  BY DEF LifecycleInit, History!HistoryInit
<1>2. LifecycleTypeOK /\ HistoryInv /\ [LifecycleNext]_lifecycleVars
        => [History!HistoryNext]_versions
  BY HistoryRefined
<1> QED
  BY <1>1, <1>2, LifecycleTypes, HistoryAlways, PTL
     DEF LifecycleSpec, KeepsHistory, History!HistorySpec

LEMMA UnracedStart ==
  ASSUME LifecycleInit
  PROVE  UnracedInv
<1>1. PICK c \in Content :
        /\ flow.draft = c /\ flow.row_version = 1
        /\ \A e \in Editor : editor[e].base = c /\ editor[e].row_version = 1
  BY DEF LifecycleInit
<1>2. \A e \in Editor : request[e].handler = "none"
  BY DEF LifecycleInit, Idle
<1>3. DOMAIN versions = {}
  BY DEF LifecycleInit
<1> QED
  BY <1>1, <1>2, <1>3 DEF UnracedInv, RevisionInv, Waits

LEMMA UnracedAsked ==
  ASSUME LifecycleTypeOK, RevisionInv, NEW e \in Editor, EditorAsks(e)
  PROVE  RevisionInv'
<1>1. PICK handler, arg : Receive(e, handler, arg)
  BY DEF EditorAsks, UpdateDraft, PublishFlow, RollbackFlowVersion,
         UpdateFlowStatus, DeleteCredential
<1>2. UNCHANGED <<flow, versions, credentials, editor, blind>>
  BY <1>1 DEF Receive
<1>3. \A o \in Editor : o # e => request'[o] = request[o]
  BY <1>1 DEF Receive, LifecycleTypeOK
<1>4. request'[e].seen = flow /\ flow.row_version <= flow.row_version
  BY <1>1 DEF Receive, LifecycleTypeOK, Row
<1>5. request'[e].handler = "publish_flow" => Uses[request'[e].arg] \subseteq credentials
  BY DEF EditorAsks, UpdateDraft, PublishFlow, RollbackFlowVersion, UpdateFlowStatus,
         DeleteCredential, Receive, CredentialsAvailable, LifecycleTypeOK
<1> QED
  BY <1>2, <1>3, <1>4, <1>5 DEF RevisionInv, Waits

(* A commit of a fresh row under a new revision: what was held before is    *)
(* now out of date, and no credential has gone.                            *)
LEMMA NewRevision ==
  ASSUME LifecycleTypeOK, LifecycleTypeOK', RevisionInv,
         flow'.row_version = flow.row_version + 1,
         UNCHANGED <<editor, credentials>>,
         \A n \in DOMAIN versions' : Uses[versions'[n]] \subseteq credentials,
         \A e \in Editor : Waits(e)' => request'[e] = request[e]
  PROVE  RevisionInv'
<1>1. flow \in Row /\ flow' \in Row /\ \A e \in Editor : editor[e].row_version \in Nat
  BY DEF LifecycleTypeOK
<1>2. ASSUME NEW e \in Editor
      PROVE  editor'[e].row_version < flow'.row_version
  BY <1>1 DEF RevisionInv, Row
<1>3. ASSUME NEW e \in Editor, Waits(e)'
      PROVE  request'[e].seen.row_version < flow'.row_version
  <2>1. Waits(e) /\ request'[e] = request[e] /\ request[e].seen \in Row
    BY <1>3, WaitingRequest DEF Waits
  <2> QED
    BY <1>1, <2>1 DEF RevisionInv, Row
<1>4. ASSUME NEW e \in Editor, request'[e].handler = "publish_flow"
      PROVE  request'[e].seen # flow'
  BY <1>1, <1>3, <1>4 DEF Waits, Row
<1>5. \A e \in Editor : editor'[e].row_version <= flow'.row_version
                       /\ editor'[e].row_version # flow'.row_version
  BY <1>1, <1>2 DEF Row
<1>6. \A e \in Editor : Waits(e)' => request'[e].seen.row_version <= flow'.row_version
  <2>1. \A e \in Editor : Waits(e)' => request'[e].seen \in Row
    BY WaitingRequest DEF Waits
  <2> QED
    BY <1>1, <1>3, <2>1 DEF Row
<1> QED
  BY <1>4, <1>5, <1>6 DEF RevisionInv

LEMMA UnracedCommitted ==
  ASSUME LifecycleTypeOK, LifecycleTypeOK', HistoryInv, RevisionInv, ~raced',
         NEW e \in Editor, HandlerCommits(e)
  PROVE  RevisionInv'
<1> DEFINE r == request[e]
<1>1. flow \in Row /\ (Waits(e) => r.seen \in Row) /\ DOMAIN versions = 1 .. flow.current_version
  BY WaitingRequest DEF LifecycleTypeOK, HistoryInv, CurrentIsLatest
<1>2. \A o \in Editor : Waits(o)' => request'[o] = request[o] /\ Waits(o)
  BY DEF HandlerCommits, CommitDraft, CommitPublish, CommitRollback, VersionNumberTaken,
         CommitStatus, CommitDelete, Refresh, Answer, Idle, LifecycleTypeOK, Waits
<1>3. "DRAFT" \in Status /\ flow.draft \in Content
  BY <1>1 DEF Status, Row
<1>4. CASE CommitDraft(e)
  <2>1. r.arg \in Content /\ Waits(e) /\ flow = r.seen
    BY <1>4, WaitingRequest DEF CommitDraft, Committing, Waits
  <2>2. SavedRow(flow, r.arg) \in Row /\ SavedRow(flow, r.arg).row_version = flow.row_version + 1
    BY <1>1, <1>3, <2>1, NewRows
  <2>3. flow' = SavedRow(flow, r.arg)
    BY <1>4, <2>1, <2>2, WrittenColumns DEF CommitDraft
  <2> QED
    BY <1>2, <1>4, <2>2, <2>3, NewRevision DEF CommitDraft, RevisionInv
<1>5. CASE CommitPublish(e)
  <2>1. r.arg \in Content /\ Waits(e) /\ flow = r.seen /\ r.handler = "publish_flow"
    BY <1>5, WaitingRequest DEF CommitPublish, Committing, Waits
  <2>2. /\ PublishedRow(flow) \in Row
        /\ PublishedRow(flow).draft = flow.draft
        /\ PublishedRow(flow).row_version = flow.row_version
        /\ PublishedRow(flow).current_version = flow.current_version + 1
    BY <1>1, <1>3, NewRows
  <2>3. flow' = PublishedRow(flow)
    BY <1>5, <2>1, <2>2, WrittenColumns DEF CommitPublish
  <2>4. /\ DOMAIN versions' = 1 .. flow.current_version + 1
        /\ versions'[flow.current_version + 1] = r.arg
        /\ \A n \in DOMAIN versions : versions'[n] = versions[n]
    BY <1>5, <2>1, NextNumber DEF CommitPublish
  <2>5. Uses[r.arg] \subseteq credentials
    BY <2>1 DEF RevisionInv
  <2>6. \A n \in DOMAIN versions' : Uses[versions'[n]] \subseteq credentials
    BY <1>1, <2>4, <2>5 DEF RevisionInv, Row
  <2>7. ASSUME NEW o \in Editor, Waits(o)'
        PROVE  request'[o].seen # flow'
    <3>1. request[o].seen \in Row /\ request[o].seen.current_version <= flow.current_version
      BY <1>2, <2>7, WaitingRequest DEF HistoryInv, RequestInv, RequestHolds
    <3> QED
      BY <1>1, <1>2, <2>2, <2>3, <2>7, <3>1 DEF Row
  <2> QED
    BY <1>2, <1>5, <2>2, <2>3, <2>6, <2>7 DEF CommitPublish, RevisionInv, Waits
<1>6. CASE CommitRollback(e)
  <2>1. r.arg \in Content /\ Waits(e) /\ flow = r.seen
    BY <1>6, WaitingRequest DEF CommitRollback, Committing, Waits
  <2>2. /\ RestoredRow(flow, r.arg) \in Row
        /\ RestoredRow(flow, r.arg).row_version = flow.row_version + 1
    BY <1>1, <1>3, <2>1, NewRows
  <2>3. flow' = RestoredRow(flow, r.arg)
    BY <1>6, <2>1, <2>2, WrittenColumns DEF CommitRollback
  <2>4. /\ DOMAIN versions' = 1 .. flow.current_version + 1
        /\ versions'[flow.current_version + 1] = r.arg
        /\ \A n \in DOMAIN versions : versions'[n] = versions[n]
    BY <1>6, <2>1, NextNumber DEF CommitRollback
  <2>5. Uses[r.arg] \subseteq credentials
    BY <1>6 DEF CommitRollback, Committing, HistoryInv, RequestInv, RequestHolds, RevisionInv
  <2>6. \A n \in DOMAIN versions' : Uses[versions'[n]] \subseteq credentials
    BY <1>1, <2>4, <2>5 DEF RevisionInv, Row
  <2> QED
    BY <1>2, <1>6, <2>2, <2>3, <2>6, NewRevision DEF CommitRollback
<1>7. CASE VersionNumberTaken(e)
  BY <1>2, <1>7 DEF VersionNumberTaken, RevisionInv, Waits
<1>8. CASE CommitStatus(e)
  <2>1. r.arg \in Status /\ Waits(e) /\ flow = r.seen
    BY <1>8, WaitingRequest DEF CommitStatus, Committing, Waits
  <2>2. StatusRow(flow, r.arg) \in Row /\ StatusRow(flow, r.arg).row_version = flow.row_version + 1
    BY <1>1, <1>3, <2>1, NewRows
  <2>3. flow' = StatusRow(flow, r.arg)
    BY <1>8, <2>1, <2>2, WrittenColumns DEF CommitStatus
  <2> QED
    BY <1>2, <1>8, <2>2, <2>3, NewRevision DEF CommitStatus, RevisionInv
<1>9. CASE CommitDelete(e)
  <2>1. /\ flow = r.seen /\ r.arg \notin Uses[flow.draft]
        /\ \A n \in DOMAIN versions : r.arg \notin Uses[versions[n]]
    BY <1>1, <1>9 DEF CommitDelete, Committing, HistoryInv, RequestInv, RequestHolds
  <2>2. UNCHANGED <<flow, versions, editor, blind>> /\ credentials' = credentials \ {r.arg}
    BY <1>9 DEF CommitDelete
  <2>3. \A n \in DOMAIN versions : Uses[versions[n]] \subseteq credentials'
    BY <2>1, <2>2 DEF RevisionInv
  <2>4. ASSUME NEW o \in Editor, request'[o].handler = "publish_flow", request'[o].seen = flow
        PROVE  Uses[request'[o].arg] \subseteq credentials'
    <3>1. request'[o] = request[o]
      BY <1>2, <2>4 DEF Waits
    <3>2. request[o].arg = flow.draft
      BY <2>4, <3>1 DEF HistoryInv, RequestInv, RequestHolds
    <3>3. Uses[request[o].arg] \subseteq credentials
      BY <2>4, <3>1 DEF RevisionInv
    <3> QED
      BY <2>1, <2>2, <3>1, <3>2, <3>3
  <2> QED
    BY <1>2, <2>2, <2>3, <2>4 DEF RevisionInv, Waits
<1> QED
  BY <1>4, <1>5, <1>6, <1>7, <1>8, <1>9 DEF HandlerCommits

LEMMA UnracedStep ==
  ASSUME LifecycleTypeOK, LifecycleTypeOK', HistoryInv, UnracedInv,
         [LifecycleNext]_lifecycleVars
  PROVE  UnracedInv'
<1>1. CASE UNCHANGED lifecycleVars
  BY <1>1 DEF lifecycleVars, UnracedInv, RevisionInv, Waits
<1>2. ASSUME NEW e \in Editor, EditorAsks(e)
      PROVE  UnracedInv'
  <2>1. raced' = raced
    BY <1>2 DEF EditorAsks, UpdateDraft, PublishFlow, RollbackFlowVersion,
         UpdateFlowStatus, DeleteCredential, Receive
  <2> QED
    BY <1>2, <2>1, UnracedAsked DEF UnracedInv
<1>3. ASSUME NEW e \in Editor, HandlerCommits(e)
      PROVE  UnracedInv'
  <2>1. raced => raced'
    BY <1>3 DEF HandlerCommits, CommitDraft, CommitPublish, CommitRollback,
         VersionNumberTaken, CommitStatus, CommitDelete, Committing
  <2> QED
    BY <1>3, <2>1, UnracedCommitted DEF UnracedInv
<1>4. ASSUME NEW e \in Editor, EditorHears(e)
      PROVE  UnracedInv'
  <2>1. UNCHANGED <<flow, versions, credentials, raced>>
    BY <1>4 DEF EditorHears, LoadEditor, TakeAnswer, LoseAnswer
  <2>2. \A o \in Editor : Waits(o)' => request'[o] = request[o] /\ Waits(o)
    BY <1>4 DEF EditorHears, LoadEditor, TakeAnswer, LoseAnswer, Answer, Idle, Waits,
         LifecycleTypeOK
  <2>3. \A o \in Editor :
          \/ editor'[o] = editor[o] /\ blind'[o] = blind[o]
          \/ /\ editor'[o].row_version = flow.row_version
             /\ blind'[o] \/ editor'[o].base = flow.draft
    BY <1>4 DEF EditorHears, LoadEditor, TakeAnswer, LoseAnswer, LifecycleTypeOK
  <2>4. flow.row_version <= flow.row_version
    BY DEF LifecycleTypeOK, Row
  <2> QED
    BY <2>1, <2>2, <2>3, <2>4 DEF UnracedInv, RevisionInv, Waits
<1>5. ASSUME NEW a \in Alias, CreateCredential(a)
      PROVE  UnracedInv'
  BY <1>5 DEF CreateCredential, UnracedInv, RevisionInv, Waits
<1> QED
  BY <1>1, <1>2, <1>3, <1>4, <1>5 DEF LifecycleNext

LEMMA UnracedAlways == LifecycleSpec => []UnracedInv
<1>1. LifecycleTypeOK /\ LifecycleTypeOK' /\ HistoryInv /\ UnracedInv
      /\ [LifecycleNext]_lifecycleVars => UnracedInv'
  BY UnracedStep
<1> QED
  BY <1>1, UnracedStart, LifecycleTypes, HistoryAlways, PTL DEF LifecycleSpec

(* CredentialsKept: without a race, what a version refers to is never       *)
(* deleted.                                                                *)
THEOREM VersionsKeepCredentials == LifecycleSpec => []CredentialsKept
<1>1. UnracedInv => CredentialsKept
  BY DEF UnracedInv, RevisionInv, CredentialsKept
<1> QED
  BY <1>1, UnracedAlways, PTL

(* LockedSave: without a race, a save by an editor that has seen the draft  *)
(* of its revision replaces no other.                                      *)
THEOREM SavesAreLocked == LifecycleSpec => LockedSave
<1>1. ASSUME LifecycleTypeOK, HistoryInv, UnracedInv, [LifecycleNext]_lifecycleVars,
             NEW e \in Editor, DraftSaved(e), ~raced', ~blind[e]
      PROVE  editor[e].base = flow.draft
  <2>1. request[e].handler = "update_draft" /\ request'[e] # request[e] /\ request[e] # Idle
    BY <1>1 DEF DraftSaved, Idle
  <2>2. PICK o \in Editor : EditorAsks(o) \/ HandlerCommits(o) \/ EditorHears(o)
    BY <1>1, <2>1 DEF LifecycleNext, lifecycleVars, CreateCredential
  <2>3. CommitDraft(e)
    BY <1>1, <2>1, <2>2 DEF EditorAsks, UpdateDraft, PublishFlow, RollbackFlowVersion,
         UpdateFlowStatus, DeleteCredential, Receive, HandlerCommits, CommitDraft,
         CommitPublish, CommitRollback, VersionNumberTaken, CommitStatus, CommitDelete,
         Committing, Refresh, Answer, EditorHears, LoadEditor, TakeAnswer, LoseAnswer,
         LifecycleTypeOK
  <2>4. flow = request[e].seen /\ ~raced
    BY <1>1, <2>3 DEF CommitDraft, Committing
  <2>5. editor[e].row_version = flow.row_version
    BY <1>1, <2>1, <2>4 DEF HistoryInv, RequestInv, RequestHolds
  <2> QED
    BY <1>1, <2>4, <2>5 DEF UnracedInv, RevisionInv
<1>2. LifecycleTypeOK /\ HistoryInv /\ UnracedInv /\ [LifecycleNext]_lifecycleVars
        => [\A e \in Editor : DraftSaved(e) /\ ~raced' /\ ~blind[e]
              => editor[e].base = flow.draft]_lifecycleVars
  BY <1>1
<1> QED
  BY <1>2, LifecycleTypes, HistoryAlways, UnracedAlways, PTL DEF LifecycleSpec, LockedSave
=============================================================================
