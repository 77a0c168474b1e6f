--------------------------- MODULE FlowLifecycle ---------------------------
(***************************************************************************)
(* The life of one flow: its draft and the revision that guards it, its     *)
(* published versions, its status, its credentials, and the editors who     *)
(* change them.                                                            *)
(*                                                                         *)
(* The handlers of group_api.py run in parallel threads, each in a database *)
(* session of its own at the default isolation level, and take no locks.    *)
(* A handler is two actions: one that reads the flow and passes its checks, *)
(* and one that commits.  A request that fails a check changes nothing and  *)
(* has no action.  What a commit writes was computed from the row as it was *)
(* read, and SQLAlchemy writes only the columns that differ from that.      *)
(*                                                                         *)
(* The draft stands for the content with its input and configuration        *)
(* schemas, which handlers copy together.                                  *)
(***************************************************************************)
EXTENDS Integers

CONSTANTS
  Content,         \* what a draft can hold
  Sound,           \* the contents that pass validation
  Alias,           \* names of credentials
  Uses,            \* the aliases a content refers to
  Editor,          \* open designers, one request each
  MaxVersions,     \* bound on published versions
  MaxRevision      \* bound on row_version

ASSUME LifecycleAssumption ==
  /\ Sound \subseteq Content
  /\ Uses \in [Content -> SUBSET Alias]
  /\ MaxVersions \in Nat /\ MaxRevision \in Nat

VARIABLES
  flow,            \* the row of flow_definition
  versions,        \* rows of flow_version: number |-> content
  credentials,     \* aliases of the rows of flow_credential
  editor,          \* what each designer shows, and the revision it holds
  request,         \* what each designer is waiting for
  raced,           \* history: a commit came after its row had changed
  blind            \* history: who holds a revision without its draft

lifecycleVars == <<flow, versions, credentials, editor, request, raced, blind>>

Status == {"DRAFT", "ACTIVE", "PAUSED", "ARCHIVED"}

Row == [draft : Content, status : Status,
        current_version : Nat, row_version : Nat]

Idle == [handler |-> "none"]

LifecycleInit ==
  /\ \E c \in Content :
       /\ flow = [draft |-> c, status |-> "DRAFT",
                  current_version |-> 0, row_version |-> 1]
       /\ editor = [e \in Editor |-> [base |-> c, row_version |-> 1]]
  /\ versions = <<>>
  /\ credentials = {}
  /\ request = [e \in Editor |-> Idle]
  /\ raced = FALSE
  /\ blind = [e \in Editor |-> FALSE]

-----------------------------------------------------------------------------
(* What each handler checks before it writes. *)

CredentialsAvailable(c) == Uses[c] \subseteq credentials

CredentialIsReferenced(a) ==
  \/ a \in Uses[flow.draft]
  \/ \E n \in DOMAIN versions : a \in Uses[versions[n]]

Receive(e, handler, arg) ==
  /\ request[e] = Idle
  /\ request' = [request EXCEPT ![e] =
       [handler |-> handler, arg |-> arg, seen |-> flow]]
  /\ UNCHANGED <<flow, versions, credentials, editor, raced, blind>>

UpdateDraft(e, c) ==
  /\ flow.row_version < MaxRevision
  /\ flow.row_version = editor[e].row_version
  /\ Receive(e, "update_draft", c)

PublishFlow(e) ==
  /\ flow.current_version < MaxVersions
  /\ flow.draft \in Sound
  /\ CredentialsAvailable(flow.draft)
  /\ Receive(e, "publish_flow", flow.draft)

RollbackFlowVersion(e, n) ==
  /\ flow.current_version < MaxVersions /\ flow.row_version < MaxRevision
  /\ n \in DOMAIN versions
  /\ Receive(e, "rollback_flow_version", versions[n])

UpdateFlowStatus(e, s) ==
  /\ flow.row_version < MaxRevision
  /\ s = "ACTIVE" => flow.current_version >= 1
  /\ Receive(e, "update_flow_status", s)

(* wrong variant: looks only at the draft *)
DeleteCredentialOfDraft(e, a) ==
  /\ a \in credentials
  /\ a \notin Uses[flow.draft]
  /\ Receive(e, "delete_credential", a)

DeleteCredential(e, a) ==
  /\ a \in credentials
  /\ ~CredentialIsReferenced(a)
  /\ Receive(e, "delete_credential", a)

-----------------------------------------------------------------------------
(* What each handler commits.                                              *)

(* The row as each handler leaves it in its session.  *)

SavedRow(row, c) == [row EXCEPT !.draft = c, !.row_version = @ + 1]

PublishedRow(row) == [row EXCEPT !.status = "ACTIVE", !.current_version = @ + 1]

(* wrong variant: the restored version is not counted *)
RestoredRowUncounted(row, c) ==
  [row EXCEPT !.draft = c, !.status = "ACTIVE", !.row_version = @ + 1]

(* wrong variant: the restored version replaces the draft under its revision *)
RestoredRowSameRevision(row, c) ==
  [row EXCEPT !.draft = c, !.status = "ACTIVE", !.current_version = @ + 1]

RestoredRow(row, c) ==
  [row EXCEPT !.draft = c, !.status = "ACTIVE",
              !.current_version = @ + 1, !.row_version = @ + 1]

StatusRow(row, s) == [row EXCEPT !.status = s, !.row_version = @ + 1]

(* An UPDATE of the columns in which the session's object differs from the  *)
(* row it has read.                                                        *)
Updated(row, seen, new) ==
  [column \in DOMAIN row |->
     IF new[column] = seen[column] THEN row[column] ELSE new[column]]

Committing(e, handler) ==
  /\ request[e].handler = handler
  /\ raced' = (raced \/ flow # request[e].seen)

Write(e, new) == flow' = Updated(flow, request[e].seen, new)

(* wrong variant: the first version gets the number 0 *)
CountedVersion(e) == request[e].seen.current_version

NextVersion(e) == request[e].seen.current_version + 1

(* The new version's row; its number must be free. *)
AddVersion(e, c) ==
  /\ NextVersion(e) \notin DOMAIN versions
  /\ versions' = [n \in DOMAIN versions \cup {NextVersion(e)} |->
                    IF n = NextVersion(e) THEN c ELSE versions[n]]

Answer(e) == request' = [request EXCEPT ![e] = Idle]

(* The answer is read again from the row, after the commit. *)
Refresh(e) ==
  request' = [request EXCEPT ![e] =
                [handler |-> "refresh", shown |->
                   IF request[e].handler = "update_draft"
                     THEN request[e].arg ELSE editor[e].base]]

CommitDraft(e) ==
  /\ Committing(e, "update_draft")
  /\ Write(e, SavedRow(request[e].seen, request[e].arg))
  /\ Refresh(e)
  /\ UNCHANGED <<versions, credentials, editor, blind>>

(* wrong variant: publishes the draft as it is at the commit *)
CommitPublishOfCurrentDraft(e) ==
  /\ Committing(e, "publish_flow")
  /\ AddVersion(e, flow.draft)
  /\ Write(e, PublishedRow(request[e].seen))
  /\ Answer(e)
  /\ UNCHANGED <<credentials, editor, blind>>

CommitPublish(e) ==
  /\ Committing(e, "publish_flow")
  /\ AddVersion(e, request[e].arg)
  /\ Write(e, PublishedRow(request[e].seen))
  /\ Answer(e)
  /\ UNCHANGED <<credentials, editor, blind>>

CommitRollback(e) ==
  /\ Committing(e, "rollback_flow_version")
  /\ AddVersion(e, request[e].arg)
  /\ Write(e, RestoredRow(request[e].seen, request[e].arg))
  /\ Answer(e)
  /\ UNCHANGED <<credentials, editor, blind>>

(* The unique key of flow_version refuses a number already given.  *)
VersionNumberTaken(e) ==
  /\ request[e].handler \in {"publish_flow", "rollback_flow_version"}
  /\ NextVersion(e) \in DOMAIN versions
  /\ Answer(e)
  /\ UNCHANGED <<flow, versions, credentials, editor, raced, blind>>

CommitStatus(e) ==
  /\ Committing(e, "update_flow_status")
  /\ Write(e, StatusRow(request[e].seen, request[e].arg))
  /\ Refresh(e)
  /\ UNCHANGED <<versions, credentials, editor, blind>>

(* Requests that have found the same row to delete find nothing any more.  *)
CommitDelete(e) ==
  /\ Committing(e, "delete_credential")
  /\ credentials' = credentials \ {request[e].arg}
  /\ request' = [o \in Editor |->
       IF /\ request[o].handler = "delete_credential"
          /\ request[o].arg = request[e].arg
       THEN Idle ELSE request[o]]
  /\ UNCHANGED <<flow, versions, editor, blind>>

CreateCredential(a) ==
  /\ a \notin credentials
  /\ credentials' = credentials \cup {a}
  /\ UNCHANGED <<flow, versions, editor, request, raced, blind>>

-----------------------------------------------------------------------------
(* The designer.                                                           *)

(* Opening the flow, or rolling it back, fetches draft and revision. *)
LoadEditor(e) ==
  /\ request[e] = Idle
  /\ editor' = [editor EXCEPT ![e] =
       [base |-> flow.draft, row_version |-> flow.row_version]]
  /\ blind' = [blind EXCEPT ![e] = FALSE]
  /\ UNCHANGED <<flow, versions, credentials, request, raced>>

(* setFlow(answer) takes the revision over; the nodes on show stay.  *)
TakeAnswer(e) ==
  /\ request[e].handler = "refresh"
  /\ editor' = [editor EXCEPT ![e] =
       [base |-> request[e].shown, row_version |-> flow.row_version]]
  /\ blind' = [blind EXCEPT ![e] = flow.draft # request[e].shown]
  /\ Answer(e)
  /\ UNCHANGED <<flow, versions, credentials, raced>>

(* The answer does not arrive. *)
LoseAnswer(e) ==
  /\ request[e].handler = "refresh"
  /\ Answer(e)
  /\ UNCHANGED <<flow, versions, credentials, editor, raced, blind>>

-----------------------------------------------------------------------------
EditorAsks(e) ==
  \/ \E c \in Content : UpdateDraft(e, c)
  \/ PublishFlow(e)
  \/ \E n \in DOMAIN versions : RollbackFlowVersion(e, n)
  \/ \E s \in Status \ {"DRAFT"} : UpdateFlowStatus(e, s)
  \/ \E a \in Alias : DeleteCredential(e, a)

HandlerCommits(e) ==
  \/ CommitDraft(e)
  \/ CommitPublish(e)
  \/ CommitRollback(e)
  \/ VersionNumberTaken(e)
  \/ CommitStatus(e)
  \/ CommitDelete(e)

EditorHears(e) == LoadEditor(e) \/ TakeAnswer(e) \/ LoseAnswer(e)

LifecycleNext ==
  \/ \E e \in Editor : EditorAsks(e) \/ HandlerCommits(e) \/ EditorHears(e)
  \/ \E a \in Alias : CreateCredential(a)

LifecycleSpec == LifecycleInit /\ [][LifecycleNext]_lifecycleVars
=============================================================================
