---------------------- MODULE FlowLifecycleProperties ----------------------
(***************************************************************************)
(* What editors, runs and auditors may rely on in the life of a flow.       *)
(***************************************************************************)
EXTENDS FlowLifecycle

History == INSTANCE VersionHistory WITH published <- versions

Pending(handlers, args) == [handler : handlers, arg : args, seen : Row]

Request ==
  {Idle}
  \cup Pending({"update_draft", "publish_flow", "rollback_flow_version"}, Content)
  \cup Pending({"update_flow_status"}, Status)
  \cup Pending({"delete_credential"}, Alias)
  \cup [handler : {"refresh"}, shown : Content]

(* Every variable has its type: the rows of group_api.py's flow handlers.  *)
LifecycleTypeOK ==
  /\ flow \in Row
  /\ versions \in [DOMAIN versions -> Content]
  /\ DOMAIN versions \subseteq Nat \ {0}
  /\ credentials \subseteq Alias
  /\ editor \in [Editor -> [base : Content, row_version : Nat]]
  /\ request \in [Editor -> Request]
  /\ raced \in BOOLEAN
  /\ blind \in [Editor -> BOOLEAN]

(* The versions are numbered without a gap up to current_version, even when *)
(* two handlers compute the same next number: publishing and rolling back   *)
(* both count from current_version, so if it fell behind, every later       *)
(* publish_flow would be refused by the unique key.                        *)
CurrentIsLatest == DOMAIN versions = 1 .. flow.current_version

(* A flow that create_run accepts, an active one, has a version to run,     *)
(* whatever status changes, publishing and rollbacks overtake each other.   *)
ActiveIsPublished == flow.status = "ACTIVE" => flow.current_version >= 1

(* Versions are appended, never rewritten, and only validated contents get  *)
(* to be one, although the draft may change while publish_flow validates.  *)
KeepsHistory == History!HistorySpec

(* A credential that a version refers to is still there, whatever was       *)
(* saved, published, rolled back and deleted, in any order, if no commit    *)
(* has come after its row had changed.  When one has, delete_credential may *)
(* remove what another request is about to publish.                        *)
CredentialsKept ==
  ~raced => \A n \in DOMAIN versions : Uses[versions[n]] \subseteq credentials

DraftSaved(e) ==
  /\ request[e].handler = "update_draft"
  /\ request'[e] # request[e]

(* update_draft's 409: what a save replaces is the draft its editor had     *)
(* before its eyes.  Two things may break this: a commit based on a row     *)
(* that had changed, and an editor that took over an answer's revision      *)
(* without its draft.                                                      *)
LockedSave ==
  [][\A e \in Editor : DraftSaved(e) /\ ~raced' /\ ~blind[e]
                         => editor[e].base = flow.draft]_lifecycleVars

(* "The flow was changed by another editor. Reload before saving.": a save  *)
(* never replaces a draft, by another one, that its editor has not seen.    *)
SavesSeenDraft ==
  [][\A e \in Editor : DraftSaved(e) /\ flow'.draft # flow.draft
                         => editor[e].base = flow.draft]_lifecycleVars
=============================================================================
