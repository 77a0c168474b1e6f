-------------------------- MODULE MCFlowLifecycle --------------------------
(* Two designers of one flow: a sound draft, a sound one with a credential, *)
(* and an unsound one.                                                     *)
EXTENDS FlowLifecycleProperties, TLC

CONSTANTS plain, calling, broken, token

Drafts == {plain, calling, broken}
SoundDrafts == {plain, calling}
CredentialUses == plain :> {} @@ calling :> {token} @@ broken :> {}
=============================================================================
