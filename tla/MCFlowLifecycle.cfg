SPECIFICATION LifecycleSpec
CONSTANTS
  plain = plain
  calling = calling
  broken = broken
  token = token
  Content <- Drafts
  Sound <- SoundDrafts
  Alias = {token}
  Uses <- CredentialUses
  Editor = {ann, ben}
  MaxVersions = 2
  MaxRevision = 3
INVARIANTS
  LifecycleTypeOK
  CurrentIsLatest
  CredentialsKept
PROPERTIES
  KeepsHistory
  LockedSave
CHECK_DEADLOCK FALSE
