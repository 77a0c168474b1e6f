SPECIFICATION LifecycleSpec
CONSTANTS
  plain = plain
  calling = calling
  broken = broken
  token = token
  Content <- Drafts
  Sound <- SoundDrafts
  Alias = {token}
  Uses <- CredentialUses
  Editor = {ann, ben}
  MaxVersions = 2
  MaxRevision = 3
PROPERTIES
  SavesSeenDraft
CHECK_DEADLOCK FALSE
