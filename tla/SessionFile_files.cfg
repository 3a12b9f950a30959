CONSTANTS
  Ids = {c1, c2}
  DbusIds = {c2}
  Versions = {1, 2}
  Places <- MCPlaces
  Names = {"Default", "Other"}
  Default = "Default"
  NoName = "none"
  CheckpointNames = {"Other"}
  Descriptions <- MCDescriptions
  Deletions <- MCDeletions
  SessionChooser = TRUE
  FailsafeClients = 1
SPECIFICATION Spec
INVARIANTS
  HeldStateExists
  SavedSessionIsWhole
  SavedSessionIsComplete
PROPERTY
  OtherSessionsKept
CHECK_DEADLOCK FALSE
