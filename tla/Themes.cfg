SPECIFICATION Spec
CONSTANTS
  Id <- MCId
  Builtin <- MCBuiltin
  Default <- MCDefault
  Look = {"light", "dark", "broken"}
  Broken = {"broken"}
  Limit = 3
  Draft <- MCDraft
  Foreign <- MCForeign
  Remembered <- MCRemembered
  MaxEdits = 3
  MaxCrashes = 1
  None = None
INVARIANTS
  SavedCanBeLoaded
  SavedIsRegistered
  ShownIsAdvertised
CHECK_DEADLOCK FALSE
