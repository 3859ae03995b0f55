SPECIFICATION Spec
CONSTANTS
  Provider = {lichess, stockfish}
  Local = {stockfish}
  None = None
  Serial = {b1}
  Game = {g1, g2}
  Request = {r1, r2}
  Kinds = {"select_backend", "connect", "start_live_game", "stop_live_game", "fetch", "list"}
  MaxInbox = 1
  MaxVersion = 1
PROPERTIES
  SnapshotsNeverGoBack
  AnswersAreNotLost
SYMMETRY Names
CHECK_DEADLOCK FALSE
