SPECIFICATION Spec
CONSTANTS
  Provider = {lichess, stockfish}
  Local = {stockfish}
  None = None
  Serial = {b1, b2}
  Game = {g1}
  Request = {r1, r2}
  Kinds = {"begin_oauth", "cancel_oauth", "connect", "complete_oauth", "select_backend", "disconnect", "clear_backend_selection", "load_game_review", "watch_live_games", "start_live_game", "play_move", "refresh_account", "shutdown"}
  MaxInbox = 1
  MaxVersion = 0
INVARIANTS
  TypeOK
  ConnectedIsTrue
  ConnectingIsWorkedOn
  AuthorizingCanComplete
  TasksUseTheBackend
  NothingOutlivesTeardown
  SilentAfterStop
  PlayedWherePredicted
SYMMETRY Names
CHECK_DEADLOCK FALSE
