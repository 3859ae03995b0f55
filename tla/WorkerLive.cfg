SPECIFICATION FairSpec
CONSTANTS
  Provider = {lichess, stockfish}
  Local = {stockfish}
  None = None
  Serial = {b1}
  Game = {g1}
  Request = {r1, r2}
  Kinds = {"connect", "select_backend", "start_live_game", "play_move", "fetch", "shutdown"}
  MaxInbox = 1
  MaxVersion = 1
PROPERTIES
  EveryRequestSettles
  ConnectingResolves
  ShutdownCompletes
CHECK_DEADLOCK FALSE
