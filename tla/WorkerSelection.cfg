SPECIFICATION Spec
CONSTANTS
  Provider = {lichess, stockfish}
  Local = {stockfish}
  None = None
  Serial = {b1}
  Game = {g1}
  Request = {r1}
  Kinds = {"connect", "select_backend"}
  MaxInbox = 1
  MaxVersion = 0
INVARIANTS
  SelectionSynchronized
CHECK_DEADLOCK FALSE
