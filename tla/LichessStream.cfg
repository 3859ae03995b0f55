SPECIFICATION Spec
CONSTANTS
  Start = {"fen"}
  Moves = {"one", "two", "illegal"}
  Legal <- MCLegal
  Line <- MCLine
  Requested = "mine"
  Limit = 2
  MaxSaid = 3
  CR = CR
  LF = LF
  NoGame = NoGame
INVARIANTS
  TypeOK
  LinesArriveWhole
  ShowsWhatWasSaid
  EndsForAReason
CHECK_DEADLOCK FALSE
