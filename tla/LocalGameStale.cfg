SPECIFICATION Spec
CONSTANTS
  MaxPly = 3
  First = {"white"}
  Position <- MCPosition
  Move <- MCMove
  Legal <- MCLegal
  After <- MCAfter
  Turn <- MCTurn
  InCheck <- MCInCheck
  DeadMaterial <- MCDeadMaterial
  Openings <- MCOpenings
  NoGame = NoGame
  Stream = {s1}
  MaxPipe = 2
INVARIANT
  ReplyAnswersSearch
