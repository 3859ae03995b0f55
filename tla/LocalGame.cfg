SPECIFICATION FairSpec
CONSTANTS
  MaxPly = 4
  First = {"white"}
  Position <- MCPosition
  Move <- MCMove
  Legal <- MCLegal
  After <- MCAfter
  Turn <- MCTurn
  InCheck <- MCInCheck
  DeadMaterial <- MCDeadMaterial
  Openings <- MCOpenings
  NoGame = NoGame
  Stream = {s1}
  MaxPipe = 2
INVARIANTS
  TypeOK
  EngineMatchesGame
  NothingUnpublished
  TakeBackNeverWaits
  LinesAreLegal
  PlayableCanGoOn
  StreamsMissNothing
PROPERTIES
  FinishedIsFinal
  KeepsPromise
  OperationsEnd
  StreamsEnd
  FinishedIsDelisted
