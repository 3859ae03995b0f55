SPECIFICATION Spec
CONSTANTS
  TTL = 1
  MaxTime = 2
  MaxRequests = 2
  Unrelated <- MCUnrelated
  Opponents = {"level-4"}
  Variant = {"standard", "from-position", "atomic"}
  Flexible = {"standard", "from-position"}
  Initial = {0, 60}
  Increment = {2, 3, 60}
  MinDuration = 180
  Days = {3}
  Position = {"initial", "ending", "problem"}
  Start = "initial"
  Turn <- MCTurn
  Illegal = {"ending"}
  Wanted <- MCWanted
  MaxGames = 2
  None = None
INVARIANTS
  ExchangesAreOurs
  GamesAreAsReported
CHECK_DEADLOCK FALSE
