------------------------------- MODULE Arena -------------------------------
(***************************************************************************)
(* The rules of play as libchess-stockfish sees them through libchess-rules,*)
(* and the pure part of a local game: how its snapshot (LiveGame) changes   *)
(* when a move is replayed, a turn is taken back or the game is adjudicated.*)
(*                                                                         *)
(* Positions and moves are abstract.  libchess_rules::reconstruct replays   *)
(* the whole move list from the initial FEN each time; here a line carries  *)
(* the position before each of its moves, so that replaying a prefix is     *)
(* reading it off the line.  LegalLine says when that is the same thing.    *)
(***************************************************************************)
EXTENDS Naturals, Sequences

CONSTANTS
  Position,       \* the positions that can be reconstructed
  Move,           \* compact UCI move identifiers
  Legal,          \* Legal[p]: the identifiers in board.legal_moves
  After,          \* After[p][m]: the position after m is played in p
  Turn,           \* Turn[p]: the color to move
  InCheck,        \* the positions with board.in_check
  DeadMaterial,   \* the positions with insufficient material
  Openings,       \* the lines a game may be created from
  NoGame          \* stands for a game that does not exist

Color == {"white", "black"}

Opposite(c) == IF c = "white" THEN "black" ELSE "white"

\* One entry of a line: the move and the position it was played in.
Ply == [from: Position, move: Move]

\* A line is legal when every move was legal where it was played and leads to
\* the next position of the line, the last one to `at`.
LegalLine(at, path) ==
  \A i \in 1..Len(path) :
    /\ path[i].move \in Legal[path[i].from]
    /\ After[path[i].from][path[i].move] =
         IF i = Len(path) THEN at ELSE path[i + 1].from

\* No legal move, or too little material to mate: a game cannot go on here.
Terminal(p) == Legal[p] = {} \/ p \in DeadMaterial

(***************************************************************************)
(* What the proofs need of the rules of chess: a legal move leads to a      *)
(* position where the other side moves, and material that cannot mate never *)
(* becomes sufficient again.                                               *)
(***************************************************************************)
ASSUME RulesAssumption ==
  /\ Legal \in [Position -> SUBSET Move]
  /\ Turn \in [Position -> Color]
  /\ InCheck \in SUBSET Position
  /\ DeadMaterial \in SUBSET Position
  /\ \A p \in Position : \A m \in Legal[p] :
       /\ After[p][m] \in Position
       /\ Turn[After[p][m]] = Opposite(Turn[p])
       /\ p \in DeadMaterial => After[p][m] \in DeadMaterial

ASSUME OpeningsAssumption ==
  \A o \in Openings :
    /\ o.at \in Position
    /\ o.path \in Seq(Ply)
    /\ LegalLine(o.at, o.path)

-----------------------------------------------------------------------------
(***************************************************************************)
(* Snapshots.                                                              *)
(***************************************************************************)

Status == {"started", "mate", "stalemate", "draw", "resign", "aborted"}

\* A winner is named exactly when the game was won, by mate or resignation.
LiveGame ==
  { g \in [color: Color, at: Position, path: Seq(Ply),
            status: Status, winner: Color \cup {"none"}] :
      g.winner # "none" <=> g.status \in {"mate", "resign"} }

ASSUME NoGameAssumption == NoGame \notin LiveGame

\* GameStatus::is_playable; the local backend never assigns "created".
IsPlayable(g) == g.status = "started"

\* Mutant of Finish: the winner is not assigned.
FinishUnwon(g, status, winner) == [g EXCEPT !.status = status]

Finish(g, status, winner) == [g EXCEPT !.status = status, !.winner = winner]

\* replace_moves with one more identifier.
WithMove(g, m) ==
  [g EXCEPT !.at = After[g.at][m],
            !.path = Append(g.path, [from |-> g.at, move |-> m])]

\* Mutant of WithoutTurn: one ply truncated.
WithoutPly(g) ==
  LET kept == Len(g.path) - 1
  IN  [g EXCEPT !.at = g.path[kept + 1].from,
                !.path = SubSeq(g.path, 1, kept)]

\* replace_moves with the last two identifiers truncated.
WithoutTurn(g) ==
  LET kept == Len(g.path) - 2
  IN  [g EXCEPT !.at = g.path[kept + 1].from,
                !.path = SubSeq(g.path, 1, kept)]

\* Mutant of UpdateTerminal: material forgotten.
UpdateTerminalByMoves(g) ==
  IF Legal[g.at] # {} THEN g
  ELSE IF g.at \in InCheck THEN Finish(g, "mate", Opposite(Turn[g.at]))
  ELSE Finish(g, "stalemate", "none")

\* Adjudication of the position that has just been reconstructed.
UpdateTerminal(g) ==
  CASE Legal[g.at] = {} /\ g.at \in InCheck ->
         Finish(g, "mate", Opposite(Turn[g.at]))
    [] Legal[g.at] = {} /\ g.at \notin InCheck ->
         Finish(g, "stalemate", "none")
    [] Legal[g.at] # {} /\ g.at \in DeadMaterial ->
         Finish(g, "draw", "none")
    [] OTHER -> g

\* A game as create() builds it, before adjudication.
Opened(o, c) ==
  [color |-> c, at |-> o.at, path |-> o.path,
   status |-> "started", winner |-> "none"]

=============================================================================
