------------------------------ MODULE TurnGame ------------------------------
(***************************************************************************)
(* What a game against the local engine promises whoever watches it: the    *)
(* snapshot changes by whole turns.  A watcher never sees a move of the     *)
(* player without the answer of the engine unless that move ended the game, *)
(* never sees a move the rules forbid, and never sees a finished game       *)
(* change.  There is no engine, no lock and no failure here: LocalGame      *)
(* shows that the code keeps this promise in spite of them.                *)
(***************************************************************************)
EXTENDS Arena

VARIABLE game     \* the snapshot a watcher can read, or NoGame

PlayersTurn(g) == Turn[g.at] = g.color

\* Either the position is adjudicated or the other side goes on.
Reaches(g, h) == \E m \in Legal[g.at] : h = UpdateTerminal(WithMove(g, m))

Init == game = NoGame

\* The game appears with the player to move, the engine having opened if it
\* had the first move, or already decided.
Begin ==
  /\ game = NoGame
  /\ \E o \in Openings, c \in Color :
       LET g == UpdateTerminal(Opened(o, c)) IN
         IF IsPlayable(g) /\ ~PlayersTurn(g)
         THEN Reaches(g, game')
         ELSE game' = g

\* The player moves and the engine answers, in one step.
FullTurn ==
  /\ game # NoGame
  /\ IsPlayable(game)
  /\ PlayersTurn(game)
  /\ \E m \in Legal[game.at] :
       LET g == UpdateTerminal(WithMove(game, m)) IN
         IF IsPlayable(g) THEN Reaches(g, game') ELSE game' = g

\* The player's move together with a draw offer, which the engine accepts.
MoveAndDraw ==
  /\ game # NoGame
  /\ IsPlayable(game)
  /\ PlayersTurn(game)
  /\ \E m \in Legal[game.at] : game' = Finish(WithMove(game, m), "draw", "none")

TakeBack ==
  /\ game # NoGame
  /\ IsPlayable(game)
  /\ Len(game.path) >= 2
  /\ game' = WithoutTurn(game)

\* Abort, resignation or an agreed draw.
End ==
  /\ game # NoGame
  /\ IsPlayable(game)
  /\ \/ game' = Finish(game, "aborted", "none")
     \/ game' = Finish(game, "resign", Opposite(game.color))
     \/ game' = Finish(game, "draw", "none")

Next == Begin \/ FullTurn \/ MoveAndDraw \/ TakeBack \/ End

Spec == Init /\ [][Next]_game

=============================================================================
