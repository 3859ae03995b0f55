-------------------------- MODULE MCLichessStream --------------------------
(***************************************************************************)
(* Lines for LichessStream: of every kind one that is fine in some context, *)
(* and one for each reason to refuse it.  A line of width 2 fills the       *)
(* buffer, one of width 3 is longer than a line may be.                    *)
(***************************************************************************)
EXTENDS LichessStream

Full(id, moves, fine) ==
  [type |-> "gameFull", id |-> id, start |-> "fen", moves |-> moves,
   over |-> FALSE, fine |-> fine, width |-> 1]

State(moves, over) ==
  [type |-> "gameState", moves |-> moves, over |-> over, width |-> 2]

Gone(gone) == [type |-> "opponentGone", gone |-> gone, width |-> 1]

Chat(fine, width) == [type |-> "chatLine", fine |-> fine, width |-> width]

MCLine ==
  { Full(Requested, "one", TRUE), Full("other", "one", TRUE),
    Full(Requested, "illegal", TRUE), Full(Requested, "one", FALSE),
    State("one", FALSE), State("two", TRUE), State("illegal", FALSE),
    Gone(TRUE), Gone(FALSE), Chat(TRUE, 1), Chat(TRUE, 3), Chat(FALSE, 1),
    [type |-> "gameStart", width |-> 1], [type |-> "gameFinish", width |-> 3],
    [type |-> "empty", width |-> 0], Junk }

MCLegal == {<<"fen", "one">>, <<"fen", "two">>}

=============================================================================
