---------------------------- MODULE MCLocalGame ----------------------------
(***************************************************************************)
(* A small arena for LocalGame.  A position is who moves first in the tree  *)
(* and the identifiers played so far; "b" may not be played twice in a row, *)
(* so the answer to another position may be illegal or merely wrong.       *)
(***************************************************************************)
EXTENDS LocalGame, SequencesExt

CONSTANTS MaxPly,          \* the length at which every line has ended
          First            \* the colors that may move first

MCMove == {"a", "b"}

MCPosition ==
  First \X { s \in UNION {[1..n -> MCMove] : n \in 0..MaxPly} :
               \A i \in 2..Len(s) : ~(s[i] = "b" /\ s[i - 1] = "b") }

MCLegal ==
  [p \in MCPosition |->
     IF Len(p[2]) = MaxPly THEN {}
     ELSE {m \in MCMove : m = "b" => p[2] = <<>> \/ Last(p[2]) = "a"}]

\* A move that is not legal leads nowhere.
MCAfter ==
  [p \in MCPosition |->
     [m \in MCMove |-> IF m \in MCLegal[p] THEN <<p[1], Append(p[2], m)>>
                                           ELSE p]]

MCTurn ==
  [p \in MCPosition |-> IF Len(p[2]) % 2 = 0 THEN p[1] ELSE Opposite(p[1])]

\* "b" at the first move trades everything off.
MCDeadMaterial == {p \in MCPosition : p[2] # <<>> /\ p[2][1] = "b"}

MCInCheck == {p \in MCPosition : p[2] # <<>> /\ Last(p[2]) = "a"}

\* The start, a preloaded history of two plies and one that ends dead.
MCOpenings ==
  UNION {
    { [at |-> <<f, <<>>>>, path |-> <<>>],
      [at |-> <<f, <<"a", "b">>>>,
       path |-> << [from |-> <<f, <<>>>>, move |-> "a"],
                   [from |-> <<f, <<"a">>>>, move |-> "b"] >>],
      [at |-> <<f, <<"b">>>>,
       path |-> << [from |-> <<f, <<>>>>, move |-> "b"] >>] }
    : f \in First }

=============================================================================
