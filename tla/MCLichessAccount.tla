-------------------------- MODULE MCLichessAccount --------------------------
(***************************************************************************)
(* Requests that differ in one thing each from one that Lichess accepts,    *)
(* and the ways a callback URL can be mangled.                             *)
(***************************************************************************)
EXTENDS LichessAccount

Clock(initial, increment) ==
  [kind |-> "clock", initial |-> initial, increment |-> increment]
Days3 == [kind |-> "days", days |-> 3]

W(opponent, variant, color, time, fen, extras) ==
  [opponent |-> opponent, variant |-> variant, color |-> color, time |-> time,
   fen |-> fen, extras |-> extras]

MCTurn == [p \in {"initial", "ending", "problem"} |->
             IF p = "problem" THEN "black" ELSE "white"]

MCWanted ==
  {W("level-4", "standard", c, Clock(60, 3), None, FALSE) :
     c \in {"white", "random"}}
  \cup {W("level-4", v, "random", [kind |-> "unlimited"], p, FALSE) :
          v \in {"standard", "from-position"},
          p \in {None, "initial", "problem"}}
  \cup {W("level-4", "atomic", "black", Days3, p, FALSE) :
          p \in {None, "problem"}}
  \cup {W("level-9", "standard", "white", Days3, None, FALSE),
        W("level-4", "standard", "white", Clock(60, 2), None, FALSE),
        W("level-4", "standard", "white", Clock(59, 60), None, FALSE),
        W("level-4", "standard", "white", Days3, None, TRUE),
        W("level-4", "standard", "white", Days3, "ending", FALSE)}

\* Another target, no state, no code, two codes, two states.
MCUnrelated ==
  {[Approval(1) EXCEPT !.ours = FALSE], [Approval(1) EXCEPT !.state = <<>>],
   [Approval(1) EXCEPT !.code = <<>>], [Approval(1) EXCEPT !.code = <<1, 1>>],
   [Approval(1) EXCEPT !.state = <<1, 2>>]}

=============================================================================
