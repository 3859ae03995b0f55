---------------------------- MODULE MCLiveBoard -----------------------------
(***************************************************************************)
(* The moves of the opponent are only ever compared for equality, and so    *)
(* are the player's: their names do not matter.                            *)
(***************************************************************************)
EXTENDS LiveBoard

Names == Permutations(MyMove) \cup Permutations(TheirMove)

=============================================================================
