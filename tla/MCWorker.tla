------------------------------ MODULE MCWorker ------------------------------
(***************************************************************************)
(* Requests and the serial numbers of backends are only ever compared for   *)
(* equality, so the safety runs of Worker may identify states that differ   *)
(* in their names alone.                                                   *)
(***************************************************************************)
EXTENDS Worker, TLC

Names == Permutations(Request) \cup Permutations(Serial)

=============================================================================
