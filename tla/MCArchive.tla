----------------------------- MODULE MCArchive -----------------------------
(***************************************************************************)
(* Worths for Archive: a line of a and b is good for White if it begins     *)
(* with a, and the better the longer it is.                                *)
(***************************************************************************)
EXTENDS Archive

MCWorth ==
  [l \in Line |-> IF l = <<>> THEN 0
                  ELSE IF l[1] = "a" THEN Len(l) ELSE -Len(l)]

=============================================================================
