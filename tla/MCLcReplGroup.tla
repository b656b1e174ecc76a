--------------------------- MODULE MCLcReplGroup ---------------------------
(* Two nodes of different priority. *)
EXTENDS LcReplGroup, TLC

CONSTANTS n1, n2
Distinct == n1 :> 2 @@ n2 :> 1
=============================================================================
