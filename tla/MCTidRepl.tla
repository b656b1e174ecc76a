----------------------------- MODULE MCTidRepl -----------------------------
EXTENDS TidRepl, TLC

CONSTANTS k1, k2

(* "k1" is a prefix of what the packet of k2 holds. *)
FirstPrefixesSecond == {<< k1, k2 >>}

Symmetry == Permutations(Keys) \cup Permutations(Workers)

=============================================================================
