----------------------------- MODULE MCSessions -----------------------------
(* Sessions for TLC.  Accounts, tokens and login requests are told apart     *)
(* only by what happens to them.                                             *)
EXTENDS Sessions, TLC

Symmetry == Permutations(Accounts) \cup Permutations(Ids) \cup Permutations(Clients)

=============================================================================
