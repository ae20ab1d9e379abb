----------------------------- MODULE MCRequests -----------------------------
(* Handlers, emails and phones are interchangeable; rows are numbered.      *)
EXTENDS Requests, TLC

Symmetry == Permutations(Tx) \cup Permutations(Email) \cup Permutations(Phone)
=============================================================================
