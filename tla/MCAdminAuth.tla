----------------------------- MODULE MCAdminAuth -----------------------------
(* One page of one browser.  Credentials are not interchangeable, because a *)
(* new one is chosen; tasks and CSRF values are.                            *)
EXTENDS AdminAuth, TLC

Symmetry == Permutations(Task) \cup Permutations(Csrf)
=============================================================================
