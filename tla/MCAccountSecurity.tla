-------------------------- MODULE MCAccountSecurity --------------------------
(* Instances of AccountSecurity for TLC. *)
EXTENDS AccountSecurity, TLC

(* Random ids and request slots are interchangeable; no liveness is checked. *)
Symmetry == Permutations(Cookies) \cup Permutations(Links) \cup Permutations(Requests)

=============================================================================
