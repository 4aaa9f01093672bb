------------------------------ MODULE MCSessions ------------------------------
(* Small instances of Sessions for TLC. *)
EXTENDS Sessions, TLC

Interchangeable ==
  Permutations(Users) \cup Permutations(Orgs) \cup Permutations(Passwords)
    \cup Permutations(Workers)
===============================================================================
