------------------------------ MODULE MCSignIn -------------------------------
(* The instance of SignIn for TLC. *)
EXTENDS SignIn, TLC

\* The handlers are interchangeable.
RequestSymmetry == Permutations(Requests)
=============================================================================
