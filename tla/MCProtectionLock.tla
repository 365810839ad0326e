-------------------------- MODULE MCProtectionLock --------------------------
(* One account and its partner, and two handlers. *)
EXTENDS ProtectionLock, TLC

CONSTANTS u1, p1, h1, h2
OneUser == {u1}
OnePartner == {p1}
TwoHandlers == {h1, h2}
Symmetry == Permutations(TwoHandlers)

=============================================================================
