---------------------------- MODULE MCTrialLedger ----------------------------
(* The instance of TrialLedger for TLC. *)
EXTENDS TrialLedger, TLC
CONSTANTS a, b, m, n, d1, d2, e1, x, h1, h2

TwoAccounts == {a, b}
TwoMachines == {m, n}
\* m's id is wiped once.
ThreeIds == {d1, d2, e1}
StoredOn == [id \in ThreeIds |-> IF id = e1 THEN n ELSE m]
OneApple == {x}
TwoHandlers == {h1, h2}
\* Accounts, handlers, and the two ids of one machine are interchangeable.
Symmetry == Permutations(TwoAccounts) \union Permutations(TwoHandlers)
              \union Permutations({d1, d2})
=============================================================================
