-------------------------- MODULE MCRevenueCatSync --------------------------
(* Two accounts, which restore one purchase back and forth. *)
EXTENDS RevenueCatSync, TLC

CONSTANTS a, b, w1, w2

TwoAccounts == {a, b}
TwoHandlers == {w1, w2}
OneHandler == {w1}
OneClient == {w2}
NoClient == {}
AccountSymmetry == Permutations({a, b})
=============================================================================
