----------------------------- MODULE MCPushSends -----------------------------
(* A phone that is given two tokens, and two handlers. *)
EXTENDS PushSends, TLC

CONSTANTS t1, t2, h1, h2
TwoTokens == {t1, t2}
TwoHandlers == {h1, h2}
Symmetry == Permutations(TwoTokens) \union Permutations(TwoHandlers)

=============================================================================
