---------------------------- MODULE Acquisition ----------------------------
(***************************************************************************)
(* What the checkout promises an account, without locks, clocks or rows:   *)
(* payment links come into being one at a time.  While one link can still  *)
(* be paid no other can be minted, and a link that stopped being payable   *)
(* (it was paid, or it expired) never becomes payable again.               *)
(* Checkout.tla is shown to implement this specification.                  *)
(***************************************************************************)
EXTENDS FiniteSets

CONSTANT Links      \* every link that may ever be minted for the account

VARIABLES
    payable,        \* the links a customer could pay right now
    born            \* the links that have ever existed at the provider

vars == <<payable, born>>

Init == payable = {} /\ born = {}

\* A link comes into being, payable, only when no other one is.
Mint(l) ==
    /\ l \notin born
    /\ payable = {}
    /\ payable' = {l}
    /\ born' = born \union {l}

\* The provider handled a request so late that its link was dead on arrival.
MintDead(l) ==
    /\ l \notin born
    /\ born' = born \union {l}
    /\ UNCHANGED payable

\* The payable link was paid or reached its expiry.
Retire ==
    /\ payable # {}
    /\ payable' = {}
    /\ UNCHANGED born

Next == (\E l \in Links : Mint(l) \/ MintDead(l)) \/ Retire

Spec == Init /\ [][Next]_vars
=============================================================================
