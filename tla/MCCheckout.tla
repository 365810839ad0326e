----------------------------- MODULE MCCheckout -----------------------------
(* Instances of Checkout for TLC: a handful of requests against one account. *)
EXTENDS Checkout, TLC

\* Requests are interchangeable until they arrive; no property names one.
RequestSymmetry == Permutations(Requests)

\* Recurring and one-time plans behave differently, two recurring ones alike.
RecurringAndLifetime == {"monthly", "lifetime"}
=============================================================================
