---------------------------- MODULE MCStudyRoom ----------------------------
(* Two friends are interchangeable, and so are handlers. *)
EXTENDS StudyRoom, TLC

CONSTANTS h, a, b, w1, w2

HostAndTwo == {h, a, b}
TheHost == h
TwoHandlers == {w1, w2}
GuestAndHandlerSymmetry == Permutations({a, b}) \union Permutations({w1, w2})
=============================================================================
