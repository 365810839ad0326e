---------------------------- MODULE MCRoomAlerts ----------------------------
(* Handlers are interchangeable; of two members one, the host, polls. *)
EXTENDS RoomAlerts, TLC

CONSTANTS a, b, w1, w2

TwoMembers == {a, b}
TwoHandlers == {w1, w2}
HandlerSymmetry == Permutations({w1, w2})
OnePolls == {b}
=============================================================================
