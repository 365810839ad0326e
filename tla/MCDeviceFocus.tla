---------------------------- MODULE MCDeviceFocus ----------------------------
(* A desktop with one session, a phone with one event to report, and a tablet. *)
EXTENDS DeviceFocus, TLC

CONSTANTS desktop, phone, tablet, s1, e1, h1, h2
ThreeDevices == {desktop, phone, tablet}
OneSession == {s1}
OnDesktop == s1 :> desktop
OneEvent == {e1}
OfPhone == e1 :> phone
TwoHandlers == {h1, h2}
HandlerSymmetry == Permutations(TwoHandlers)

=============================================================================
