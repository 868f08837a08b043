---------------------------- MODULE MCSgxScreen ----------------------------
(* Small instances of SgxScreen for TLC. *)
EXTENDS SgxScreen, TLC

CONSTANTS fb1, fb2, ov1

OneFb == {fb1}
TwoFbs == {fb1, fb2}
OneOverlay == {ov1}

(* Framebuffers are interchangeable. *)
FbSymmetry == Permutations(Fbs)
=============================================================================
