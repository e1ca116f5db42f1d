-------------------------- MODULE MCSidecarInstall --------------------------
(* Three calls: two that overlap and one that comes after, or that retries *)
(* what two others have left.                                              *)
EXTENDS SidecarInstall, TLC

CONSTANTS i1, i2, i3

MCInstaller == {i1, i2, i3}

CallSymmetry == Permutations(MCInstaller)
=============================================================================
