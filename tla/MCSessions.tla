------------------------------ MODULE MCSessions ------------------------------
(* One device with two handlers, for reconnects that overlap an operation, *)
(* and two devices, so that a session can be shared.                       *)
EXTENDS Sessions

CONSTANTS g1, g2, h1, h2, s1, s2, s3

MCChat1 == {g1}
MCChat2 == {g1, g2}
MCHandler1 == {h1}
MCHandler2 == {h1, h2}
MCSession == {s1, s2, s3}
MCSession2 == {s1, s2}
=============================================================================
