---------------------------- MODULE MCConnections ----------------------------
(* Two devices and two connections: a device reconnects while its old      *)
(* connection is still being torn down, or each device has one and must    *)
(* not disturb the other.                                                  *)
EXTENDS Connections

CONSTANTS g1, g2, k1, k2

MCChat == {g1, g2}
MCConn == {k1, k2}
=============================================================================
