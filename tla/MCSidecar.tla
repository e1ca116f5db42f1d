------------------------------ MODULE MCSidecar ------------------------------
(* Three calls of transcribe, so that an answer, a failure and a restart   *)
(* can each meet a call before and a call after them.                      *)
EXTENDS Sidecar

CONSTANTS r1, r2, r3

MCReq == {r1, r2, r3}
=============================================================================
