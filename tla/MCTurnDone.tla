----------------------------- MODULE MCTurnDone -----------------------------
(* Two connections of the device: one text of each can be in flight.       *)
EXTENDS TurnDone

CONSTANTS h1, h2

MCHandler == {h1, h2}

(* Every combination in which a call that suspends is interleaved, and the *)
(* one in which nothing suspends.                                          *)
MCSuspensions == {{}, {"drain"}, {"handle", "drain"}}
OnlyHandle    == {{"handle"}}
=============================================================================
