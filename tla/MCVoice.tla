------------------------------- MODULE MCVoice -------------------------------
(* Two handlers, so that one command changes the model under the other,    *)
(* and a model of either kind.                                             *)
EXTENDS Voice

CONSTANTS h1, h2, parakeet, tiny

MCHandler == {h1, h2}
MCModel == {parakeet, tiny}
MCFluid == {parakeet}
=============================================================================
