------------------------------ MODULE MCStartup ------------------------------
(* The gateway and one command that load the plugin.                       *)
EXTENDS Startup

CONSTANTS gateway, command, v1, v2

MCLoader == {gateway, command}
=============================================================================
