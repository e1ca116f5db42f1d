------------------------------- MODULE MCSetup -------------------------------
(* A thread of the dashboard, a command, the gateway and a user, who has   *)
(* set nothing before, or what setup wants and another port.               *)
EXTENDS Setup

CONSTANTS d1, c1

MCDash == {d1}
MCCli  == {c1}

Fresh == [token |-> 0, host |-> 0, net |-> 0, port |-> 1]
Ready == [token |-> 1, host |-> 1, net |-> 1, port |-> 2]
MCStart == {Fresh, Ready}
=============================================================================
