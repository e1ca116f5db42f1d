------------------------------- MODULE Startup -------------------------------
(***************************************************************************)
(* How the gateway comes to serve the glasses: the plugin is loaded        *)
(* (Bootstrap), register enables the platform, and EvenG2Adapter.connect   *)
(* resolves the addresses (Net) on a worker thread, binds, and publishes   *)
(* them in the status file.  Tailscale goes up and down meanwhile: it may  *)
(* answer differently each time it is asked.                               *)
(***************************************************************************)
EXTENDS Bootstrap, Net

CONSTANT Gateway  \* the loader that is the gateway

ASSUME StartupAssumption == Gateway \in Loader

VARIABLES
  cfg,        \* the host and mode that are configured
  node,       \* the tailnet addresses of this node
  token,      \* a token is configured
  conn,       \* the step connect is at
  plan,       \* the addresses connect has resolved
  bound,      \* the address the server is bound to, or "none"
  url         \* the host of connect_url in the status file, or "none"

network == <<cfg, node, token, conn, plan, bound, url>>
vars    == <<boot, network>>

Addresses == Hosts \cup Tailnet \cup {"dns", "lan"}
NoPlan    == [bind |-> "0.0.0.0", host |-> "lan"]

TypeOK ==
  /\ BootTypeOK
  /\ cfg \in Configs /\ node \in Nodes /\ token \in BOOLEAN
  /\ conn \in {"idle", "resolved", "listening", "connected"}
  /\ plan \in [bind : Addresses, host : Addresses]
  /\ bound \in Addresses \cup {"none"} /\ url \in Addresses \cup {"none"}

Init ==
  /\ BootInit
  /\ cfg \in Configs /\ node \in Nodes /\ token \in BOOLEAN
  /\ conn = "idle" /\ plan = NoPlan
  /\ bound = "none" /\ url = "none"
-----------------------------------------------------------------------------
(* The gateway asks check_fn, builds the adapter and calls connect.        *)
Resolve ==
  /\ conn = "idle" /\ step[Gateway] = "enabled" /\ token
  /\ conn' = "resolved"
  /\ \E a \in Answers(node) : plan' = resolve(cfg, node, a)
  /\ UNCHANGED <<boot, cfg, node, token, bound, url>>

(* BridgeServer.start.                                                     *)
Listen ==
  /\ conn = "resolved"
  /\ conn' = "listening"
  /\ bound' = plan.bind
  /\ UNCHANGED <<boot, cfg, node, token, plan, url>>

Idle == conn' = "idle" /\ plan' = NoPlan /\ bound' = "none"

(* The address is taken or gone; connect raises, and may be called again.  *)
ListenFails ==
  /\ conn = "resolved" /\ Idle
  /\ UNCHANGED <<boot, cfg, node, token, url>>

PublishDetectedAgain ==               \* the URL is of a second detection
  /\ conn = "listening"
  /\ conn' = "connected"
  /\ \E a \in Answers(node) : url' = resolve(cfg, node, a).host
  /\ UNCHANGED <<boot, cfg, node, token, plan, bound>>

Publish ==
  /\ conn = "listening"
  /\ conn' = "connected"
  /\ url' = plan.host
  /\ UNCHANGED <<boot, cfg, node, token, plan, bound>>

(* The status file cannot be written: the server is stopped.  Or disconnect *)
(* is called.                                                              *)
Disconnect ==
  /\ conn \in {"listening", "connected"} /\ Idle
  /\ UNCHANGED <<boot, cfg, node, token, url>>

Dies(p) ==
  /\ Die(p)
  /\ IF p = Gateway THEN Idle ELSE UNCHANGED <<conn, plan, bound>>
  /\ UNCHANGED <<cfg, node, token, url>>

Loading(p) == (Load(p) \/ Install(p)) /\ UNCHANGED network

Operates == Operator /\ UNCHANGED network

Next ==
  \/ \E p \in Loader : Loading(p) \/ Dies(p)
  \/ Resolve \/ Listen \/ ListenFails \/ Publish \/ Disconnect \/ Operates

Spec == Init /\ [][Next]_vars
-----------------------------------------------------------------------------
(* Properties.                                                             *)

(* While the bridge is connected, the URL in the status file leads to an   *)
(* address it accepts connections at, whatever Tailscale did while it was  *)
(* starting.  Three cases are excepted, in which the code advertises an    *)
(* address nobody listens at: NameOnly and the two of WrongFamily.         *)
AdvertisedIsServed ==
  conn = "connected" =>
    Serves(bound, url, node) \/ NameOnly(cfg, bound, url) \/ WrongFamily(bound, url, node)
=============================================================================
