--------------------------------- MODULE Net ---------------------------------
(***************************************************************************)
(* The choice of the address the bridge binds and of the address it        *)
(* advertises (net.py).  An address is "dns" (the tailnet name of this     *)
(* node), "tail4" or "tail6" (its tailnet addresses), "lan" (the IPv4      *)
(* address of the default route), or the host that was configured: a       *)
(* wildcard, nothing (""), or "pinned", the one interface it is pinned to. *)
(* The node has tailnet addresses of one family or of both.                *)
(***************************************************************************)

Wildcards == {"0.0.0.0", "::", ""}
Hosts     == Wildcards \cup {"pinned"}
NetModes  == {"both", "tailnet", "lan"}
Configs   == [host : Hosts, mode : NetModes]
Tailnet   == {"tail4", "tail6"}
Nodes     == (SUBSET Tailnet) \ {{}}

(* What the tailscale command answers: whether it is there, how            *)
(* `status --json` ends, whether that has the addresses and the name of    *)
(* the node, and whether `ip -4` has one.  What is not asked for is FALSE. *)
Answers(node) ==
  {a \in [installed : BOOLEAN, json : {"fails", "offline", "online"},
          ips : BOOLEAN, dns : BOOLEAN, ip4 : BOOLEAN] :
     /\ a.json = "online" \/ (~a.ips /\ ~a.dns)
     /\ a.ip4 => a.json = "fails" /\ "tail4" \in node
     /\ a.installed \/ (a.json = "fails" /\ ~a.ip4)}

NoTailscale == [installed |-> FALSE, online |-> FALSE, ip |-> "", dns |-> FALSE]

(* The address starting with 100. is preferred, the IPv4 one.              *)
TailnetIp(node) == IF "tail4" \in node THEN "tail4" ELSE "tail6"

tailscale_status(node, a) ==
  CASE ~a.installed -> NoTailscale
    [] a.installed /\ a.json = "fails" ->
         [installed |-> TRUE, online |-> a.ip4,
          ip |-> IF a.ip4 THEN "tail4" ELSE "", dns |-> FALSE]
    [] a.installed /\ a.json = "offline" ->
         [NoTailscale EXCEPT !.installed = TRUE]
    [] a.installed /\ a.json = "online" ->
         [installed |-> TRUE, online |-> a.ips \/ a.dns,
          ip |-> IF a.ips THEN TailnetIp(node) ELSE "", dns |-> a.dns]

None == [ip |-> "", dns |-> FALSE]

(* None stands for no information: a node that is offline has no address.  *)
detect_tailscale(node, a) ==
  LET ts == tailscale_status(node, a) IN
  IF ts.installed /\ ts.online THEN [ip |-> ts.ip, dns |-> ts.dns] ELSE None

TailnetHost(ts) == IF ts.dns THEN "dns" ELSE ts.ip

(* preferred_connect_url: the host in it.                                  *)
preferred_host(cfg, ts) ==
  IF ts # None
       /\ (cfg.mode = "tailnet" \/ (cfg.mode = "both" /\ cfg.host \in Wildcards))
    THEN TailnetHost(ts)
    ELSE IF cfg.host \notin Wildcards THEN cfg.host ELSE "lan"

bind_host(cfg, ts) ==
  IF cfg.mode = "tailnet" /\ ts.ip # "" THEN ts.ip ELSE cfg.host

(* One detection serves both; there is none in lan mode.                   *)
resolve(cfg, node, a) ==
  LET ts == IF cfg.mode = "lan" THEN None ELSE detect_tailscale(node, a) IN
  [bind |-> bind_host(cfg, ts), host |-> preferred_host(cfg, ts)]

(* The addresses at which a server that binds b accepts connections: 0.0.0.0 *)
(* is every IPv4 address, :: is every IPv6 address and no other (asyncio     *)
(* sets IPV6_V6ONLY), and an empty host is both.                             *)
Accepts(b) ==
  CASE b = "0.0.0.0" -> {"lan", "tail4"} [] b = "::" -> {"tail6"}
    [] b = "" -> {"lan"} \cup Tailnet    [] OTHER -> {b}

(* The addresses a client tries for h: the name leads to all of the node's. *)
LeadsTo(h, node) == IF h = "dns" THEN node ELSE {h}

Serves(b, h, node) == Accepts(b) \cap LeadsTo(h, node) # {}

(* The bridge is advertised where nobody listens: a pinned host under the  *)
(* name of a node of which no address is known; 0.0.0.0 under the tailnet  *)
(* name or address of a node without IPv4; and :: under an IPv4 address.   *)
NameOnly(cfg, b, h) ==
  cfg.mode = "tailnet" /\ cfg.host = "pinned" /\ b = "pinned" /\ h = "dns"
WrongFamily(b, h, node) ==
  \/ b = "0.0.0.0" /\ node = {"tail6"} /\ h \in {"dns", "tail6"}
  \/ b = "::" /\ (h \in {"lan", "tail4"} \/ (h = "dns" /\ node = {"tail4"}))
=============================================================================
