---------------------------- MODULE Startup_proofs ----------------------------
(***************************************************************************)
(* Proofs about Startup, with Bootstrap and Net, for any number of         *)
(* processes, versions, and starts.                                        *)
(***************************************************************************)
EXTENDS Startup, FiniteSetTheorems, TLAPS

LEMMA NodeIs ==
  ASSUME NEW n \in Nodes
  PROVE  n = {"tail4"} \/ n = {"tail6"} \/ n = {"tail4", "tail6"}
<1>1. n \subseteq {"tail4", "tail6"} /\ n # {}
  BY DEF Nodes, Tailnet
<1>2. CASE "tail4" \in n /\ "tail6" \in n
  BY <1>1, <1>2
<1>3. CASE "tail4" \notin n
  BY <1>1, <1>3
<1>4. CASE "tail6" \notin n
  BY <1>1, <1>4
<1>5. QED BY <1>2, <1>3, <1>4

(* What is known of the tailnet: an address of this node, IPv4 if it can   *)
(* be, or its name, or nothing.                                            *)
Information(n, ts) ==
  /\ ts.ip \in {"", "tail4", "tail6"} /\ ts.dns \in BOOLEAN
  /\ ts.ip # "" => ts.ip \in n
  /\ ts.ip = "tail6" => n = {"tail6"}
  /\ ts # None => ts.dns \/ ts.ip # ""

LEMMA InformationIs ==
  ASSUME NEW n, NEW i \in {"", "tail4", "tail6"}, NEW d \in BOOLEAN,
         i # "" => i \in n, i = "tail6" => n = {"tail6"}, d \/ i # ""
  PROVE  Information(n, [ip |-> i, dns |-> d])
<1> DEFINE ts == [ip |-> i, dns |-> d]
<1>1. ts.ip = i /\ ts.dns = d
  OBVIOUS
<1> HIDE DEF ts
<1>2. Information(n, ts)
  BY <1>1 DEF Information
<1>3. QED BY <1>2 DEF ts

LEMMA DetectIs ==
  ASSUME NEW n \in Nodes, NEW a \in Answers(n)
  PROVE  Information(n, detect_tailscale(n, a)) /\ Information(n, None)
<1>1. Information(n, None)
  BY DEF Information, None
<1>2. /\ a.installed \in BOOLEAN /\ a.json \in {"fails", "offline", "online"}
      /\ a.ips \in BOOLEAN /\ a.dns \in BOOLEAN /\ a.ip4 \in BOOLEAN
      /\ a.ip4 => "tail4" \in n
  BY DEF Answers
<1>3. TailnetIp(n) \in n /\ TailnetIp(n) \in {"tail4", "tail6"}
      /\ (TailnetIp(n) = "tail6" => n = {"tail6"})
  BY NodeIs DEF TailnetIp
<1>4. CASE ~a.installed \/ a.json = "offline"
  BY <1>1, <1>2, <1>4 DEF detect_tailscale, tailscale_status, NoTailscale
<1>5. CASE a.installed /\ a.json = "fails"
  <2>1. detect_tailscale(n, a) =
          IF a.ip4 THEN [ip |-> "tail4", dns |-> FALSE] ELSE None
    BY <1>2, <1>5 DEF detect_tailscale, tailscale_status, None
  <2>2. CASE a.ip4
    <3>1. detect_tailscale(n, a) = [ip |-> "tail4", dns |-> FALSE]
      BY <2>1, <2>2
    <3>2. QED BY <1>1, <1>2, <2>2, <3>1, InformationIs
  <2>3. CASE ~a.ip4
    BY <1>1, <2>1, <2>3
  <2>4. QED BY <2>2, <2>3
<1>6. CASE a.installed /\ a.json = "online"
  <2>1. detect_tailscale(n, a) =
          IF a.ips \/ a.dns
            THEN [ip |-> IF a.ips THEN TailnetIp(n) ELSE "", dns |-> a.dns]
            ELSE None
    BY <1>2, <1>6 DEF detect_tailscale, tailscale_status, None
  <2>2. CASE a.ips
    <3>1. detect_tailscale(n, a) = [ip |-> TailnetIp(n), dns |-> a.dns]
      BY <2>1, <2>2
    <3>2. QED BY <1>1, <1>2, <1>3, <3>1, InformationIs
  <2>3. CASE ~a.ips /\ a.dns
    <3>1. detect_tailscale(n, a) = [ip |-> "", dns |-> a.dns]
      BY <2>1, <2>3
    <3>2. QED BY <1>1, <1>2, <2>3, <3>1, InformationIs
  <2>4. CASE ~a.ips /\ ~a.dns
    BY <1>1, <2>1, <2>4
  <2>5. QED BY <2>2, <2>3, <2>4
<1>7. QED BY <1>1, <1>2, <1>4, <1>5, <1>6

LEMMA ResolveIs ==
  ASSUME NEW c \in Configs, NEW n \in Nodes, NEW a \in Answers(n)
  PROVE  \E ts : /\ Information(n, ts) /\ (c.mode = "lan" => ts = None)
                 /\ resolve(c, n, a) =
                      [bind |-> bind_host(c, ts), host |-> preferred_host(c, ts)]
<1> DEFINE ts == IF c.mode = "lan" THEN None ELSE detect_tailscale(n, a)
<1>1. Information(n, ts) /\ (c.mode = "lan" => ts = None)
  BY DetectIs
<1>2. resolve(c, n, a) = [bind |-> bind_host(c, ts), host |-> preferred_host(c, ts)]
  BY DEF resolve
<1>3. QED BY <1>1, <1>2

LEMMA ResolveType ==
  ASSUME NEW c \in Configs, NEW n \in Nodes, NEW a \in Answers(n)
  PROVE  resolve(c, n, a) \in [bind : Addresses, host : Addresses]
<1>1. PICK ts : /\ Information(n, ts)
                /\ resolve(c, n, a) =
                     [bind |-> bind_host(c, ts), host |-> preferred_host(c, ts)]
  BY ResolveIs
<1>2. c.host \in Hosts
  BY DEF Configs
<1>3. bind_host(c, ts) \in Addresses /\ preferred_host(c, ts) \in Addresses
  BY <1>1, <1>2 DEF Information, bind_host, preferred_host, TailnetHost, Addresses,
     Tailnet
<1>4. QED BY <1>1, <1>3

(* What connect binds accepts connections at an address the advertised     *)
(* host leads to, for every configuration, every node and every answer of  *)
(* tailscale, but for the three cases named in Net: without them, a host   *)
(* is advertised correctly although families and names differ.             *)
THEOREM ResolveAgrees ==
  ASSUME NEW c \in Configs, NEW n \in Nodes, NEW a \in Answers(n)
  PROVE  LET b == resolve(c, n, a).bind  h == resolve(c, n, a).host IN
         Serves(b, h, n) \/ NameOnly(c, b, h) \/ WrongFamily(b, h, n)
<1> DEFINE b == resolve(c, n, a).bind
           h == resolve(c, n, a).host
<1>0. PICK ts : /\ Information(n, ts) /\ (c.mode = "lan" => ts = None)
                /\ resolve(c, n, a) =
                     [bind |-> bind_host(c, ts), host |-> preferred_host(c, ts)]
  BY ResolveIs
<1>1. /\ ts.ip \in {""} \cup n /\ (ts.ip = "tail6" => n = {"tail6"})
      /\ ts.dns \in BOOLEAN /\ (ts # None => ts.dns \/ ts.ip # "")
  BY <1>0 DEF Information
<1>2. b = bind_host(c, ts) /\ h = preferred_host(c, ts)
  BY <1>0
<1>3. c.host \in Hosts /\ c.mode \in NetModes
  BY DEF Configs
<1>4. n = {"tail4"} \/ n = {"tail6"} \/ n = {"tail4", "tail6"}
  BY NodeIs
<1> HIDE DEF b, h
<1> USE DEF Serves, Accepts, LeadsTo, Tailnet
<1>5. SUFFICES Serves(b, h, n) \/ NameOnly(c, b, h) \/ WrongFamily(b, h, n)
  BY DEF b, h
<1>6. CASE c.host = "pinned"
  <2>1. CASE c.mode = "tailnet" /\ ts # None
    <3>1. h = IF ts.dns THEN "dns" ELSE ts.ip
      BY <1>2, <2>1 DEF preferred_host, TailnetHost
    <3>2. b = IF ts.ip # "" THEN ts.ip ELSE "pinned"
      BY <1>2, <1>6, <2>1 DEF bind_host
    <3>3. CASE ts.ip = ""
      BY <1>1, <1>6, <2>1, <3>1, <3>2, <3>3 DEF NameOnly
    <3>4. CASE ts.ip # ""
      <4>1. b \in n /\ b \in Tailnet /\ h \in {"dns", b}
        BY <1>1, <1>4, <3>1, <3>2, <3>4
      <4>2. QED BY <4>1
    <3>5. QED BY <3>3, <3>4
  <2>2. CASE ~(c.mode = "tailnet" /\ ts # None)
    <3>1. b = "pinned"
      <4>1. ts = None => ts.ip = ""
        <5>1. None.ip = ""
          BY DEF None
        <5>2. QED BY <5>1
      <4>2. QED BY <1>2, <1>6, <2>2, <4>1 DEF bind_host
    <3>2. h = "pinned"
      BY <1>2, <1>6, <2>2 DEF preferred_host, Wildcards
    <3>3. QED BY <3>1, <3>2
  <2>3. QED BY <2>1, <2>2
<1>7. CASE c.host \in Wildcards
  <2>1. CASE ts # None /\ c.mode = "tailnet" /\ ts.ip # ""
    <3>1. b = ts.ip /\ h = IF ts.dns THEN "dns" ELSE ts.ip
      BY <1>2, <2>1 DEF preferred_host, TailnetHost, bind_host
    <3>2. b \in n /\ b \in Tailnet /\ h \in {"dns", b}
      BY <1>1, <1>4, <2>1, <3>1
    <3>3. QED BY <3>2
  <2>2. CASE ts # None /\ c.mode # "lan" /\ ~(c.mode = "tailnet" /\ ts.ip # "")
    <3>1. b = c.host /\ h = IF ts.dns THEN "dns" ELSE ts.ip
      BY <1>2, <1>3, <1>7, <2>2 DEF preferred_host, TailnetHost, bind_host, NetModes
    <3>2. h \in {"dns"} \cup n /\ (h = "tail6" => n = {"tail6"})
      BY <1>1, <1>4, <2>2, <3>1
    <3>3. b \in {"0.0.0.0", "::", ""}
      BY <1>7, <3>1 DEF Wildcards
    <3>4. CASE b = ""
      BY <1>4, <3>2, <3>4
    <3>5. CASE b = "0.0.0.0"
      BY <1>4, <3>2, <3>5 DEF WrongFamily
    <3>6. CASE b = "::"
      BY <1>4, <3>2, <3>6 DEF WrongFamily
    <3>7. QED BY <3>3, <3>4, <3>5, <3>6
  <2>3. CASE ts = None \/ c.mode = "lan"
    <3>1. ts = None
      BY <1>0, <2>3
    <3>2. b = c.host /\ h = "lan"
      BY <1>2, <1>7, <3>1 DEF preferred_host, bind_host, None
    <3>3. QED BY <1>7, <3>2 DEF Wildcards, WrongFamily
  <2>4. QED BY <2>1, <2>2, <2>3
<1>8. QED BY <1>3, <1>6, <1>7 DEF Hosts
-----------------------------------------------------------------------------
(* Installations.                                                          *)
N == Cardinality(Loader)

Attempts(v) == {p \in Loader : loaded[p] = v /\ step[p] \in Installing}

(* The installations that failed, those that were killed left out.         *)
Misses(v) == wasted[v] - killed[v]

(* A version that has a marker has no new attempts: those that are left    *)
(* are paid for.  One that has none has used up what was lifted.           *)
BudgetOf(v) ==
  /\ v \in marker => Misses(v) + Cardinality(Attempts(v)) <= N * lifted[v] + N
  /\ v \notin marker => Misses(v) <= N * lifted[v]

Budget == \A v \in Version : BudgetOf(v)

LEMMA NType == N \in Nat
  BY FS_CardinalityType, BootstrapAssumption DEF N, BootstrapAssumption

LEMMA Times ==
  ASSUME NEW n \in Nat, NEW l \in Nat
  PROVE  n * l \in Nat /\ n * (l + 1) = n * l + n /\ n * (1 + l) = n * l + n
  OBVIOUS

LEMMA AttemptsFinite ==
  ASSUME NEW v
  PROVE  /\ IsFiniteSet(Attempts(v)) /\ Cardinality(Attempts(v)) \in Nat
         /\ Cardinality(Attempts(v)) <= N
<1>1. Attempts(v) \in SUBSET Loader
  BY DEF Attempts
<1>2. IsFiniteSet(Attempts(v)) /\ Cardinality(Attempts(v)) <= N
  BY <1>1, FS_Subset, BootstrapAssumption DEF BootstrapAssumption, N
<1>3. QED BY <1>2, FS_CardinalityType

LEMMA AttemptsFinitePrimed ==
  ASSUME NEW v
  PROVE  /\ IsFiniteSet(Attempts(v)') /\ Cardinality(Attempts(v)') \in Nat
         /\ Cardinality(Attempts(v)') <= N
<1>1. Attempts(v)' \in SUBSET Loader
  BY DEF Attempts
<1>2. IsFiniteSet(Attempts(v)') /\ Cardinality(Attempts(v)') <= N
  BY <1>1, FS_Subset, BootstrapAssumption DEF BootstrapAssumption, N
<1>3. QED BY <1>2, FS_CardinalityType

(* The operators of Bootstrap keep its types.                              *)
BootNext ==
  \/ \E p \in Loader : Load(p) \/ Install(p) \/ Die(p)
  \/ Operator
  \/ UNCHANGED boot

LEMMA BootTypeStep == BootTypeOK /\ BootNext => BootTypeOK'
<1> SUFFICES ASSUME BootTypeOK, BootNext PROVE BootTypeOK'
  OBVIOUS
<1> USE DEF BootTypeOK, Steps, Installing
<1>1. ASSUME NEW p \in Loader, Load(p) PROVE BootTypeOK'
  BY <1>1 DEF Load, Goto
<1>2. ASSUME NEW p \in Loader, Installed(p) \/ InstallerFails(p)
      PROVE BootTypeOK'
  BY <1>2 DEF Installed, InstallerFails, Goto
<1>3. ASSUME NEW p \in Loader, ProbeFinds(p) PROVE BootTypeOK'
  BY <1>3 DEF ProbeFinds, Goto, Lift
<1>4. ASSUME NEW p \in Loader, ProbeMisses(p) PROVE BootTypeOK'
  BY <1>4 DEF ProbeMisses, Goto, Lift
<1>5. ASSUME NEW p \in Loader, Die(p) PROVE BootTypeOK'
  BY <1>5 DEF Die, Goto
<1>6. CASE Operator
  <2>1. CASE InstallByHand \/ LoseDeps
    <3>1. deps' \in BOOLEAN
      BY <2>1, Zenon DEF InstallByHand, LoseDeps
    <3>2. losses' \in Nat
      BY <2>1 DEF InstallByHand, LoseDeps
    <3>3. UNCHANGED <<step, loaded, version, marker, wasted, killed, lifted>>
      BY <2>1 DEF InstallByHand, LoseDeps
    <3>4. QED BY <3>1, <3>2, <3>3
  <2>2. CASE Upgrade
    BY <2>2 DEF Upgrade
  <2>3. ASSUME NEW v \in Version, DeleteMarker(v) PROVE BootTypeOK'
    BY <2>3 DEF DeleteMarker, Lift
  <2>4. QED BY <1>6, <2>1, <2>2, <2>3 DEF Operator
<1>7. CASE UNCHANGED boot
  BY <1>7 DEF boot
<1>q. QED BY <1>1, <1>2, <1>3, <1>4, <1>5, <1>6, <1>7 DEF BootNext, Install

(* A step that wastes nothing, and starts no attempt on a marked version.  *)
LEMMA BudgetKept ==
  ASSUME BootTypeOK, NEW v \in Version, BudgetOf(v),
         Misses(v)' = Misses(v),
         v \in marker' => Attempts(v)' \subseteq Attempts(v),
         \/ (v \in marker' <=> v \in marker) /\ lifted'[v] = lifted[v]
         \/ v \in marker /\ v \notin marker' /\ lifted'[v] = lifted[v] + 1
  PROVE  BudgetOf(v)'
<1> USE NType
<1>1. Misses(v) \in Int /\ lifted[v] \in Nat
  BY DEF BootTypeOK, Misses
<1>2. CASE v \in marker'
  <2>1. v \in marker /\ lifted'[v] = lifted[v]
    BY <1>2
  <2>2. Cardinality(Attempts(v)') <= Cardinality(Attempts(v))
    BY <1>2, AttemptsFinite, FS_Subset
  <2>3. Misses(v) + Cardinality(Attempts(v)) <= N * lifted[v] + N
    BY <2>1 DEF BudgetOf
  <2>4. Misses(v)' + Cardinality(Attempts(v)') <= N * lifted'[v] + N
    BY <1>1, <2>1, <2>2, <2>3, AttemptsFinite, AttemptsFinitePrimed, Times
  <2>5. QED BY <1>2, <2>4 DEF BudgetOf, N
<1>3. CASE v \notin marker'
  <2>1. CASE v \notin marker
    BY <1>3, <2>1 DEF BudgetOf, N
  <2>2. CASE v \in marker
    <3>1. Misses(v) + Cardinality(Attempts(v)) <= N * lifted[v] + N
      BY <2>2 DEF BudgetOf
    <3>2. lifted'[v] = lifted[v] + 1
      BY <1>3, <2>2
    <3>3. Misses(v)' <= N * lifted'[v]
      BY <1>1, <3>1, <3>2, AttemptsFinite, Times
    <3>4. QED BY <1>3, <3>3 DEF BudgetOf, N
  <2>3. QED BY <2>1, <2>2
<1>4. QED BY <1>2, <1>3

LEMMA BudgetStep == BootTypeOK /\ Budget /\ BootNext => Budget'
<1> SUFFICES ASSUME BootTypeOK, Budget, BootNext, NEW v \in Version
             PROVE BudgetOf(v)'
  BY DEF Budget
<1>0. BudgetOf(v)
  BY DEF Budget
<1>1. ASSUME NEW p \in Loader, Load(p) PROVE BudgetOf(v)'
  <2>1. UNCHANGED <<marker, lifted>> /\ Misses(v)' = Misses(v)
    BY <1>1 DEF Load, Misses
  <2>2. v \in marker => Attempts(v)' \subseteq Attempts(v)
    BY <1>1 DEF Load, Goto, Attempts, Installing, BootTypeOK
  <2>3. QED BY <1>0, <2>1, <2>2, BudgetKept
<1>2. ASSUME NEW p \in Loader, Installed(p) \/ InstallerFails(p) \/ Die(p)
      PROVE BudgetOf(v)'
  <2>1. UNCHANGED <<marker, lifted>>
    BY <1>2 DEF Installed, InstallerFails, Die
  <2>2. Misses(v)' = Misses(v)
    <3>1. CASE UNCHANGED <<wasted, killed>>
      BY <3>1 DEF Misses
    <3>2. CASE /\ killed' = [killed EXCEPT ![loaded[p]] = @ + 1]
               /\ wasted' = [wasted EXCEPT ![loaded[p]] = @ + 1]
      BY <3>2 DEF Misses, BootTypeOK
    <3>3. QED BY <1>2, <3>1, <3>2 DEF Installed, InstallerFails, Die
  <2>3. Attempts(v)' \subseteq Attempts(v)
    BY <1>2 DEF Installed, InstallerFails, Die, Goto, Attempts, Installing,
       BootTypeOK
  <2>4. QED BY <1>0, <2>1, <2>2, <2>3, BudgetKept
<1>3. ASSUME NEW p \in Loader, ProbeFinds(p) PROVE BudgetOf(v)'
  <2>1. Misses(v)' = Misses(v)
    BY <1>3 DEF ProbeFinds, Misses
  <2>2. Attempts(v)' \subseteq Attempts(v)
    BY <1>3 DEF ProbeFinds, Goto, Attempts, Installing, BootTypeOK
  <2>3. \/ (v \in marker' <=> v \in marker) /\ lifted'[v] = lifted[v]
        \/ v \in marker /\ v \notin marker' /\ lifted'[v] = lifted[v] + 1
    BY <1>3 DEF ProbeFinds, Lift, BootTypeOK
  <2>4. QED BY <1>0, <2>1, <2>2, <2>3, BudgetKept
<1>4. ASSUME NEW p \in Loader, ProbeMisses(p) PROVE BudgetOf(v)'
  <2>1. CASE loaded[p] # v
    <3>1. Misses(v)' = Misses(v) /\ lifted'[v] = lifted[v]
          /\ (v \in marker' <=> v \in marker)
      BY <1>4, <2>1 DEF ProbeMisses, Lift, BootTypeOK, Misses
    <3>2. Attempts(v)' \subseteq Attempts(v)
      BY <1>4 DEF ProbeMisses, Goto, Attempts, Installing, BootTypeOK
    <3>3. QED BY <1>0, <3>1, <3>2, BudgetKept
  <2>2. CASE loaded[p] = v
    <3>1. p \in Attempts(v) /\ Attempts(v)' = Attempts(v) \ {p}
      BY <1>4, <2>2 DEF ProbeMisses, Goto, Attempts, Installing, BootTypeOK
    <3>2. Cardinality(Attempts(v)') = Cardinality(Attempts(v)) - 1
      BY <3>1, AttemptsFinite, FS_RemoveElement
    <3>3. Misses(v)' = Misses(v) + 1 /\ Misses(v) \in Int /\ lifted[v] \in Nat
      BY <1>4, <2>2 DEF ProbeMisses, BootTypeOK, Misses
    <3>4. Misses(v) + Cardinality(Attempts(v)) <= N * lifted[v] + N
      <4>1. CASE v \in marker
        BY <1>0, <4>1 DEF BudgetOf
      <4>2. CASE v \notin marker
        <5>1. Misses(v) <= N * lifted[v]
          BY <1>0, <4>2 DEF BudgetOf
        <5>2. QED BY <3>3, <5>1, AttemptsFinite, NType, Times
      <4>3. QED BY <4>1, <4>2
    <3>5. Misses(v)' + Cardinality(Attempts(v)') <= N * lifted[v] + N
      BY <3>2, <3>3, <3>4, AttemptsFinite, NType, Times
    <3>6. CASE v \in marker' /\ lifted' = lifted
      BY <3>5, <3>6 DEF BudgetOf, N
    <3>7. CASE Lift(v) /\ marker' = marker
      <4>1. lifted'[v] = lifted[v] + 1
        BY <3>7 DEF Lift, BootTypeOK
      <4>2. N * lifted'[v] = N * lifted[v] + N
        BY <3>3, <4>1, NType, Times
      <4>3. Misses(v)' <= N * lifted'[v]
        BY <3>3, <3>5, <4>2, AttemptsFinitePrimed, NType, Times
      <4>4. Misses(v)' + Cardinality(Attempts(v)') <= N * lifted'[v] + N
        BY <3>3, <3>5, <4>2, AttemptsFinitePrimed, NType, Times
      <4>5. QED BY <4>3, <4>4 DEF BudgetOf, N
    <3>8. QED BY <1>4, <2>2, <3>6, <3>7 DEF ProbeMisses
  <2>3. QED BY <2>1, <2>2
<1>5. CASE Operator
  <2>1. Attempts(v)' = Attempts(v) /\ Misses(v)' = Misses(v)
    BY <1>5 DEF Operator, InstallByHand, LoseDeps, Upgrade, DeleteMarker,
       Attempts, Misses
  <2>2. \/ (v \in marker' <=> v \in marker) /\ lifted'[v] = lifted[v]
        \/ v \in marker /\ v \notin marker' /\ lifted'[v] = lifted[v] + 1
    BY <1>5 DEF Operator, InstallByHand, LoseDeps, Upgrade, DeleteMarker, Lift,
       BootTypeOK
  <2>3. QED BY <1>0, <2>1, <2>2, BudgetKept
<1>6. CASE UNCHANGED boot
  BY <1>0, <1>6 DEF boot, BudgetOf, Attempts, Misses
<1>q. QED BY <1>1, <1>2, <1>3, <1>4, <1>5, <1>6 DEF BootNext, Install

LEMMA NextBoot == [Next]_vars => BootNext
  BY DEF Next, vars, BootNext, Loading, Dies, Operates, Resolve, Listen,
     ListenFails, Publish, Disconnect

LEMMA InitBoot == Init => BootTypeOK /\ Budget
<1> SUFFICES ASSUME Init PROVE BootTypeOK /\ Budget
  OBVIOUS
<1>1. BootTypeOK
  BY BootstrapAssumption DEF Init, BootInit, BootTypeOK, Steps,
     BootstrapAssumption
<1>2. ASSUME NEW v \in Version PROVE BudgetOf(v)
  BY <1>2, NType, Times DEF Init, BootInit, BudgetOf, Misses
<1>3. QED BY <1>1, <1>2 DEF Budget

(* For any number of processes and starts: the installations of a version  *)
(* that failed are no more than the processes, and as many again for each  *)
(* marker that was lifted; only those that were killed come on top.        *)
THEOREM InstallBudgetCorrect == Spec => []InstallBudget
<1>1. BootTypeOK /\ Budget => InstallBudget
  <2> SUFFICES ASSUME BootTypeOK, Budget, NEW v \in Version
               PROVE wasted[v] <= Cardinality(Loader) * (1 + lifted[v]) + killed[v]
    BY DEF InstallBudget
  <2>1. wasted[v] \in Nat /\ killed[v] \in Nat /\ lifted[v] \in Nat /\ BudgetOf(v)
    BY DEF BootTypeOK, Budget
  <2>2. wasted[v] - killed[v] <= N * lifted[v] + N
    BY <2>1, AttemptsFinite, NType, Times DEF BudgetOf, Misses
  <2>3. N * (1 + lifted[v]) = N * lifted[v] + N /\ N * lifted[v] \in Nat
    BY <2>1, NType, Times
  <2>4. wasted[v] <= N * (1 + lifted[v]) + killed[v]
    BY <2>1, <2>2, <2>3, NType
  <2>5. QED BY <2>4 DEF N
<1>2. QED BY <1>1, InitBoot, NextBoot, BootTypeStep, BudgetStep, PTL DEF Spec
-----------------------------------------------------------------------------
(* Addresses.  What connect goes by is one answer of tailscale.            *)
Resolved(b, h) ==
  \E a \in Answers(node) : resolve(cfg, node, a) = [bind |-> b, host |-> h]

ConnInv ==
  /\ cfg \in Configs /\ node \in Nodes
  /\ conn = "resolved" => Resolved(plan.bind, plan.host)
  /\ conn = "listening" => Resolved(plan.bind, plan.host) /\ bound = plan.bind
  /\ conn = "connected" => Resolved(bound, url)

LEMMA ConnStep == ConnInv /\ [Next]_vars => ConnInv'
<1> SUFFICES ASSUME ConnInv, [Next]_vars PROVE ConnInv'
  OBVIOUS
<1> USE DEF ConnInv, Resolved
<1>1. CASE UNCHANGED network
  BY <1>1 DEF network
<1>2. CASE Resolve
  <2>1. PICK a \in Answers(node) : plan' = resolve(cfg, node, a)
    BY <1>2 DEF Resolve
  <2>2. plan' = [bind |-> plan'.bind, host |-> plan'.host]
    BY <2>1 DEF resolve
  <2>3. QED BY <1>2, <2>1, <2>2 DEF Resolve
<1>3. CASE Listen
  BY <1>3 DEF Listen
<1>4. CASE Publish
  BY <1>4 DEF Publish
<1>5. CASE ListenFails \/ Disconnect
  BY <1>5 DEF ListenFails, Disconnect, Idle
<1>6. ASSUME NEW p \in Loader, Dies(p) PROVE ConnInv'
  BY <1>6 DEF Dies, Idle
<1>q. QED BY <1>1, <1>2, <1>3, <1>4, <1>5, <1>6 DEF Next, vars, Loading, Operates

(* While the bridge is connected, the URL it publishes leads to an address *)
(* it accepts connections at, but for the three cases of ResolveAgrees.    *)
THEOREM AdvertisedIsServedCorrect == Spec => []AdvertisedIsServed
<1>1. Init => ConnInv
  BY DEF Init, ConnInv
<1>2. ConnInv => AdvertisedIsServed
  <2> SUFFICES ASSUME ConnInv, conn = "connected"
               PROVE AdvertisedIsServed
    BY DEF AdvertisedIsServed
  <2>1. PICK a \in Answers(node) :
          resolve(cfg, node, a) = [bind |-> bound, host |-> url]
    BY DEF ConnInv, Resolved
  <2>2. cfg \in Configs /\ node \in Nodes
    BY DEF ConnInv
  <2>3. QED BY <2>1, <2>2, ResolveAgrees DEF AdvertisedIsServed
<1>3. QED BY <1>1, <1>2, ConnStep, PTL DEF Spec

(* The types hold of every reachable state.                                *)
THEOREM TypeCorrect == Spec => []TypeOK
<1>1. Init => TypeOK
  BY InitBoot DEF Init, TypeOK, NoPlan, Addresses, Hosts, Wildcards
<1>2. TypeOK /\ [Next]_vars => TypeOK'
  <2> SUFFICES ASSUME TypeOK, [Next]_vars PROVE TypeOK'
    OBVIOUS
  <2>1. BootTypeOK'
    BY BootTypeStep, NextBoot DEF TypeOK
  <2>2. cfg' = cfg /\ node' = node /\ token' = token
    BY DEF Next, vars, network, Loading, Dies, Operates, Resolve, Listen,
       ListenFails, Publish, Disconnect
  <2>3. plan' \in [bind : Addresses, host : Addresses]
    <3>1. CASE Resolve
      <4>1. PICK a \in Answers(node) : plan' = resolve(cfg, node, a)
        BY <3>1 DEF Resolve
      <4>2. QED BY <4>1, ResolveType DEF TypeOK
    <3>2. CASE plan' = NoPlan
      BY <3>2 DEF NoPlan, Addresses, Hosts, Wildcards
    <3>3. CASE plan' = plan
      BY <3>3 DEF TypeOK
    <3>4. QED BY <3>1, <3>2, <3>3 DEF Next, vars, network, Loading, Dies, Operates,
          Listen, ListenFails, Publish, Disconnect, Idle
  <2>4. /\ conn' \in {"idle", "resolved", "listening", "connected"}
        /\ bound' \in Addresses \cup {"none"} /\ url' \in Addresses \cup {"none"}
    BY DEF Next, vars, network, Loading, Dies, Operates, Resolve,
       Listen, ListenFails, Publish, Disconnect, Idle, TypeOK
  <2>5. QED BY <2>1, <2>2, <2>3, <2>4 DEF TypeOK
<1>3. QED BY <1>1, <1>2, PTL DEF Spec
=============================================================================
