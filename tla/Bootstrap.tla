------------------------------ MODULE Bootstrap ------------------------------
(***************************************************************************)
(* The installation of the plugin's Python dependencies when it is loaded  *)
(* (_bootstrap.py, called first by register in __init__.py).  Every        *)
(* process of Hermes that loads the plugin goes through it: the gateway,   *)
(* and each `hermes even-g2` command, since the command is registered by   *)
(* the same function.  They share the interpreter's packages and the       *)
(* markers in the Hermes home.  pip, uv and what the operator does by hand *)
(* are external.                                                           *)
(***************************************************************************)
EXTENDS Naturals, FiniteSets

CONSTANTS
  Loader,      \* processes that load the plugin
  Version,     \* versions of the plugin: each has a marker of its own
  First,       \* the version installed at first
  MaxLifts,    \* bound: markers removed or not written, per version
  MaxKills,    \* bound: installations killed, per version
  MaxLosses    \* bound: times the packages go away

ASSUME BootstrapAssumption ==
  /\ IsFiniteSet(Loader)
  /\ First \in Version
  /\ MaxLifts \in Nat /\ MaxKills \in Nat /\ MaxLosses \in Nat

VARIABLES
  step,        \* step[p]: where process p is in loading the plugin
  loaded,      \* loaded[p]: the version p has loaded
  version,     \* the version on disk
  deps,        \* every module of RUNTIME_MODULES can be found
  marker,      \* versions with a .deps-failed marker
  losses,      \* times the packages have gone away
  wasted,      \* history: wasted[v]: installations that failed or were killed
  killed,      \* history: killed[v]: those that were killed
  lifted       \* history: lifted[v]: markers removed, or not written

boot     == <<step, loaded, version, deps, marker, losses, wasted, killed, lifted>>

Installing == {"pip", "uv", "probe"}
Steps      == {"off", "enabled", "disabled"} \cup Installing

BootTypeOK ==
  /\ step \in [Loader -> Steps]
  /\ loaded \in [Loader -> Version]
  /\ version \in Version
  /\ deps \in BOOLEAN
  /\ marker \subseteq Version
  /\ losses \in Nat
  /\ wasted \in [Version -> Nat] /\ killed \in [Version -> Nat]
  /\ lifted \in [Version -> Nat]

BootInit ==
  /\ step = [p \in Loader |-> "off"]
  /\ loaded = [p \in Loader |-> First]
  /\ version = First
  /\ deps \in BOOLEAN
  /\ marker = {}
  /\ losses = 0
  /\ wasted = [v \in Version |-> 0] /\ killed = [v \in Version |-> 0]
  /\ lifted = [v \in Version |-> 0]
-----------------------------------------------------------------------------
Goto(p, s) == step' = [step EXCEPT ![p] = s]

LoadUnlessDeps(p) ==                  \* the marker is not looked at
  /\ step[p] = "off"
  /\ Goto(p, IF deps THEN "enabled" ELSE "pip")
  /\ loaded' = [loaded EXCEPT ![p] = version]
  /\ UNCHANGED <<version, deps, marker, losses, wasted, killed, lifted>>

(* The modules are looked for first, then the marker of this version.      *)
Load(p) ==
  /\ step[p] = "off"
  /\ Goto(p, IF deps THEN "enabled"
             ELSE IF version \in marker THEN "disabled" ELSE "pip")
  /\ loaded' = [loaded EXCEPT ![p] = version]
  /\ UNCHANGED <<version, deps, marker, losses, wasted, killed, lifted>>

(* An installer ends with code 0, which need not mean that every module    *)
(* can be found afterwards.                                                *)
Installed(p) ==
  /\ step[p] \in {"pip", "uv"}
  /\ Goto(p, "probe")
  /\ deps' \in {deps, TRUE}
  /\ UNCHANGED <<loaded, version, marker, losses, wasted, killed, lifted>>

(* It cannot run, fails or times out: uv is tried after pip, if there.     *)
InstallerFails(p) ==
  /\ step[p] \in {"pip", "uv"}
  /\ \/ Goto(p, "probe")
     \/ step[p] = "pip" /\ Goto(p, "uv")
  /\ UNCHANGED <<loaded, version, deps, marker, losses, wasted, killed, lifted>>

Lift(v) ==
  /\ lifted[v] < MaxLifts
  /\ lifted' = [lifted EXCEPT ![v] = @ + 1]

(* The modules are there now: a marker that another process has left goes, *)
(* or stays when it cannot be removed.                                     *)
ProbeFinds(p) ==
  LET v == loaded[p] IN
  /\ step[p] = "probe" /\ deps
  /\ Goto(p, "enabled")
  /\ \/ v \in marker /\ marker' = marker \ {v} /\ Lift(v)
     \/ UNCHANGED <<marker, lifted>>
  /\ UNCHANGED <<loaded, version, deps, losses, wasted, killed>>

(* Still missing: the marker is written, if it can be.                     *)
ProbeMisses(p) ==
  LET v == loaded[p] IN
  /\ step[p] = "probe" /\ ~deps
  /\ Goto(p, "disabled")
  /\ wasted' = [wasted EXCEPT ![v] = @ + 1]
  /\ \/ marker' = marker \cup {v} /\ UNCHANGED lifted
     \/ Lift(v) /\ UNCHANGED marker
  /\ UNCHANGED <<loaded, version, deps, losses, killed>>

(* The process ends or is killed.  In the middle of an installation that   *)
(* leaves no marker, and the next start begins it again.                   *)
Die(p) ==
  LET v == loaded[p] IN
  /\ step[p] # "off"
  /\ Goto(p, "off")
  /\ IF step[p] \in Installing
       THEN /\ killed[v] < MaxKills
            /\ killed' = [killed EXCEPT ![v] = @ + 1]
            /\ wasted' = [wasted EXCEPT ![v] = @ + 1]
       ELSE UNCHANGED <<wasted, killed>>
  /\ UNCHANGED <<loaded, version, deps, marker, losses, lifted>>

InstallByHand ==
  /\ ~deps /\ deps' = TRUE
  /\ UNCHANGED <<step, loaded, version, marker, losses, wasted, killed, lifted>>

(* The interpreter's environment is built anew.                            *)
LoseDeps ==
  /\ deps /\ deps' = FALSE
  /\ losses < MaxLosses /\ losses' = losses + 1
  /\ UNCHANGED <<step, loaded, version, marker, wasted, killed, lifted>>

DeleteMarker(v) ==
  /\ v \in marker /\ marker' = marker \ {v}
  /\ Lift(v)
  /\ UNCHANGED <<step, loaded, version, deps, losses, wasted, killed>>

Upgrade ==
  /\ \E v \in Version \ {version} : version' = v
  /\ version = First
  /\ UNCHANGED <<step, loaded, deps, marker, losses, wasted, killed, lifted>>

Operator ==
  \/ InstallByHand \/ LoseDeps \/ Upgrade
  \/ \E v \in Version : DeleteMarker(v)

Install(p) ==
  Installed(p) \/ InstallerFails(p) \/ ProbeFinds(p) \/ ProbeMisses(p)
-----------------------------------------------------------------------------
(* However often the processes of Hermes are started, and whoever installs *)
(* at the same time, the installations of a version that failed or were    *)
(* killed are at most one for each process, one more for each of them when *)
(* a marker was removed or could not be written, and those that were       *)
(* killed: an installation that failed does not hold up another start.     *)
(* One that is killed in pip or uv does, without bound, since the marker   *)
(* is written only after the second probe (_bootstrap.py:105).             *)
InstallBudget ==
  \A v \in Version :
    wasted[v] <= Cardinality(Loader) * (1 + lifted[v]) + killed[v]
=============================================================================
