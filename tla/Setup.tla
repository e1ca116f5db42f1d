-------------------------------- MODULE Setup --------------------------------
(***************************************************************************)
(* The one-click setup (setup_flow.py), run by the dashboard's backend     *)
(* (dashboard/plugin_api.py, a process that stays) and by                  *)
(* `hermes even-g2 setup` (cli.py, a process of its own each time), next   *)
(* to a gateway that reads the settings when it starts, and to a user who  *)
(* edits the .env file by hand.                                            *)
(*                                                                         *)
(* A process has the settings of the .env file in its environment from its *)
(* start and never looks again; setup changes both, one key at a time.     *)
(* save_env_value of hermes_cli replaces a key atomically; without it the  *)
(* file is read, emptied and written.  A setting is a number: the token's  *)
(* ordinal (0: none), a port (1: 8765), the HTTPS port of the app URL (0:  *)
(* no URL), and for host and net 1 for what setup wants, 127.0.0.1 and     *)
(* lan, and 0 for anything else.                                           *)
(* "rest" stands for the keys of other programs.                           *)
(***************************************************************************)
EXTENDS Naturals

CONSTANTS
  Dash,         \* threads of the dashboard's backend
  Cli,          \* processes of the setup command
  HttpsPort,    \* ports for `tailscale serve`
  ByHand,       \* keys that a user edits by hand
  WsPort,       \* ports of the bridge that a user sets
  Start,        \* what the user may have set before all this
  MaxRequests,  \* bound: setups and serves begun, and edits by hand
  MaxFaults     \* bound: failures, and restarts of the dashboard

ASSUME SetupAssumption ==
  /\ {"dash", "gateway"} \cap Cli = {} /\ Dash \cap Cli = {}
  /\ ByHand \subseteq {"token", "host", "net", "port"}
  /\ HttpsPort \subseteq Nat \ {0} /\ WsPort \subseteq Nat
  /\ Start \subseteq [{"token", "host", "net", "port"} -> Nat]
  /\ MaxRequests \in Nat /\ MaxFaults \in Nat

VARIABLES
  running,      \* the gateway and the commands that run
  file,         \* the .env file
  env,          \* env[p]: the environment of the dashboard or a command
  at,           \* at[r]: the key that request r saves now, or where it is
  phase,        \* phase[r]: how far the save of that key is
  want,         \* want[r]: the values r saves
  copy,         \* copy[r]: the lines r has read
  news,         \* news[r]: r has generated a token, wants a restart
  native,       \* hermes_cli can be imported
  serving,      \* ports that `tailscale serve` exposes
  conf,         \* the settings the gateway has read
  shown,        \* tokens that were shown to the user, or are the user's own
  announced,    \* a restart was asked for since the gateway started
  promised,     \* history: the values that were saved last, until torn
  unseen,       \* unseen[p]: history, keys the user edited after p had read
                \* the file, or that another such process then overwrote
  touched,      \* history: keys that were edited, or overwritten by a process
                \* that had not seen the edit, since the gateway started
  failed,       \* history: a request failed or died
  torn,         \* history: a save met another one between read and write,
                \* or the file was read or left empty
  tokens, requests, faults

vars == <<running, file, env, at, phase, want, copy, news, native, serving,
          conf, shown, announced, promised, unseen, touched, failed, torn,
          tokens, requests, faults>>
userVars == <<unseen, touched>>

Key      == {"token", "host", "net", "port", "url", "serve", "rest"}
Settings == [Key -> Nat]
Request  == Dash \cup Cli
Process  == Cli \cup {"dash"}
Proc(r)  == IF r \in Cli THEN r ELSE "dash"

(* The keys that need a restart of the gateway.                            *)
Restarting == {"token", "host", "net", "port"}

(* What a user may set: a token of his own, any host and mode, a port.     *)
Value(k, token) ==
  CASE k = "token" -> {token} [] k \in {"host", "net"} -> {0, 1}
    [] k = "port" -> WsPort

Empty == [k \in Key |-> IF k \in {"port", "serve"} THEN 1 ELSE 0]

(* The key that is saved after k.                                          *)
Following ==
  [token |-> "host", host |-> "net", net |-> "port", port |-> "return",
   url |-> "serve", serve |-> "end", rest |-> "end"]

TypeOK ==
  /\ running \subseteq Cli \cup {"gateway"}
  /\ file \in Settings /\ conf \in Settings /\ promised \in Settings
  /\ env \in [Process -> Settings]
  /\ at \in [Request -> Key \cup {"idle", "return", "ask", "end"}]
  /\ phase \in [Request -> {"save", "read", "cut"}]
  /\ \A r \in Request : phase[r] # "save" => at[r] \in Key
  /\ want \in [Request -> Settings] /\ copy \in [Request -> Settings]
  /\ news \in [Request -> [token : BOOLEAN, restart : BOOLEAN]]
  /\ native \in BOOLEAN
  /\ serving \subseteq HttpsPort
  /\ shown \subseteq Nat
  /\ unseen \in [Process -> SUBSET Restarting] /\ touched \subseteq Restarting
  /\ {announced, failed, torn} \subseteq BOOLEAN
  /\ {tokens, requests, faults} \subseteq Nat

Nothing == [token |-> FALSE, restart |-> FALSE]

Init ==
  /\ running = {}
  /\ \E s \in Start :
       /\ file = [k \in Key |-> CASE k \in Restarting -> s[k] [] k = "rest" -> 1
                                [] OTHER -> Empty[k]]
       /\ tokens = s["token"] /\ shown = {s["token"]} \ {0}
  /\ env = [p \in Process |-> IF p = "dash" THEN file ELSE Empty]
  /\ at = [r \in Request |-> "idle"]
  /\ phase = [r \in Request |-> "save"]
  /\ want = [r \in Request |-> Empty] /\ copy = [r \in Request |-> Empty]
  /\ news = [r \in Request |-> Nothing]
  /\ native \in BOOLEAN
  /\ serving = {}
  /\ conf = Empty /\ promised = file
  /\ unseen = [p \in Process |-> {}] /\ touched = {}
  /\ announced = FALSE /\ failed = FALSE /\ torn = FALSE
  /\ requests = 0 /\ faults = 0

Quiet      == \A r \in Request : at[r] = "idle"
Cut        == \E r \in Request : phase[r] = "cut"
Midway(r)  == \E q \in Request \ {r} : phase[q] # "save"
-----------------------------------------------------------------------------
HostOnly(cfg, gen) ==                 \* a new token asks for no restart
  [token |-> gen, restart |-> cfg["host"] # 1 \/ cfg["net"] # 1]

FirstOnly(cfg, gen) ==                \* a replaced token is not shown
  [token |-> gen /\ cfg["token"] = 0,
   restart |-> cfg["host"] # 1 \/ cfg["net"] # 1 \/ gen]

(* What the answer of a setup will say.                                    *)
NewsOf(cfg, gen) ==
  [token |-> gen, restart |-> cfg["host"] # 1 \/ cfg["net"] # 1 \/ gen]

(* configure_local_bridge: the token is generated when the process knows   *)
(* of none or is told to; the port is saved as the process knows it.       *)
Configure(r, force) ==
  LET cfg == env[Proc(r)]
      gen == force \/ cfg["token"] = 0 IN
  /\ at[r] = "idle"
  /\ r \in Cli => r \in running
  /\ requests < MaxRequests /\ requests' = requests + 1
  /\ tokens' = IF gen THEN tokens + 1 ELSE tokens
  /\ want' = [want EXCEPT ![r] =
                [Empty EXCEPT !["token"] = tokens', !["port"] = cfg["port"],
                              !["host"] = 1, !["net"] = 1]]
  /\ news' = [news EXCEPT ![r] = NewsOf(cfg, gen)]
  /\ at' = [at EXCEPT ![r] = IF gen THEN "token" ELSE "host"]
  /\ UNCHANGED <<userVars, running, file, env, phase, copy, native, serving, conf, shown,
                 announced, promised, failed, torn, faults>>

(* A request of the dashboard, or what the command does after Configure.   *)
MayServe(r) ==
  IF r \in Cli THEN at[r] = "ask" /\ UNCHANGED requests
  ELSE /\ at[r] = "idle"
       /\ requests < MaxRequests /\ requests' = requests + 1

SaveUrlFirst(r, s) ==                 \* nothing is exposed before
  /\ MayServe(r)
  /\ want' = [want EXCEPT ![r] = [Empty EXCEPT !["url"] = s, !["serve"] = s]]
  /\ at' = [at EXCEPT ![r] = "url"]
  /\ UNCHANGED <<userVars, running, file, env, phase, copy, news, native, serving, conf,
                 shown, announced, promised, failed, torn, tokens, faults>>

(* enable_tailscale_serve: the port is exposed, then the URL is saved.     *)
Serve(r, s) ==
  /\ MayServe(r)
  /\ serving' = serving \cup {s}
  /\ want' = [want EXCEPT ![r] = [Empty EXCEPT !["url"] = s, !["serve"] = s]]
  /\ at' = [at EXCEPT ![r] = "url"]
  /\ UNCHANGED <<userVars, running, file, env, phase, copy, news, native, conf, shown,
                 announced, promised, failed, torn, tokens, faults>>

(* The request is over; a command that is over has ended.                  *)
Ends(r, e) ==
  /\ at' = [at EXCEPT ![r] = "idle"]
  /\ news' = [news EXCEPT ![r] = Nothing]
  /\ want' = [want EXCEPT ![r] = Empty]
  /\ copy' = [copy EXCEPT ![r] = Empty]
  /\ running' = running \ {r}
  /\ env' = IF r \in Cli THEN [e EXCEPT ![r] = Empty] ELSE e

(* tailscale is not there, not online or fails, or the command was told to *)
(* leave it out.  A call that times out may have exposed the port.         *)
ServeFails(r) ==
  /\ MayServe(r)
  /\ Ends(r, env)
  /\ \E s \in HttpsPort : serving' \in {serving, serving \cup {s}}
  /\ UNCHANGED <<userVars, file, phase, native, conf, shown, announced, promised,
                 failed, torn, tokens, faults>>

(* A process saves a key over an edit of it that it has not seen.          *)
Overwrites(r) ==
  LET k == at[r]  p == Proc(r) IN
  IF k \in unseen[p]
    THEN /\ touched' = IF "gateway" \in running THEN touched \cup {k} ELSE {}
         /\ unseen' = [q \in Process |-> IF q = p THEN unseen[q] \ {k}
                                                  ELSE unseen[q] \cup {k}]
    ELSE UNCHANGED userVars

(* Key at[r] is in the file now.                                           *)
Saved(r) ==
  /\ Overwrites(r)
  /\ torn' = (torn \/ Midway(r))
  /\ promised' = IF torn' THEN Empty
                 ELSE [promised EXCEPT ![at[r]] = want[r][at[r]]]
  /\ at' = [at EXCEPT ![r] = Following[at[r]]]

SetEnv(r) == env' = [env EXCEPT ![Proc(r)][at[r]] = want[r][at[r]]]

(* _save_env_value: the environment first, then by save_env_value of       *)
(* hermes_cli, or, without it or when it raises, by Read, Truncate, Write. *)
Save(r) ==
  /\ at[r] \in Key /\ phase[r] = "save" /\ native
  /\ SetEnv(r)
  /\ file' = [file EXCEPT ![at[r]] = want[r][at[r]]]
  /\ Saved(r)
  /\ UNCHANGED <<running, phase, want, copy, news, native, serving, conf,
                 shown, announced, failed, tokens, requests, faults>>

Read(r) ==
  /\ at[r] \in Key /\ phase[r] = "save"
  /\ IF native THEN faults < MaxFaults /\ faults' = faults + 1
               ELSE UNCHANGED faults
  /\ SetEnv(r)
  /\ copy' = [copy EXCEPT ![r] = file]
  /\ phase' = [phase EXCEPT ![r] = "read"]
  /\ torn' = (torn \/ Midway(r))
  /\ UNCHANGED <<userVars, running, file, at, want, news, native, serving, conf, shown,
                 announced, promised, failed, tokens, requests>>

Truncate(r) ==
  /\ phase[r] = "read"
  /\ file' = Empty
  /\ phase' = [phase EXCEPT ![r] = "cut"]
  /\ UNCHANGED <<userVars, running, env, at, want, copy, news, native, serving, conf,
                 shown, announced, promised, failed, torn, tokens, requests,
                 faults>>

WriteOnly(r) ==                       \* the other lines are not written back
  /\ phase[r] = "cut"
  /\ file' = [file EXCEPT ![at[r]] = want[r][at[r]]]
  /\ phase' = [phase EXCEPT ![r] = "save"]
  /\ Saved(r)
  /\ UNCHANGED <<running, env, want, copy, news, native, serving, conf, shown,
                 announced, failed, tokens, requests, faults>>

Write(r) ==
  /\ phase[r] = "cut"
  /\ file' = [copy[r] EXCEPT ![at[r]] = want[r][at[r]]]
  /\ phase' = [phase EXCEPT ![r] = "save"]
  /\ copy' = [copy EXCEPT ![r] = Empty]
  /\ Saved(r)
  /\ UNCHANGED <<running, env, want, news, native, serving, conf, shown,
                 announced, failed, tokens, requests, faults>>

(* Reading or writing the file raises, the command is killed, or an answer *)
(* is lost: the request is over, the environment has the value, and the    *)
(* keys after it are not saved.                                            *)
Fail(r) ==
  /\ at[r] \in Key \cup {"return"}
  /\ faults < MaxFaults /\ faults' = faults + 1
  /\ Ends(r, IF at[r] \in Key /\ r \in Dash
               THEN [env EXCEPT !["dash"][at[r]] = want[r][at[r]]] ELSE env)
  /\ phase' = [phase EXCEPT ![r] = "save"]
  /\ torn' = (torn \/ phase[r] = "cut")
  /\ failed' = TRUE
  /\ UNCHANGED <<userVars, file, native, serving, conf, shown, announced, promised,
                 tokens, requests>>

(* The answer shows a token that was generated and asks for a restart; the *)
(* command then goes on to `tailscale serve`.                              *)
Return(r) ==
  /\ at[r] = "return"
  /\ shown' = IF news[r].token THEN shown \cup {want[r]["token"]} ELSE shown
  /\ announced' = (announced \/ news[r].restart)
  /\ IF r \in Cli THEN /\ at' = [at EXCEPT ![r] = "ask"]
                       /\ UNCHANGED <<running, env, news, want, copy>>
                  ELSE Ends(r, env)
  /\ UNCHANGED <<userVars, file, phase, native, serving, conf, promised,
                 failed, torn, tokens, requests, faults>>

(* The app URL has been saved.                                             *)
ServeReturn(r) ==
  /\ at[r] = "end"
  /\ Ends(r, env)
  /\ UNCHANGED <<userVars, file, phase, native, serving, conf, shown, announced,
                 promised, failed, torn, tokens, requests, faults>>

RequestStep(r) ==
  \/ \E force \in BOOLEAN : Configure(r, force)
  \/ \E s \in HttpsPort : Serve(r, s)
  \/ ServeFails(r) \/ Save(r) \/ Read(r) \/ Truncate(r) \/ Write(r) \/ Fail(r)
  \/ Return(r) \/ ServeReturn(r)
-----------------------------------------------------------------------------
(* `hermes even-g2 setup`.                                                 *)
CommandStarts(c) ==
  /\ c \notin running /\ running' = running \cup {c}
  /\ requests < MaxRequests
  /\ env' = [env EXCEPT ![c] = file]
  /\ unseen' = [unseen EXCEPT ![c] = {}] /\ UNCHANGED touched
  /\ torn' = (torn \/ Cut)
  /\ UNCHANGED <<file, at, phase, want, copy, news, native, serving, conf,
                 shown, announced, promised, failed, tokens, requests,
                 faults>>

(* The gateway starts, with the settings of this moment for good.          *)
GatewayStarts ==
  /\ "gateway" \notin running /\ running' = running \cup {"gateway"}
  /\ conf' = file
  /\ announced' = FALSE
  /\ touched' = {} /\ UNCHANGED unseen
  /\ torn' = (torn \/ Cut)
  /\ UNCHANGED <<file, env, at, phase, want, copy, news, native, serving,
                 shown, promised, failed, tokens, requests, faults>>

(* The dashboard's backend is restarted; requests in it are lost.          *)
DashRestarts ==
  /\ faults < MaxFaults /\ faults' = faults + 1
  /\ env' = [env EXCEPT !["dash"] = file]
  /\ unseen' = [unseen EXCEPT !["dash"] = {}] /\ UNCHANGED touched
  /\ at' = [r \in Request |-> IF r \in Dash THEN "idle" ELSE at[r]]
  /\ phase' = [r \in Request |-> IF r \in Dash THEN "save" ELSE phase[r]]
  /\ news' = [r \in Request |-> IF r \in Dash THEN Nothing ELSE news[r]]
  /\ want' = [r \in Request |-> IF r \in Dash THEN Empty ELSE want[r]]
  /\ copy' = [r \in Request |-> IF r \in Dash THEN Empty ELSE copy[r]]
  /\ failed' = (failed \/ \E r \in Dash : at[r] # "idle")
  /\ torn' = (torn \/ Cut)
  /\ UNCHANGED <<running, file, native, serving, conf, shown, announced,
                 promised, tokens, requests>>

(* Or it dies.                                                             *)
GatewayStops ==
  /\ "gateway" \in running /\ running' = running \ {"gateway"}
  /\ conf' = Empty
  /\ announced' = FALSE
  /\ touched' = {} /\ UNCHANGED unseen
  /\ UNCHANGED <<file, env, at, phase, want, copy, news, native, serving,
                 shown, promised, failed, torn, tokens, requests, faults>>

(* The user edits a line of the file, and knows a token set this way.      *)
Edit(k, v) ==
  /\ requests < MaxRequests /\ requests' = requests + 1
  /\ v # file[k] /\ file' = [file EXCEPT ![k] = v]
  /\ IF k = "token" THEN tokens' = v /\ shown' = shown \cup {v}
                    ELSE UNCHANGED <<tokens, shown>>
  /\ unseen' = [p \in Process |-> unseen[p] \cup {k}]
  /\ touched' = IF "gateway" \in running THEN touched \cup {k} ELSE {}
  /\ torn' = (torn \/ \E r \in Request : phase[r] # "save")
  /\ promised' = IF torn' THEN Empty ELSE [promised EXCEPT ![k] = v]
  /\ UNCHANGED <<running, env, at, phase, want, copy, news, native, serving,
                 conf, announced, failed, faults>>

Next ==
  \/ \E r \in Request : RequestStep(r)
  \/ \E c \in Cli : CommandStarts(c)
  \/ GatewayStarts \/ GatewayStops \/ DashRestarts
  \/ \E k \in ByHand : \E v \in Value(k, tokens + 1) : Edit(k, v)

Spec == Init /\ [][Next]_vars
-----------------------------------------------------------------------------
(* Properties.                                                             *)

Served(u) == u = 0 \/ u \in serving

(* An app URL that anything keeps or shows (the file, a process, the       *)
(* running gateway) is one that `tailscale serve` has been told to expose, *)
(* whatever failed or ran at the same time.                                *)
UrlIsServed ==
  /\ Served(file["url"]) /\ Served(conf["url"]) /\ Served(promised["url"])
  /\ \A p \in Process : Served(env[p]["url"])
  /\ \A r \in Request : Served(want[r]["url"]) /\ Served(copy[r]["url"])

(* The file holds what was saved last for each key, keys of other programs *)
(* included: the saves of different processes do not undo one another.     *)
(* Without hermes_cli this needs that no other save, no start and no       *)
(* failure comes between the reading of the file and its writing.          *)
SavedIsKept == ~torn /\ ~Cut => file = promised

(* A token that is in force is one the user has been shown, in whatever    *)
(* order requests and commands are done, unless one of them failed: the    *)
(* token is saved first and shown last.                                    *)
TokenKnown == Quiet /\ ~failed => file["token"] \in shown \cup {0}

(* When no setup is in progress, the gateway runs with the token, host,    *)
(* mode and port of the file, or the user was told to restart it, whoever  *)
(* ran setup and whatever had been set before.  It is the user who knows   *)
(* of a value edited by hand since the gateway started.  Two cases are     *)
(* excepted in which the code does not tell the user: a setup that failed  *)
(* and is repeated in the same process, and a process that overwrites an   *)
(* edit it has not seen, because restart_required compares with the        *)
(* process's own environment (setup_flow.py:121).                          *)
RestartAnnounced ==
  "gateway" \in running /\ Quiet /\ ~failed /\ ~torn =>
    \/ announced
    \/ \A k \in Restarting : conf[k] = file[k] \/ k \in touched
=============================================================================
