----------------------------- MODULE Setup_proofs -----------------------------
(***************************************************************************)
(* Proofs about Setup for any number of threads, commands and requests.    *)
(***************************************************************************)
EXTENDS Setup, TLAPS

LEMMA EmptyIs ==
  Empty \in Settings /\ Empty["url"] = 0 /\ Empty["token"] = 0
  BY DEF Empty, Settings, Key

LEMMA FollowingIs ==
  /\ Following["token"] = "host" /\ Following["host"] = "net"
  /\ Following["net"] = "port" /\ Following["port"] = "return"
  /\ Following["url"] = "serve" /\ Following["serve"] = "end"
  /\ Following["rest"] = "end"
  BY DEF Following, Key

LEMMA FollowingType == ASSUME NEW k \in Key PROVE Following[k] \in Key \cup {"return", "end"}
  BY FollowingIs DEF Key

LEMMA InitTypeOK == Init => TypeOK
<1> SUFFICES ASSUME Init PROVE TypeOK
  OBVIOUS
<1>0. PICK s \in Start :
        /\ file = [k \in Key |-> CASE k \in Restarting -> s[k] [] k = "rest" -> 1
                                 [] OTHER -> Empty[k]]
        /\ tokens = s["token"] /\ shown = {s["token"]} \ {0}
  BY DEF Init
<1>a. s \in [{"token", "host", "net", "port"} -> Nat]
  BY SetupAssumption DEF SetupAssumption
<1>b. file \in Settings
  <2>1. ASSUME NEW k \in Key PROVE file[k] \in Nat
    BY <1>0, <1>a, EmptyIs DEF Settings, Key, Restarting
  <2>2. file = [k \in Key |-> file[k]]
    BY <1>0
  <2>3. QED BY <2>1, <2>2 DEF Settings
<1>1. file \in Settings /\ conf \in Settings /\ promised \in Settings
  BY <1>b, EmptyIs DEF Init
<1>2. env \in [Process -> Settings] /\ want \in [Request -> Settings]
      /\ copy \in [Request -> Settings]
  BY <1>b, EmptyIs DEF Init
<1>3. news \in [Request -> [token : BOOLEAN, restart : BOOLEAN]]
  BY DEF Init, Nothing
<1>4. /\ at \in [Request -> Key \cup {"idle", "return", "ask", "end"}]
      /\ phase \in [Request -> {"save", "read", "cut"}]
      /\ \A r \in Request : phase[r] # "save" => at[r] \in Key
  BY DEF Init
<1>5. /\ running \subseteq Cli \cup {"gateway"} /\ serving \subseteq HttpsPort
      /\ shown \subseteq Nat /\ native \in BOOLEAN
      /\ unseen \in [Process -> SUBSET Restarting] /\ touched \subseteq Restarting
  BY <1>0, <1>a DEF Init
<1>6. {announced, failed, torn} \subseteq BOOLEAN
  BY Zenon DEF Init
<1>7. {tokens, requests, faults} \subseteq Nat
  BY <1>0, <1>a DEF Init
<1>8. QED BY <1>1, <1>2, <1>3, <1>4, <1>5, <1>6, <1>7 DEF TypeOK

(* What is saved is a setting.                                             *)
LEMMA SavedValue ==
  ASSUME TypeOK, NEW r \in Request, at[r] \in Key
  PROVE  /\ want[r][at[r]] \in Nat
         /\ Proc(r) \in Process
         /\ \A f \in Settings : [f EXCEPT ![at[r]] = want[r][at[r]]] \in Settings
         /\ [env EXCEPT ![Proc(r)][at[r]] = want[r][at[r]]]
              \in [Process -> Settings]
<1>1. want[r] \in Settings
  BY DEF TypeOK
<1>2. want[r][at[r]] \in Nat
  BY <1>1 DEF Settings
<1>3. Proc(r) \in Process
  BY DEF Proc, Process, Request
<1>4. \A f \in Settings : [f EXCEPT ![at[r]] = want[r][at[r]]] \in Settings
  BY <1>2 DEF Settings
<1>5. env[Proc(r)] \in Settings
  BY <1>3 DEF TypeOK
<1>6. [env EXCEPT ![Proc(r)] = [env[Proc(r)] EXCEPT ![at[r]] = want[r][at[r]]]]
        \in [Process -> Settings]
  BY <1>3, <1>4, <1>5 DEF TypeOK
<1>7. QED BY <1>2, <1>3, <1>4, <1>6

LEMMA EndsType ==
  ASSUME TypeOK, NEW r \in Request, NEW e \in [Process -> Settings], Ends(r, e)
  PROVE  /\ running' \subseteq Cli \cup {"gateway"}
         /\ env' \in [Process -> Settings]
         /\ at' \in [Request -> Key \cup {"idle", "return", "ask", "end"}]
         /\ want' \in [Request -> Settings] /\ copy' \in [Request -> Settings]
         /\ news' \in [Request -> [token : BOOLEAN, restart : BOOLEAN]]
         /\ \A q \in Request : q # r => at'[q] = at[q]
  BY EmptyIs DEF Ends, TypeOK, Nothing

(* The keys that are seen and touched.                                     *)
LEMMA OverwritesType ==
  ASSUME TypeOK, NEW r \in Request, at[r] \in Key, Overwrites(r)
  PROVE  unseen' \in [Process -> SUBSET Restarting] /\ touched' \subseteq Restarting
<1>1. unseen \in [Process -> SUBSET Restarting] /\ touched \subseteq Restarting
      /\ Proc(r) \in Process
  BY SavedValue DEF TypeOK
<1>2. CASE at[r] \in unseen[Proc(r)]
  BY <1>1, <1>2 DEF Overwrites
<1>3. CASE at[r] \notin unseen[Proc(r)]
  BY <1>1, <1>3 DEF Overwrites, userVars
<1>4. QED BY <1>2, <1>3

LEMMA EditType ==
  ASSUME TypeOK, NEW k \in ByHand, NEW v \in Value(k, tokens + 1), Edit(k, v)
  PROVE  k \in Restarting /\ k \in Key /\ v \in Nat
<1>1. k \in Restarting /\ WsPort \subseteq Nat /\ tokens \in Nat
  BY SetupAssumption DEF SetupAssumption, Restarting, TypeOK
<1>2. QED BY <1>1 DEF Restarting, Value, Key

LEMMA TypeOKStep == TypeOK /\ [Next]_vars => TypeOK'
<1> SUFFICES ASSUME TypeOK, [Next]_vars PROVE TypeOK'
  OBVIOUS
<1>1. CASE UNCHANGED vars
  BY <1>1 DEF vars, TypeOK, userVars
<1>2. ASSUME NEW r \in Request, NEW force \in BOOLEAN, Configure(r, force)
      PROVE TypeOK'
  <2> DEFINE cfg == env[Proc(r)]
             gen == force \/ cfg["token"] = 0
             w == [Empty EXCEPT !["token"] = tokens', !["port"] = cfg["port"],
                                !["host"] = 1, !["net"] = 1]
  <2>1. tokens' \in Nat /\ requests' \in Nat
    BY <1>2 DEF Configure, TypeOK, userVars
  <2>2. Proc(r) \in Process
    BY DEF Proc, Process, Request
  <2>3. cfg["port"] \in Nat
    BY <2>2 DEF TypeOK, Settings, Key
  <2>4. w \in Settings
    BY EmptyIs, <2>1, <2>3 DEF Settings, Key
  <2>5. want' = [want EXCEPT ![r] = w]
    BY <1>2 DEF Configure
  <2>6. want' \in [Request -> Settings]
    BY <2>4, <2>5 DEF TypeOK, userVars
  <2>7. NewsOf(cfg, gen) \in [token : BOOLEAN, restart : BOOLEAN]
    BY DEF NewsOf
  <2>8. news' \in [Request -> [token : BOOLEAN, restart : BOOLEAN]]
    BY <1>2, <2>7 DEF Configure, TypeOK, userVars
  <2>9. at' \in [Request -> Key \cup {"idle", "return", "ask", "end"}]
    BY <1>2 DEF Configure, TypeOK, userVars, Key
  <2>10. QED BY <1>2, <2>1, <2>6, <2>8, <2>9 DEF Configure, TypeOK, userVars
<1>3. ASSUME NEW r \in Request, NEW s \in HttpsPort, Serve(r, s) PROVE TypeOK'
  <2>1. [Empty EXCEPT !["url"] = s, !["serve"] = s] \in Settings
    BY EmptyIs, SetupAssumption DEF Settings, Key, SetupAssumption
  <2>2. want' \in [Request -> Settings]
    BY <1>3, <2>1 DEF Serve, TypeOK, userVars
  <2>3. at' \in [Request -> Key \cup {"idle", "return", "ask", "end"}]
    BY <1>3 DEF Serve, TypeOK, userVars, Key
  <2>4. serving' \subseteq HttpsPort /\ requests' \in Nat
    BY <1>3 DEF Serve, MayServe, TypeOK
  <2>5. QED BY <1>3, <2>2, <2>3, <2>4 DEF Serve, TypeOK, userVars
<1>4. ASSUME NEW r \in Request, ServeFails(r) PROVE TypeOK'
  <2>1. env \in [Process -> Settings] /\ Ends(r, env)
    BY <1>4 DEF ServeFails, TypeOK, userVars
  <2>2. serving' \subseteq HttpsPort /\ requests' \in Nat
    BY <1>4 DEF ServeFails, MayServe, TypeOK
  <2>3. at[r] \notin Key
    BY <1>4 DEF ServeFails, MayServe, Key
  <2>4. \A q \in Request : phase'[q] # "save" => at'[q] \in Key
    BY <1>4, <2>1, <2>3, EndsType DEF ServeFails, TypeOK, userVars
  <2>5. QED BY <1>4, <2>1, <2>2, <2>4, EndsType DEF ServeFails, TypeOK, userVars
<1>5. ASSUME NEW r \in Request, at[r] \in Key, Saved(r)
      PROVE  /\ torn' \in BOOLEAN /\ promised' \in Settings
             /\ unseen' \in [Process -> SUBSET Restarting]
             /\ touched' \subseteq Restarting
             /\ at' \in [Request -> Key \cup {"idle", "return", "ask", "end"}]
  <2>1. torn' \in BOOLEAN
    BY <1>5 DEF Saved, TypeOK
  <2>2. promised' \in Settings
    BY <1>5, SavedValue, EmptyIs DEF Saved, TypeOK
  <2>3. at' = [at EXCEPT ![r] = Following[at[r]]]
    BY <1>5 DEF Saved
  <2>4. at' \in [Request -> Key \cup {"idle", "return", "ask", "end"}]
    BY <1>5, <2>3, FollowingType DEF TypeOK, userVars
  <2>5. Overwrites(r)
    BY <1>5 DEF Saved
  <2>6. QED BY <1>5, <2>1, <2>2, <2>4, <2>5, OverwritesType
<1>5a. ASSUME NEW r \in Request, at[r] \in Key, Saved(r),
              phase' \in [Request -> {"save", "read", "cut"}],
              phase' = [phase EXCEPT ![r] = "save"]
       PROVE  \A q \in Request : phase'[q] # "save" => at'[q] \in Key
  BY <1>5a DEF Saved, TypeOK
<1>6. ASSUME NEW r \in Request, Save(r) PROVE TypeOK'
  <2>1. at[r] \in Key /\ Saved(r)
    BY <1>6 DEF Save
  <2>2. file' \in Settings /\ env' \in [Process -> Settings]
    BY <1>6, <2>1, SavedValue DEF Save, SetEnv, TypeOK
  <2>3. phase' = [phase EXCEPT ![r] = "save"]
    BY <1>6 DEF Save, TypeOK
  <2>4. QED BY <1>5, <1>5a, <1>6, <2>1, <2>2, <2>3 DEF Save, TypeOK
<1>7. ASSUME NEW r \in Request, Read(r) PROVE TypeOK'
  <2>1. at[r] \in Key
    BY <1>7 DEF Read
  <2>2. env' \in [Process -> Settings]
    BY <1>7, <2>1, SavedValue DEF Read, SetEnv, TypeOK
  <2>3. copy' \in [Request -> Settings] /\ torn' \in BOOLEAN /\ faults' \in Nat
        /\ phase' \in [Request -> {"save", "read", "cut"}]
    BY <1>7 DEF Read, TypeOK, userVars
  <2>4. QED BY <1>7, <2>2, <2>3 DEF Read, TypeOK, userVars
<1>8. ASSUME NEW r \in Request, Truncate(r) PROVE TypeOK'
  BY <1>8, EmptyIs DEF Truncate, TypeOK, userVars
<1>9. ASSUME NEW r \in Request, Write(r) PROVE TypeOK'
  <2>1. Saved(r) /\ copy[r] \in Settings /\ at[r] \in Key
    BY <1>9 DEF Write, TypeOK
  <2>2. file' \in Settings
    BY <1>9, <2>1, SavedValue DEF Write
  <2>3. copy' \in [Request -> Settings]
        /\ phase' \in [Request -> {"save", "read", "cut"}]
        /\ phase' = [phase EXCEPT ![r] = "save"]
    BY <1>9, EmptyIs DEF Write, TypeOK
  <2>4. torn' \in BOOLEAN /\ promised' \in Settings
        /\ at' \in [Request -> Key \cup {"idle", "return", "ask", "end"}]
        /\ unseen' \in [Process -> SUBSET Restarting] /\ touched' \subseteq Restarting
    BY <1>5, <2>1
  <2>5. \A q \in Request : phase'[q] # "save" => at'[q] \in Key
    BY <1>5a, <2>1, <2>3
  <2>6. QED BY <1>9, <2>2, <2>3, <2>4, <2>5 DEF Write, TypeOK
<1>10. ASSUME NEW r \in Request, Fail(r) PROVE TypeOK'
  <2> DEFINE e == IF at[r] \in Key /\ r \in Dash
                    THEN [env EXCEPT !["dash"][at[r]] = want[r][at[r]]] ELSE env
  <2>1. e \in [Process -> Settings]
    BY SavedValue, SetupAssumption DEF TypeOK, Proc, SetupAssumption
  <2>2. Ends(r, e)
    BY <1>10 DEF Fail
  <2>3. phase' = [phase EXCEPT ![r] = "save"] /\ faults' \in Nat
        /\ torn' \in BOOLEAN
    BY <1>10 DEF Fail, TypeOK, userVars
  <2>4. \A q \in Request : phase'[q] # "save" => at'[q] \in Key
    BY <2>1, <2>2, <2>3, EndsType DEF TypeOK, userVars
  <2> HIDE DEF e
  <2>5. QED BY <1>10, <2>1, <2>2, <2>3, <2>4, EndsType DEF Fail, TypeOK, userVars
<1>11. ASSUME NEW r \in Request, Return(r) PROVE TypeOK'
  <2>1. env \in [Process -> Settings] /\ at[r] = "return" /\ at[r] \notin Key
    BY <1>11 DEF Return, TypeOK, userVars, Key
  <2>2. shown' \subseteq Nat /\ announced' \in BOOLEAN
    <3>1. want[r]["token"] \in Nat
      BY DEF TypeOK, Settings, Key
    <3>2. QED BY <1>11, <3>1 DEF Return, TypeOK, userVars
  <2>3. CASE r \in Cli
    BY <1>11, <2>1, <2>2, <2>3 DEF Return, TypeOK, userVars
  <2>4. CASE r \notin Cli
    <3>1. Ends(r, env)
      BY <1>11, <2>4 DEF Return
    <3>2. \A q \in Request : phase'[q] # "save" => at'[q] \in Key
      BY <1>11, <2>1, <3>1, EndsType DEF Return, TypeOK, userVars
    <3>3. QED BY <1>11, <2>1, <2>2, <3>1, <3>2, EndsType DEF Return, TypeOK, userVars
  <2>5. QED BY <2>3, <2>4
<1>12. ASSUME NEW r \in Request, ServeReturn(r) PROVE TypeOK'
  <2>1. env \in [Process -> Settings] /\ Ends(r, env) /\ at[r] \notin Key
    BY <1>12 DEF ServeReturn, TypeOK, userVars, Key
  <2>2. \A q \in Request : phase'[q] # "save" => at'[q] \in Key
    BY <1>12, <2>1, EndsType DEF ServeReturn, TypeOK, userVars
  <2>3. QED BY <1>12, <2>1, <2>2, EndsType DEF ServeReturn, TypeOK, userVars
<1>13. ASSUME NEW c \in Cli, CommandStarts(c) PROVE TypeOK'
  BY <1>13 DEF CommandStarts, TypeOK, userVars, Process
<1>14. CASE GatewayStarts
  BY <1>14 DEF GatewayStarts, TypeOK, userVars
<1>15. CASE DashRestarts
  <2>1. env' \in [Process -> Settings] /\ faults' \in Nat
        /\ failed' \in BOOLEAN /\ torn' \in BOOLEAN
    BY <1>15 DEF DashRestarts, TypeOK, userVars, Process
  <2>2. want' \in [Request -> Settings] /\ copy' \in [Request -> Settings]
    BY <1>15, EmptyIs DEF DashRestarts, TypeOK, userVars
  <2>3. /\ at' \in [Request -> Key \cup {"idle", "return", "ask", "end"}]
        /\ phase' \in [Request -> {"save", "read", "cut"}]
        /\ \A r \in Request : phase'[r] # "save" => at'[r] \in Key
    BY <1>15 DEF DashRestarts, TypeOK, userVars
  <2>4. news' \in [Request -> [token : BOOLEAN, restart : BOOLEAN]]
    BY <1>15 DEF DashRestarts, TypeOK, userVars, Nothing
  <2>5. QED BY <1>15, <2>1, <2>2, <2>3, <2>4 DEF DashRestarts, TypeOK, userVars
<1>16. CASE GatewayStops
  BY <1>16, EmptyIs DEF GatewayStops, TypeOK, userVars
<1>17. ASSUME NEW k \in ByHand, NEW v \in Value(k, tokens + 1), Edit(k, v)
       PROVE  TypeOK'
  <2>1. k \in Restarting /\ k \in Key /\ v \in Nat
    BY <1>17, EditType
  <2>2. \A f \in Settings : [f EXCEPT ![k] = v] \in Settings
    BY <2>1 DEF Settings
  <2>3. file' \in Settings /\ promised' \in Settings
    BY <1>17, <2>2, EmptyIs DEF Edit, TypeOK
  <2>4. unseen' \in [Process -> SUBSET Restarting] /\ touched' \subseteq Restarting
    BY <1>17, <2>1 DEF Edit, TypeOK
  <2>5. tokens' \in Nat /\ shown' \subseteq Nat /\ requests' \in Nat
    <3>1. shown \subseteq Nat /\ tokens \in Nat /\ requests \in Nat
      BY DEF TypeOK
    <3>2. /\ requests' = requests + 1
          /\ \/ tokens' = v /\ shown' = shown \cup {v}
             \/ tokens' = tokens /\ shown' = shown
      BY <1>17 DEF Edit
    <3>3. requests' \in Nat
      BY <3>1, <3>2
    <3>4. tokens' \in Nat /\ shown' \subseteq Nat
      BY <2>1, <3>1, <3>2
    <3>5. QED BY <3>3, <3>4
  <2>6. torn' \in BOOLEAN
    BY <1>17, Zenon DEF Edit, TypeOK
  <2>7. QED BY <1>17, <2>3, <2>4, <2>5, <2>6 DEF Edit, TypeOK
<1>q. QED BY <1>1, <1>2, <1>3, <1>4, <1>6, <1>7, <1>8, <1>9, <1>10, <1>11,
  <1>12, <1>13, <1>14, <1>15, <1>16, <1>17 DEF Next, RequestStep

(* The types hold of every reachable state.                                *)
THEOREM TypeCorrect == Spec => []TypeOK
  BY InitTypeOK, TypeOKStep, PTL DEF Spec
-----------------------------------------------------------------------------
(* URLs.  A key that is saved is served if the request's URL is.           *)
LEMMA SavedUrl ==
  ASSUME TypeOK, NEW r \in Request, at[r] \in Key,
         Served(want[r]["url"]), NEW f \in Settings, Served(f["url"])
  PROVE  Served([f EXCEPT ![at[r]] = want[r][at[r]]]["url"])
<1>1. CASE at[r] = "url"
  BY <1>1 DEF Settings, Key
<1>2. CASE at[r] # "url"
  BY <1>2 DEF Settings, Key
<1>3. QED BY <1>1, <1>2

LEMMA SetEnvUrl ==
  ASSUME TypeOK, NEW r \in Request, at[r] \in Key, UrlIsServed, SetEnv(r),
         NEW p \in Process
  PROVE  Served(env'[p]["url"])
<1>1. Proc(r) \in Process /\ env[Proc(r)] \in Settings
  BY SavedValue DEF TypeOK
<1>2. env' = [env EXCEPT ![Proc(r)] =
                [env[Proc(r)] EXCEPT ![at[r]] = want[r][at[r]]]]
  BY DEF SetEnv
<1>3. CASE p = Proc(r)
  <2>1. env'[p] = [env[Proc(r)] EXCEPT ![at[r]] = want[r][at[r]]]
    BY <1>1, <1>2, <1>3 DEF TypeOK
  <2>2. QED BY <1>1, <2>1, SavedUrl DEF UrlIsServed
<1>4. CASE p # Proc(r)
  BY <1>2, <1>4 DEF UrlIsServed, TypeOK
<1>5. QED BY <1>3, <1>4

LEMMA EndsUrl ==
  ASSUME TypeOK, NEW r \in Request, UrlIsServed, NEW e \in [Process -> Settings],
         \A p \in Process : Served(e[p]["url"]), Ends(r, e)
  PROVE  /\ \A p \in Process : Served(env'[p]["url"])
         /\ \A q \in Request : Served(want'[q]["url"]) /\ Served(copy'[q]["url"])
  BY EmptyIs DEF Ends, TypeOK, UrlIsServed, Served

LEMMA UrlStep == TypeOK /\ UrlIsServed /\ [Next]_vars => UrlIsServed'
<1> SUFFICES ASSUME TypeOK, UrlIsServed, [Next]_vars PROVE UrlIsServed'
  OBVIOUS
<1>1. CASE UNCHANGED vars
  BY <1>1 DEF vars, UrlIsServed, Served
<1>2. ASSUME NEW r \in Request, NEW force \in BOOLEAN, Configure(r, force)
      PROVE UrlIsServed'
  <2>1. want'[r]["url"] = 0 /\ \A q \in Request : q # r => want'[q] = want[q]
    BY <1>2, EmptyIs DEF Configure, TypeOK, Settings, Key
  <2>2. QED BY <1>2, <2>1 DEF Configure, UrlIsServed, Served
<1>3. ASSUME NEW r \in Request, NEW s \in HttpsPort, Serve(r, s)
      PROVE UrlIsServed'
  <2>1. want'[r]["url"] = s /\ \A q \in Request : q # r => want'[q] = want[q]
    BY <1>3, EmptyIs DEF Serve, TypeOK, Settings, Key
  <2>2. serving' = serving \cup {s}
    BY <1>3 DEF Serve
  <2>3. QED BY <1>3, <2>1, <2>2 DEF Serve, UrlIsServed, Served
<1>4. ASSUME NEW r \in Request, ServeFails(r) PROVE UrlIsServed'
  <2>1. serving \subseteq serving' /\ Ends(r, env)
    BY <1>4 DEF ServeFails
  <2>2. /\ \A p \in Process : Served(env'[p]["url"])
        /\ \A q \in Request : Served(want'[q]["url"]) /\ Served(copy'[q]["url"])
    BY <2>1, EndsUrl DEF TypeOK, UrlIsServed
  <2>3. QED BY <1>4, <2>1, <2>2 DEF ServeFails, UrlIsServed, Served
<1>5. ASSUME NEW r \in Request, Saved(r), at[r] \in Key
      PROVE Served(promised'["url"])
  <2>1. CASE torn'
    BY <1>5, <2>1, EmptyIs DEF Saved, Served
  <2>2. CASE ~torn'
    BY <1>5, <2>2, SavedUrl DEF Saved, UrlIsServed, TypeOK
  <2>3. QED BY <2>1, <2>2
<1>6. ASSUME NEW r \in Request, Save(r) PROVE UrlIsServed'
  <2>1. Served(file'["url"])
    BY <1>6, SavedUrl DEF Save, UrlIsServed, TypeOK
  <2>2. \A p \in Process : Served(env'[p]["url"])
    BY <1>6, SetEnvUrl DEF Save
  <2>3. Served(promised'["url"])
    BY <1>5, <1>6 DEF Save
  <2>4. QED BY <1>6, <2>1, <2>2, <2>3 DEF Save, UrlIsServed, Served
<1>7. ASSUME NEW r \in Request, Read(r) PROVE UrlIsServed'
  <2>1. \A p \in Process : Served(env'[p]["url"])
    BY <1>7, SetEnvUrl DEF Read
  <2>2. \A q \in Request : Served(copy'[q]["url"])
    BY <1>7 DEF Read, UrlIsServed, TypeOK
  <2>3. QED BY <1>7, <2>1, <2>2 DEF Read, UrlIsServed, Served
<1>8. ASSUME NEW r \in Request, Truncate(r) PROVE UrlIsServed'
  BY <1>8, EmptyIs DEF Truncate, UrlIsServed, Served
<1>9. ASSUME NEW r \in Request, Write(r) PROVE UrlIsServed'
  <2>1. at[r] \in Key /\ copy[r] \in Settings /\ Saved(r)
    BY <1>9 DEF Write, TypeOK
  <2>2. Served(file'["url"])
    BY <1>9, <2>1, SavedUrl DEF Write, UrlIsServed
  <2>3. Served(promised'["url"])
    BY <1>5, <2>1
  <2>4. \A q \in Request : Served(copy'[q]["url"])
    BY <1>9, EmptyIs DEF Write, UrlIsServed, TypeOK, Served
  <2>5. QED BY <1>9, <2>2, <2>3, <2>4 DEF Write, UrlIsServed, Served
<1>10. ASSUME NEW r \in Request, Fail(r) PROVE UrlIsServed'
  <2> DEFINE e == IF at[r] \in Key /\ r \in Dash
                    THEN [env EXCEPT !["dash"][at[r]] = want[r][at[r]]] ELSE env
  <2>1. e \in [Process -> Settings]
    BY SavedValue, SetupAssumption DEF TypeOK, Proc, SetupAssumption
  <2>2. \A p \in Process : Served(e[p]["url"])
    <3>1. CASE at[r] \in Key /\ r \in Dash
      <4>1. e = [env EXCEPT !["dash"] =
                   [env["dash"] EXCEPT ![at[r]] = want[r][at[r]]]]
        BY <3>1
      <4>2. "dash" \in Process /\ env["dash"] \in Settings
        BY DEF Process, TypeOK
      <4>3. Served([env["dash"] EXCEPT ![at[r]] = want[r][at[r]]]["url"])
        BY <3>1, <4>2, SavedUrl DEF UrlIsServed
      <4>4. QED BY <4>1, <4>2, <4>3 DEF UrlIsServed, TypeOK
    <3>2. CASE ~(at[r] \in Key /\ r \in Dash)
      BY <3>2 DEF UrlIsServed
    <3>3. QED BY <3>1, <3>2
  <2>3. Ends(r, e)
    BY <1>10 DEF Fail
  <2> HIDE DEF e
  <2>4. /\ \A p \in Process : Served(env'[p]["url"])
        /\ \A q \in Request : Served(want'[q]["url"]) /\ Served(copy'[q]["url"])
    BY <2>1, <2>2, <2>3, EndsUrl
  <2>5. QED BY <1>10, <2>4 DEF Fail, UrlIsServed, Served
<1>11. ASSUME NEW r \in Request, Return(r) \/ ServeReturn(r) PROVE UrlIsServed'
  <2>1. UNCHANGED <<env, want, copy>> \/ Ends(r, env)
    BY <1>11 DEF Return, ServeReturn
  <2>2. CASE Ends(r, env)
    <3>1. /\ \A p \in Process : Served(env'[p]["url"])
          /\ \A q \in Request : Served(want'[q]["url"]) /\ Served(copy'[q]["url"])
      BY <2>2, EndsUrl DEF TypeOK, UrlIsServed
    <3>2. QED BY <1>11, <3>1 DEF Return, ServeReturn, UrlIsServed, Served
  <2>3. CASE UNCHANGED <<env, want, copy>>
    BY <1>11, <2>3 DEF Return, ServeReturn, UrlIsServed, Served
  <2>4. QED BY <2>1, <2>2, <2>3
<1>12. ASSUME NEW c \in Cli, CommandStarts(c) PROVE UrlIsServed'
  BY <1>12 DEF CommandStarts, UrlIsServed, Served, TypeOK
<1>13. CASE GatewayStarts \/ GatewayStops
  BY <1>13, EmptyIs DEF GatewayStarts, GatewayStops, UrlIsServed, Served
<1>14. CASE DashRestarts
  BY <1>14, EmptyIs DEF DashRestarts, UrlIsServed, Served, TypeOK
<1>15. ASSUME NEW k \in ByHand, NEW v \in Value(k, tokens + 1), Edit(k, v)
       PROVE  UrlIsServed'
  <2>1. k # "url"
    BY <1>15, EditType DEF Restarting
  <2>2. \A f \in Settings : [f EXCEPT ![k] = v]["url"] = f["url"]
    BY <2>1 DEF Settings, Key
  <2>3. Served(file'["url"]) /\ Served(promised'["url"])
    BY <1>15, <2>2, EmptyIs DEF Edit, TypeOK, UrlIsServed, Served
  <2>4. QED BY <1>15, <2>3 DEF Edit, UrlIsServed, Served
<1>q. QED BY <1>1, <1>2, <1>3, <1>4, <1>6, <1>7, <1>8, <1>9, <1>10, <1>11,
  <1>12, <1>13, <1>14, <1>15 DEF Next, RequestStep

(* No URL is kept or shown that tailscale was not told to serve.           *)
THEOREM UrlIsServedCorrect == Spec => []UrlIsServed
<1>1. Init => UrlIsServed
  <2> SUFFICES ASSUME Init PROVE UrlIsServed
    OBVIOUS
  <2>1. file["url"] = 0
    BY EmptyIs DEF Init, Key, Restarting
  <2>2. QED BY <2>1, EmptyIs DEF Init, UrlIsServed, Served
<1>2. QED BY <1>1, InitTypeOK, TypeOKStep, UrlStep, PTL DEF Spec
-----------------------------------------------------------------------------
(* Saves.  While nothing has been torn, at most one request is between the *)
(* read and the write of the file, and has what the file had.              *)
KeptInv ==
  ~torn =>
    /\ \A q, r \in Request : phase[q] # "save" /\ phase[r] # "save" => q = r
    /\ \A q \in Request : phase[q] # "save" => copy[q] = promised
    /\ ~Cut => file = promised

LEMMA KeptStep == TypeOK /\ KeptInv /\ [Next]_vars => KeptInv'
<1> SUFFICES ASSUME TypeOK, KeptInv, [Next]_vars, ~torn' PROVE KeptInv'
  BY DEF KeptInv
<1> USE DEF KeptInv, Cut
<1>1. CASE UNCHANGED vars
  BY <1>1 DEF vars
<1>2. ASSUME NEW r \in Request, Saved(r) \/ Read(r)
      PROVE  ~torn /\ \A q \in Request : q # r => phase[q] = "save"
  BY <1>2 DEF Saved, Read, Midway
<1>3. ASSUME NEW r \in Request, Save(r) PROVE KeptInv'
  <2>1. \A q \in Request : phase[q] = "save"
    BY <1>2, <1>3 DEF Save
  <2>2. file = promised /\ file' = promised'
    BY <1>2, <1>3, <2>1 DEF Save, Saved
  <2>3. QED BY <1>3, <2>1, <2>2 DEF Save
<1>4. ASSUME NEW r \in Request, Read(r) PROVE KeptInv'
  <2>1. \A q \in Request : phase[q] = "save"
    BY <1>2, <1>4 DEF Read
  <2>2. file = promised
    BY <1>2, <1>4, <2>1
  <2>3. \A q \in Request : phase'[q] # "save" => q = r /\ copy'[q] = file
    BY <1>4, <2>1 DEF Read, TypeOK
  <2>4. QED BY <1>4, <2>2, <2>3 DEF Read
<1>5. ASSUME NEW r \in Request, Truncate(r) PROVE KeptInv'
  <2>1. \A q \in Request : phase'[q] # "save" => phase[q] # "save"
    BY <1>5 DEF Truncate, TypeOK
  <2>2. phase'[r] = "cut"
    BY <1>5 DEF Truncate, TypeOK
  <2>3. QED BY <1>5, <2>1, <2>2 DEF Truncate
<1>6. ASSUME NEW r \in Request, Write(r) PROVE KeptInv'
  <2>1. ~torn /\ \A q \in Request : q # r => phase[q] = "save"
    BY <1>2, <1>6 DEF Write
  <2>2. copy[r] = promised
    BY <1>6, <2>1 DEF Write
  <2>3. file' = promised'
    BY <1>6, <2>2 DEF Write, Saved
  <2>4. \A q \in Request : phase'[q] = "save"
    BY <1>6, <2>1 DEF Write, TypeOK
  <2>5. QED BY <2>3, <2>4
<1>7. ASSUME NEW r \in Request, NEW e, Ends(r, e), phase[r] # "cut",
             phase' = [phase EXCEPT ![r] = "save"], UNCHANGED <<file, promised>>,
             ~torn
      PROVE KeptInv'
  <2>1. \A q \in Request : phase'[q] = IF q = r THEN "save" ELSE phase[q]
    BY <1>7 DEF TypeOK
  <2>2. \A q \in Request : q # r => copy'[q] = copy[q]
    BY <1>7 DEF Ends, TypeOK
  <2>3. Cut => Cut'
    BY <1>7, <2>1
  <2>4. QED BY <1>7, <2>1, <2>2, <2>3
<1>8. ASSUME NEW r \in Request, Fail(r) PROVE KeptInv'
  BY <1>7, <1>8 DEF Fail
<1>9. ASSUME NEW r \in Request, at[r] \notin Key
      PROVE phase[r] = "save" /\ phase = [phase EXCEPT ![r] = "save"]
  BY <1>9 DEF TypeOK
<1>10. ASSUME NEW r \in Request, ServeFails(r) \/ ServeReturn(r)
       PROVE KeptInv'
  <2>1. at[r] \notin Key
    BY <1>10 DEF ServeFails, ServeReturn, MayServe, Key
  <2>2. QED BY <1>7, <1>9, <1>10, <2>1 DEF ServeFails, ServeReturn
<1>11. ASSUME NEW r \in Request, Return(r) PROVE KeptInv'
  <2>1. at[r] \notin Key
    BY <1>11 DEF Return, Key
  <2>2. CASE r \in Cli
    BY <1>11, <2>2 DEF Return
  <2>3. CASE r \notin Cli
    BY <1>7, <1>9, <1>11, <2>1, <2>3 DEF Return
  <2>4. QED BY <2>2, <2>3
<1>12. ASSUME NEW r \in Request, NEW force \in BOOLEAN, Configure(r, force)
       PROVE KeptInv'
  BY <1>12 DEF Configure
<1>13. ASSUME NEW r \in Request, NEW s \in HttpsPort, Serve(r, s)
       PROVE KeptInv'
  BY <1>13 DEF Serve
<1>14. ASSUME NEW c \in Cli, CommandStarts(c) PROVE KeptInv'
  BY <1>14 DEF CommandStarts
<1>15. CASE GatewayStarts \/ GatewayStops
  BY <1>15 DEF GatewayStarts, GatewayStops
<1>16. CASE DashRestarts
  BY <1>16 DEF DashRestarts, TypeOK
<1>17. ASSUME NEW k \in ByHand, NEW v \in Value(k, tokens + 1), Edit(k, v)
       PROVE  KeptInv'
  <2>1. ~torn /\ \A q \in Request : phase[q] = "save"
    BY <1>17 DEF Edit
  <2>2. file' = promised'
    BY <1>17, <2>1 DEF Edit
  <2>3. QED BY <1>17, <2>1, <2>2 DEF Edit
<1>q. QED BY <1>1, <1>3, <1>4, <1>5, <1>6, <1>8, <1>10, <1>11, <1>12, <1>13,
  <1>14, <1>15, <1>16, <1>17 DEF Next, RequestStep

(* What was saved is in the file, whoever saved what in between, unless a  *)
(* save without hermes_cli was disturbed.                                  *)
THEOREM SavedIsKeptCorrect == Spec => []SavedIsKept
<1>1. Init => KeptInv
  BY DEF Init, KeptInv, Cut
<1>2. KeptInv => SavedIsKept
  BY DEF KeptInv, SavedIsKept
<1>3. QED BY <1>1, <1>2, InitTypeOK, TypeOKStep, KeptStep, PTL DEF Spec
-----------------------------------------------------------------------------
(* Tokens.  A token is known when it was shown, or is in a setup that will *)
(* show it.                                                                *)
Configuring == {"token", "host", "net", "port", "return"}

Tells(q) == at[q] \in Configuring /\ news[q].token

Known(t) ==
  \/ t = 0 \/ t \in shown
  \/ \E q \in Request : Tells(q) /\ want[q]["token"] = t

KnownInv ==
  /\ \A r \in Request : at[r] = "token" => news[r].token
  /\ ~failed => /\ Known(file["token"])
                /\ \A r \in Request : Known(copy[r]["token"])

(* A step that keeps those tells keeps a token known.                      *)
LEMMA KnownKept ==
  ASSUME NEW t, Known(t), shown \subseteq shown',
         \A q \in Request : Tells(q) =>
           \/ Tells(q)' /\ want'[q]["token"] = want[q]["token"]
           \/ want[q]["token"] \in shown'
  PROVE  Known(t)'
<1>1. CASE \E q \in Request : Tells(q) /\ want[q]["token"] = t
  BY <1>1 DEF Known
<1>2. CASE t = 0 \/ t \in shown
  BY <1>2 DEF Known
<1>3. QED BY <1>1, <1>2 DEF Known

LEMMA SavedToken ==
  ASSUME TypeOK, NEW r \in Request, at[r] \in Key, KnownInv, ~failed,
         NEW f \in Settings, Known(f["token"])
  PROVE  Known([f EXCEPT ![at[r]] = want[r][at[r]]]["token"])
<1>1. CASE at[r] = "token"
  <2>1. [f EXCEPT ![at[r]] = want[r][at[r]]]["token"] = want[r]["token"]
    BY <1>1 DEF Settings, Key
  <2>2. Tells(r)
    BY <1>1 DEF KnownInv, Tells, Configuring
  <2>3. QED BY <2>1, <2>2 DEF Known
<1>2. CASE at[r] # "token"
  BY <1>2 DEF Settings, Key
<1>3. QED BY <1>1, <1>2

LEMMA KnownStep == TypeOK /\ KnownInv /\ [Next]_vars => KnownInv'
<1> SUFFICES ASSUME TypeOK, KnownInv, [Next]_vars PROVE KnownInv'
  OBVIOUS
<1> USE EmptyIs
<1>1. CASE UNCHANGED vars
  BY <1>1 DEF vars, KnownInv, Known, Tells
<1>2. ASSUME NEW r \in Request, NEW force \in BOOLEAN, Configure(r, force)
      PROVE KnownInv'
  <2>1. at[r] = "idle" /\ ~Tells(r)
    BY <1>2 DEF Configure, Tells, Configuring
  <2>2. \A q \in Request : q # r =>
          at'[q] = at[q] /\ news'[q] = news[q] /\ want'[q] = want[q]
    BY <1>2 DEF Configure, TypeOK
  <2>3. at'[r] = "token" => news'[r].token
    BY <1>2 DEF Configure, TypeOK, NewsOf
  <2>4. \A q \in Request : Tells(q) =>
          Tells(q)' /\ want'[q]["token"] = want[q]["token"]
    BY <2>1, <2>2 DEF Tells
  <2>5. UNCHANGED <<file, copy, shown, failed>>
    BY <1>2 DEF Configure
  <2>6. \A t : Known(t) => Known(t)'
    BY <2>4, <2>5, KnownKept
  <2>7. QED BY <2>2, <2>3, <2>5, <2>6 DEF KnownInv
<1>3. ASSUME NEW r \in Request, NEW s \in HttpsPort, Serve(r, s)
      PROVE KnownInv'
  <2>1. at[r] \in {"idle", "ask"} /\ ~Tells(r)
    BY <1>3 DEF Serve, MayServe, Tells, Configuring
  <2>2. \A q \in Request : q # r => at'[q] = at[q] /\ want'[q] = want[q]
    BY <1>3 DEF Serve, TypeOK
  <2>3. at'[r] = "url" /\ UNCHANGED <<file, copy, shown, failed, news>>
    BY <1>3 DEF Serve, TypeOK
  <2>4. \A q \in Request : Tells(q) =>
          Tells(q)' /\ want'[q]["token"] = want[q]["token"]
    BY <2>1, <2>2, <2>3 DEF Tells
  <2>5. \A t : Known(t) => Known(t)'
    BY <2>3, <2>4, KnownKept
  <2>6. QED BY <2>2, <2>3, <2>5 DEF KnownInv
<1>4. ASSUME NEW r \in Request, NEW e, Ends(r, e), UNCHANGED file,
             shown \subseteq shown',
             Tells(r) => failed' \/ want[r]["token"] \in shown',
             ~failed' => ~failed
      PROVE KnownInv'
  <2>1. \A q \in Request : q # r => /\ at'[q] = at[q] /\ news'[q] = news[q]
          /\ want'[q] = want[q] /\ copy'[q] = copy[q]
    BY <1>4 DEF Ends, TypeOK
  <2>2. at'[r] = "idle" /\ copy'[r]["token"] = 0
    BY <1>4 DEF Ends, TypeOK
  <2>3. CASE failed'
    BY <2>1, <2>2, <2>3 DEF KnownInv
  <2>4. CASE ~failed'
    <3>1. \A q \in Request : Tells(q) =>
            \/ Tells(q)' /\ want'[q]["token"] = want[q]["token"]
            \/ want[q]["token"] \in shown'
      BY <1>4, <2>1, <2>4 DEF Tells
    <3>2. \A t : Known(t) => Known(t)'
      BY <1>4, <3>1, KnownKept
    <3>3. Known(copy[r]["token"])'
      BY <2>2 DEF Known
    <3>4. QED BY <1>4, <2>1, <2>2, <2>4, <3>2, <3>3 DEF KnownInv
  <2>5. QED BY <2>3, <2>4
<1>5. ASSUME NEW r \in Request, ServeFails(r) \/ ServeReturn(r)
      PROVE KnownInv'
  <2>1. ~Tells(r)
    BY <1>5 DEF ServeFails, ServeReturn, MayServe, Tells, Configuring
  <2>2. Ends(r, env) /\ UNCHANGED <<file, shown, failed>>
    BY <1>5 DEF ServeFails, ServeReturn
  <2>3. QED BY <1>4, <2>1, <2>2
<1>6. ASSUME NEW r \in Request, Fail(r) PROVE KnownInv'
  BY <1>4, <1>6 DEF Fail
<1>7. ASSUME NEW r \in Request, at[r] \in Key, Saved(r),
             UNCHANGED <<news, want, shown>>
      PROVE  /\ \A t : Known(t) => Known(t)'
             /\ \A q \in Request : at'[q] = "token" => news'[q].token
  <2>1. \A q \in Request : at'[q] = IF q = r THEN Following[at[r]] ELSE at[q]
    BY <1>7 DEF Saved, TypeOK
  <2>2. at[r] \in Configuring => at'[r] \in Configuring
    BY <1>7, <2>1, FollowingIs DEF Configuring, Key
  <2>3. at'[r] # "token"
    BY <1>7, <2>1, FollowingIs DEF Key
  <2>4. \A q \in Request : Tells(q) =>
          Tells(q)' /\ want'[q]["token"] = want[q]["token"]
    BY <1>7, <2>1, <2>2 DEF Tells
  <2>5. \A t : Known(t) => Known(t)'
    BY <1>7, <2>4, KnownKept
  <2>6. QED BY <1>7, <2>1, <2>3, <2>5 DEF KnownInv
<1>8. ASSUME NEW r \in Request, Save(r) PROVE KnownInv'
  <2>1. at[r] \in Key /\ Saved(r) /\ UNCHANGED <<news, want, shown, copy, failed>>
    BY <1>8 DEF Save
  <2>2. ~failed => Known(file'["token"])
    BY <1>8, <2>1, SavedToken DEF Save, KnownInv, TypeOK
  <2>3. QED BY <1>7, <2>1, <2>2 DEF KnownInv
<1>9. ASSUME NEW r \in Request, Write(r) PROVE KnownInv'
  <2>1. at[r] \in Key /\ Saved(r) /\ UNCHANGED <<news, want, shown, failed>>
        /\ copy[r] \in Settings
    BY <1>9 DEF Write, TypeOK
  <2>2. ~failed => Known(file'["token"])
    BY <1>9, <2>1, SavedToken DEF Write, KnownInv
  <2>3. \A q \in Request : copy'[q]["token"] \in {0, copy[q]["token"]}
    BY <1>9 DEF Write, TypeOK
  <2>4. Known(0)'
    BY DEF Known
  <2>5. QED BY <1>7, <2>1, <2>2, <2>3, <2>4 DEF KnownInv
<1>10. ASSUME NEW r \in Request, Read(r) \/ Truncate(r) PROVE KnownInv'
  <2>1. UNCHANGED <<at, news, want, shown, failed>>
    BY <1>10 DEF Read, Truncate
  <2>2. file'["token"] \in {0, file["token"]}
    BY <1>10 DEF Read, Truncate
  <2>3. \A q \in Request :
          copy'[q]["token"] \in {file["token"], copy[q]["token"]}
    BY <1>10 DEF Read, Truncate, TypeOK
  <2>4. \A t : Known(t) => Known(t)'
    BY <2>1, KnownKept DEF Tells
  <2>5. Known(0)'
    BY DEF Known
  <2>6. QED BY <2>1, <2>2, <2>3, <2>4, <2>5 DEF KnownInv
<1>11. ASSUME NEW r \in Request, Return(r) PROVE KnownInv'
  <2>1. shown \subseteq shown' /\ UNCHANGED <<file, failed>>
        /\ (Tells(r) => want[r]["token"] \in shown')
    BY <1>11 DEF Return, Tells
  <2>2. CASE r \notin Cli
    <3>1. Ends(r, env)
      BY <1>11, <2>2 DEF Return
    <3>2. QED BY <1>4, <2>1, <3>1
  <2>3. CASE r \in Cli
    <3>1. UNCHANGED <<news, want, copy>> /\ at' = [at EXCEPT ![r] = "ask"]
      BY <1>11, <2>3 DEF Return
    <3>2. \A q \in Request : at'[q] = IF q = r THEN "ask" ELSE at[q]
      BY <3>1 DEF TypeOK
    <3>3. \A q \in Request : Tells(q) =>
            \/ Tells(q)' /\ want'[q]["token"] = want[q]["token"]
            \/ want[q]["token"] \in shown'
      BY <2>1, <3>1, <3>2 DEF Tells
    <3>4. \A t : Known(t) => Known(t)'
      BY <2>1, <3>3, KnownKept
    <3>5. QED BY <2>1, <3>1, <3>2, <3>4 DEF KnownInv
  <2>4. QED BY <2>2, <2>3
<1>12. ASSUME NEW c \in Cli, CommandStarts(c) PROVE KnownInv'
  BY <1>12 DEF CommandStarts, KnownInv, Known, Tells
<1>13. CASE GatewayStarts \/ GatewayStops
  BY <1>13 DEF GatewayStarts, GatewayStops, KnownInv, Known, Tells
<1>14. CASE DashRestarts
  <2>1. \A q \in Request :
          /\ at'[q] = IF q \in Dash THEN "idle" ELSE at[q]
          /\ news'[q] = IF q \in Dash THEN Nothing ELSE news[q]
          /\ want'[q] = IF q \in Dash THEN Empty ELSE want[q]
          /\ copy'[q] = IF q \in Dash THEN Empty ELSE copy[q]
    BY <1>14 DEF DashRestarts
  <2>2. UNCHANGED <<file, shown>>
        /\ (~failed' => ~failed /\ \A q \in Dash : at[q] = "idle")
    BY <1>14 DEF DashRestarts
  <2>3. CASE failed'
    BY <2>1, <2>3 DEF KnownInv
  <2>4. CASE ~failed'
    <3>1. \A q \in Request : Tells(q) => q \notin Dash
      BY <2>2, <2>4 DEF Tells, Configuring
    <3>2. \A q \in Request : Tells(q) =>
            Tells(q)' /\ want'[q]["token"] = want[q]["token"]
      BY <2>1, <3>1 DEF Tells
    <3>3. \A t : Known(t) => Known(t)'
      BY <2>2, <3>2, KnownKept
    <3>4. Known(0)'
      BY DEF Known
    <3>5. \A q \in Request : Known(copy[q]["token"])'
      BY <2>1, <2>2, <2>4, <3>3, <3>4 DEF KnownInv
    <3>6. QED BY <2>1, <2>2, <2>4, <3>3, <3>5 DEF KnownInv
  <2>5. QED BY <2>3, <2>4
<1>15. ASSUME NEW k \in ByHand, NEW v \in Value(k, tokens + 1), Edit(k, v)
       PROVE  KnownInv'
  <2>1. UNCHANGED <<at, news, want, copy, failed>> /\ shown \subseteq shown'
    BY <1>15 DEF Edit
  <2>2. file'["token"] = file["token"] \/ file'["token"] \in shown'
    BY <1>15 DEF Edit, TypeOK, Settings, Key
  <2>3. \A t : Known(t) => Known(t)'
    BY <2>1, KnownKept DEF Tells
  <2>4. file'["token"] \in shown' => Known(file["token"])'
    BY DEF Known
  <2>5. QED BY <2>1, <2>2, <2>3, <2>4 DEF KnownInv
<1>q. QED BY <1>1, <1>2, <1>3, <1>5, <1>6, <1>8, <1>9, <1>10, <1>11, <1>12,
  <1>13, <1>14, <1>15 DEF Next, RequestStep

(* When nothing is in progress and nothing has failed, the token in the    *)
(* file was shown.                                                         *)
THEOREM TokenKnownCorrect == Spec => []TokenKnown
<1>1. Init => KnownInv
  <2> SUFFICES ASSUME Init PROVE KnownInv
    OBVIOUS
  <2>1. Known(file["token"])
    BY DEF Init, Known, Key, Restarting
  <2>2. QED BY <2>1, EmptyIs DEF Init, KnownInv, Known
<1>2. KnownInv => TokenKnown
  BY DEF KnownInv, TokenKnown, Known, Tells, Quiet, Configuring
<1>3. QED BY <1>1, <1>2, InitTypeOK, TypeOKStep, KnownStep, PTL DEF Spec
-----------------------------------------------------------------------------
(* Restarts.  Every setup saves the same host, mode and port, and one that *)
(* saves a token asks for a restart.                                       *)
WantsInv ==
  /\ \A r \in Request : at[r] \in Configuring =>
       want[r]["host"] = 1 /\ want[r]["net"] = 1
  /\ \A r \in Request : at[r] = "token" => news[r].restart

(* A request of a command is in a command that runs, and saves the port    *)
(* its process has.                                                        *)
PortInv ==
  /\ \A c \in Cli : at[c] # "idle" => c \in running
  /\ ~failed /\ ~torn =>
       \A r \in Request : at[r] \in Configuring =>
         want[r]["port"] = env[Proc(r)]["port"]

(* Key k has the value that setup wants, or a request is just saving it.   *)
Done(k) == promised[k] = 1 \/ \E q \in Request : at[q] = k /\ phase[q] # "save"

(* The same, as far as process p can tell: not when k was edited.          *)
Knows(p, k) == k \in unseen[p] \/ Done(k)

Asks(q) == at[q] \in Configuring /\ news[q].restart

Lives(p) == p = "dash" \/ p \in running

(* A process that knows of a value, or a setup that asks for no restart,   *)
(* can rely on its having been saved, unless there is an edit it has not   *)
(* seen; a gateway that runs with other settings than those edited is      *)
(* about to be asked to restart.                                           *)
AskedInv ==
  ~failed /\ ~torn =>
    /\ \A p \in Process : \A k \in {"host", "net"} :
         env[p][k] = 1 => Knows(p, k)
    /\ \A r \in Request : at[r] \in Configuring /\ ~news[r].restart =>
         Knows(Proc(r), "host") /\ Knows(Proc(r), "net")
    /\ \A r \in Request :
         phase[r] # "save" /\ at[r] \in {"host", "net"} /\ ~news[r].restart =>
           at[r] \in unseen[Proc(r)] \/ promised[at[r]] = 1
    /\ "gateway" \in running /\ ~announced =>
         \/ \A k \in {"token", "host", "net"} :
              k \in touched \/ conf[k] = promised[k]
         \/ \E q \in Request : Asks(q)

(* Setup saves the port it knows, so only an edit changes it.              *)
PortSeen ==
  ~failed /\ ~torn =>
    /\ \A p \in Process : Lives(p) =>
         "port" \in unseen[p] \/ env[p]["port"] = promised["port"]
    /\ "gateway" \in running =>
         "port" \in touched \/ conf["port"] = promised["port"]

(* The edits of the user.                                                  *)
Edits == \E k \in ByHand : \E v \in Value(k, tokens + 1) : Edit(k, v)

(* Process p starts.                                                       *)
Restarts(p) == (p \in Cli /\ CommandStarts(p)) \/ (p = "dash" /\ DashRestarts)

LEMMA ProcIs ==
  /\ \A r \in Request : Proc(r) \in Process
  /\ \A r \in Dash : Proc(r) = "dash"
  /\ \A c \in Cli : Proc(c) = c /\ c # "dash" /\ c # "gateway"
BY SetupAssumption DEF SetupAssumption, Proc, Process, Request

(* What a step does to the environments.                                   *)
LEMMA EnvFrame ==
  ASSUME TypeOK, [Next]_vars, NEW p \in Process
  PROVE  \/ env'[p] = env[p]
         \/ env'[p] = file /\ Restarts(p)
         \/ env'[p] = Empty /\ p \in Cli /\ p \notin running' /\ at'[p] = "idle"
         \/ \E r \in Request : (Save(r) \/ Read(r)) /\ SetEnv(r)
         \/ \E r \in Request : Fail(r) /\ failed'
<1>1. ASSUME NEW r \in Request, Ends(r, env)
      PROVE  \/ env'[p] = env[p]
             \/ env'[p] = Empty /\ p \in Cli /\ p \notin running' /\ at'[p] = "idle"
  BY <1>1 DEF Ends, TypeOK
<1>2. ASSUME NEW r \in Request, ServeFails(r) \/ Return(r) \/ ServeReturn(r)
      PROVE  \/ env'[p] = env[p]
             \/ env'[p] = Empty /\ p \in Cli /\ p \notin running' /\ at'[p] = "idle"
  BY <1>1, <1>2 DEF ServeFails, Return, ServeReturn
<1>3. ASSUME NEW r \in Request, Save(r) \/ Read(r) PROVE SetEnv(r)
  BY <1>3 DEF Save, Read
<1>4. ASSUME NEW r \in Request, Fail(r) PROVE failed'
  BY <1>4 DEF Fail
<1>5. ASSUME NEW c \in Cli, CommandStarts(c)
      PROVE  env'[p] = env[p] \/ (env'[p] = file /\ Restarts(p))
  BY <1>5 DEF CommandStarts, TypeOK, Restarts
<1>6. CASE DashRestarts
  BY <1>6 DEF DashRestarts, TypeOK, Restarts
<1>7. CASE UNCHANGED env
  BY <1>7
<1>8. ASSUME NEW r \in Request,
             \/ Truncate(r) \/ Write(r) \/ \E s \in HttpsPort : Serve(r, s)
             \/ \E force \in BOOLEAN : Configure(r, force)
      PROVE  UNCHANGED env
  BY <1>8 DEF Truncate, Write, Serve, Configure
<1>9. CASE UNCHANGED vars \/ GatewayStarts \/ GatewayStops \/ Edits
  BY <1>7, <1>9 DEF vars, GatewayStarts, GatewayStops, Edits, Edit
<1>q. QED BY <1>2, <1>3, <1>4, <1>5, <1>6, <1>7, <1>8, <1>9
      DEF Next, RequestStep, Edits

(* What a step does to the edits a process has not seen.                   *)
LEMMA UnseenFrame ==
  ASSUME TypeOK, [Next]_vars, NEW p \in Process
  PROVE  \/ unseen[p] \subseteq unseen'[p]
         \/ Restarts(p)
         \/ \E r \in Request : /\ Save(r) \/ Write(r)
                              /\ Proc(r) = p /\ unseen'[p] = unseen[p] \ {at[r]}
<1>1. CASE UNCHANGED unseen
  BY <1>1
<1>2. ASSUME NEW r \in Request, Save(r) \/ Write(r), unseen' # unseen
      PROVE  \/ unseen[p] \subseteq unseen'[p]
             \/ Proc(r) = p /\ unseen'[p] = unseen[p] \ {at[r]}
  <2>1. Overwrites(r)
    BY <1>2 DEF Save, Write, Saved
  <2>2. QED BY <1>2, <2>1 DEF Overwrites, userVars, TypeOK
<1>3. ASSUME NEW r \in Request,
             \/ ServeFails(r) \/ Return(r) \/ ServeReturn(r) \/ Read(r)
             \/ Truncate(r) \/ Fail(r) \/ \E s \in HttpsPort : Serve(r, s)
             \/ \E force \in BOOLEAN : Configure(r, force)
      PROVE  UNCHANGED unseen
  BY <1>3 DEF ServeFails, Return, ServeReturn, Read, Truncate, Fail, Serve,
     Configure, userVars
<1>4. ASSUME NEW c \in Cli, CommandStarts(c)
      PROVE  unseen'[p] = unseen[p] \/ Restarts(p)
  BY <1>4 DEF CommandStarts, TypeOK, Restarts
<1>5. CASE DashRestarts
  BY <1>5 DEF DashRestarts, TypeOK, Restarts
<1>6. CASE Edits
  BY <1>6 DEF Edits, Edit
<1>7. CASE UNCHANGED vars \/ GatewayStarts \/ GatewayStops
  BY <1>1, <1>7 DEF vars, userVars, GatewayStarts, GatewayStops
<1>q. QED BY <1>1, <1>2, <1>3, <1>4, <1>5, <1>6, <1>7
      DEF Next, RequestStep, Edits

(* A process that starts has what was promised, and no requests.           *)
LEMMA RestartFrame ==
  ASSUME TypeOK, KeptInv, PortInv, [Next]_vars, ~failed', ~torn', ~torn,
         NEW p \in Process, Restarts(p)
  PROVE  /\ env'[p] = promised /\ promised' = promised
         /\ \A r \in Request : Proc(r) = p => at[r] = "idle" /\ at'[r] = "idle"
<1>1. CASE p \in Cli /\ CommandStarts(p)
  <2>1. env'[p] = file /\ ~Cut /\ promised' = promised /\ at' = at
        /\ p \notin running
    BY <1>1 DEF CommandStarts, TypeOK
  <2>2. \A r \in Request : Proc(r) = p => r = p
    BY <1>1, ProcIs DEF Request
  <2>3. QED BY <1>1, <2>1, <2>2 DEF KeptInv, PortInv
<1>2. CASE p = "dash" /\ DashRestarts
  <2>1. env'[p] = file /\ ~Cut /\ promised' = promised
    BY <1>2 DEF DashRestarts, TypeOK
  <2>2. \A r \in Dash : at[r] = "idle" /\ at'[r] = "idle"
    BY <1>2 DEF DashRestarts, Request
  <2>3. \A r \in Request : Proc(r) = p => r \in Dash
    BY <1>2, ProcIs DEF Request
  <2>4. QED BY <2>1, <2>2, <2>3 DEF KeptInv
<1>3. QED BY <1>1, <1>2 DEF Restarts

LEMMA WantsStep == TypeOK /\ WantsInv /\ [Next]_vars => WantsInv'
<1> SUFFICES ASSUME TypeOK, WantsInv, [Next]_vars PROVE WantsInv'
  OBVIOUS
<1>1. CASE UNCHANGED <<at, want, news>>
  BY <1>1 DEF WantsInv
<1>2. ASSUME NEW r \in Request, NEW force \in BOOLEAN, Configure(r, force)
      PROVE  WantsInv'
  <2>1. \A q \in Request : q # r =>
          at'[q] = at[q] /\ news'[q] = news[q] /\ want'[q] = want[q]
    BY <1>2 DEF Configure, TypeOK
  <2>2. want'[r]["host"] = 1 /\ want'[r]["net"] = 1
    BY <1>2 DEF Configure, TypeOK, Empty, Key
  <2>3. at'[r] = "token" => news'[r].restart
    BY <1>2 DEF Configure, TypeOK, NewsOf
  <2>4. QED BY <2>1, <2>2, <2>3 DEF WantsInv
<1>3. ASSUME NEW r \in Request, at'[r] \notin Configuring,
             \A q \in Request : q # r =>
               at'[q] = at[q] /\ news'[q] = news[q] /\ want'[q] = want[q]
      PROVE  WantsInv'
  BY <1>3 DEF WantsInv, Configuring
<1>4. ASSUME NEW r \in Request, NEW e, Ends(r, e) PROVE WantsInv'
  BY <1>3, <1>4 DEF Ends, TypeOK, Configuring
<1>5. ASSUME NEW r \in Request, NEW s \in HttpsPort, Serve(r, s) PROVE WantsInv'
  BY <1>3, <1>5 DEF Serve, TypeOK, Configuring
<1>6. ASSUME NEW r \in Request, Return(r) PROVE WantsInv'
  BY <1>3, <1>4, <1>6 DEF Return, TypeOK, Configuring
<1>7. ASSUME NEW r \in Request,
             ServeFails(r) \/ ServeReturn(r) \/ Fail(r) PROVE WantsInv'
  BY <1>4, <1>7 DEF ServeFails, ServeReturn, Fail
<1>8. ASSUME NEW r \in Request, Save(r) \/ Write(r) PROVE WantsInv'
  <2>1. at[r] \in Key /\ Saved(r) /\ UNCHANGED <<want, news>>
    BY <1>8 DEF Save, Write, TypeOK
  <2>2. \A q \in Request : at'[q] = IF q = r THEN Following[at[r]] ELSE at[q]
    BY <2>1 DEF Saved, TypeOK
  <2>3. at'[r] # "token" /\ (at'[r] \in Configuring => at[r] \in Configuring)
    BY <2>1, <2>2, FollowingIs DEF Key, Configuring
  <2>4. QED BY <2>1, <2>2, <2>3 DEF WantsInv
<1>9. ASSUME NEW r \in Request, Read(r) \/ Truncate(r) PROVE WantsInv'
  BY <1>1, <1>9 DEF Read, Truncate
<1>10. CASE DashRestarts
  <2>1. \A q \in Request : at'[q] = "idle" \/
          (at'[q] = at[q] /\ news'[q] = news[q] /\ want'[q] = want[q])
    BY <1>10 DEF DashRestarts
  <2>2. QED BY <2>1 DEF WantsInv, Configuring
<1>11. CASE UNCHANGED vars \/ GatewayStarts \/ GatewayStops
            \/ (\E c \in Cli : CommandStarts(c)) \/ Edits
  BY <1>1, <1>11 DEF vars, GatewayStarts, GatewayStops, CommandStarts, Edits, Edit
<1>q. QED BY <1>2, <1>5, <1>6, <1>7, <1>8, <1>9, <1>10, <1>11
      DEF Next, RequestStep, Edits

LEMMA HistoryStays ==
  ASSUME [Next]_vars, ~failed', ~torn'
  PROVE  ~failed /\ ~torn
<1>1. CASE UNCHANGED vars
  BY <1>1 DEF vars
<1>2. CASE UNCHANGED <<failed, torn>>
  BY <1>2
<1>3. ASSUME NEW r \in Request,
             \/ \E force \in BOOLEAN : Configure(r, force)
             \/ \E s \in HttpsPort : Serve(r, s)
             \/ ServeFails(r) \/ Truncate(r) \/ Return(r) \/ ServeReturn(r)
      PROVE  ~failed /\ ~torn
  BY <1>2, <1>3 DEF Configure, Serve, ServeFails, Truncate, Return, ServeReturn
<1>4. ASSUME NEW r \in Request, Save(r) \/ Read(r) \/ Write(r)
      PROVE  ~failed /\ ~torn
  <2>1. failed' = failed /\ torn' = (torn \/ Midway(r))
    BY <1>4 DEF Save, Read, Write, Saved
  <2>2. QED BY ONLY <2>1, ~failed', ~torn'
<1>5. ASSUME NEW r \in Request, Fail(r) PROVE ~failed /\ ~torn
  BY <1>5 DEF Fail
<1>6. CASE GatewayStarts \/ \E c \in Cli : CommandStarts(c)
  <2>1. failed' = failed /\ torn' = (torn \/ Cut)
    BY <1>6 DEF GatewayStarts, CommandStarts
  <2>2. QED BY ONLY <2>1, ~failed', ~torn'
<1>7. CASE DashRestarts
  <2>1. failed' = (failed \/ \E r \in Dash : at[r] # "idle") /\ torn' = (torn \/ Cut)
    BY <1>7 DEF DashRestarts
  <2>2. QED BY ONLY <2>1, ~failed', ~torn'
<1>8. CASE GatewayStops
  BY <1>2, <1>8 DEF GatewayStops
<1>9. CASE Edits
  <2>1. failed' = failed /\ torn' = (torn \/ \E r \in Request : phase[r] # "save")
    BY <1>9 DEF Edits, Edit
  <2>2. QED BY ONLY <2>1, ~failed', ~torn'
<1>10. QED BY <1>1, <1>3, <1>4, <1>5, <1>6, <1>7, <1>8, <1>9
      DEF Next, RequestStep, Edits

(* A step that saves nothing and breaks nothing off.                       *)
Calm ==
  /\ promised' = promised
  /\ \A q \in Request : phase[q] # "save" => at'[q] = at[q] /\ phase'[q] # "save"

LEMMA CalmSteps ==
  ASSUME TypeOK, [Next]_vars, ~failed', ~torn'
  PROVE  Calm \/ Edits \/ \E r \in Request : Save(r) \/ Write(r)
<1> USE DEF Calm
<1>0. \A q \in Request : phase[q] # "save" => at[q] \in Key
  BY DEF TypeOK
<1>1. CASE UNCHANGED <<promised, at, phase>>
  BY <1>1
<1>2. ASSUME NEW r \in Request, at[r] \notin Key, UNCHANGED <<promised, phase>>,
             \A q \in Request : q # r => at'[q] = at[q]
      PROVE  Calm
  BY <1>0, <1>2
<1>3. ASSUME NEW r \in Request,
             \/ \E force \in BOOLEAN : Configure(r, force)
             \/ \E s \in HttpsPort : Serve(r, s)
             \/ ServeFails(r) \/ Return(r) \/ ServeReturn(r)
      PROVE  Calm
  <2>1. at[r] \notin Key /\ UNCHANGED <<promised, phase>>
    BY <1>3 DEF Configure, Serve, ServeFails, MayServe, Return, ServeReturn, Key
  <2>2. \A q \in Request : q # r => at'[q] = at[q]
    BY <1>3 DEF Configure, Serve, ServeFails, Return, ServeReturn, Ends, TypeOK
  <2>3. QED BY <1>2, <2>1, <2>2
<1>4. ASSUME NEW r \in Request, Read(r) PROVE Calm
  BY <1>4 DEF Read, TypeOK
<1>5. ASSUME NEW r \in Request, Truncate(r) PROVE Calm
  BY <1>5 DEF Truncate, TypeOK
<1>6. ASSUME NEW r \in Request, Fail(r) PROVE Calm
  BY <1>6 DEF Fail
<1>7. CASE DashRestarts
  <2>1. \A q \in Dash : at[q] = "idle"
    BY <1>7 DEF DashRestarts
  <2>2. \A q \in Request : q \notin Dash => at'[q] = at[q] /\ phase'[q] = phase[q]
    BY <1>7 DEF DashRestarts
  <2>3. \A q \in Dash : phase[q] = "save"
    BY <1>0, <2>1 DEF Key, Request
  <2>4. QED BY <1>7, <2>2, <2>3 DEF DashRestarts
<1>8. CASE \/ UNCHANGED vars \/ GatewayStarts \/ GatewayStops
           \/ \E c \in Cli : CommandStarts(c)
  BY <1>1, <1>8 DEF vars, GatewayStarts, GatewayStops, CommandStarts
<1>9. QED BY <1>3, <1>4, <1>5, <1>6, <1>7, <1>8 DEF Next, RequestStep, Edits

(* What is saved in a step that tears nothing: nobody else was saving.     *)
LEMMA SavedFrame ==
  ASSUME TypeOK, NEW r \in Request, Save(r) \/ Write(r), ~torn'
  PROVE  /\ at[r] \in Key /\ UNCHANGED <<news, want, running, announced, conf>>
         /\ promised' = [promised EXCEPT ![at[r]] = want[r][at[r]]]
         /\ \A q \in Request : at'[q] = IF q = r THEN Following[at[r]] ELSE at[q]
         /\ \A q \in Request : q # r => phase[q] = "save" /\ phase'[q] = "save"
         /\ phase'[r] = "save" /\ Overwrites(r)
<1>1. at[r] \in Key /\ Saved(r) /\ UNCHANGED <<news, want, running, announced, conf>>
  BY DEF Save, Write, TypeOK
<1>2. /\ promised' = [promised EXCEPT ![at[r]] = want[r][at[r]]]
      /\ \A q \in Request : q # r => phase[q] = "save"
      /\ Overwrites(r)
  BY <1>1 DEF Saved, Midway
<1>3. \A q \in Request : at'[q] = IF q = r THEN Following[at[r]] ELSE at[q]
  BY <1>1 DEF Saved, TypeOK
<1>4. phase'[r] = "save" /\ \A q \in Request : q # r => phase'[q] = phase[q]
  BY DEF Save, Write, TypeOK
<1>5. QED BY <1>1, <1>2, <1>3, <1>4

(* What is edited in a step that tears nothing: nobody was saving.         *)
LEMMA EditFrame ==
  ASSUME TypeOK, Edits, ~torn'
  PROVE  /\ \A q \in Request : phase[q] = "save" /\ phase'[q] = "save"
         /\ UNCHANGED <<at, news, want, env, running, announced, conf>>
         /\ \E k \in Restarting :
              /\ \A j \in Restarting \ {k} : promised'[j] = promised[j]
              /\ unseen' = [p \in Process |-> unseen[p] \cup {k}]
              /\ "gateway" \in running => touched' = touched \cup {k}
<1>0. PICK k \in ByHand : \E v \in Value(k, tokens + 1) : Edit(k, v)
  BY DEF Edits
<1>1. PICK v \in Value(k, tokens + 1) : Edit(k, v)
  BY <1>0
<1>2. k \in Restarting
  BY <1>1, EditType
<1>3. /\ \A q \in Request : phase[q] = "save" /\ phase'[q] = "save"
      /\ UNCHANGED <<at, news, want, env, running, announced, conf>>
      /\ promised' = [promised EXCEPT ![k] = v]
      /\ unseen' = [p \in Process |-> unseen[p] \cup {k}]
      /\ "gateway" \in running => touched' = touched \cup {k}
  BY <1>1 DEF Edit
<1>4. \A j \in Restarting : j # k => promised'[j] = promised[j]
  BY <1>3 DEF TypeOK, Settings, Key, Restarting
<1>5. QED BY <1>2, <1>3, <1>4

LEMMA KnowsStays ==
  ASSUME TypeOK, WantsInv, [Next]_vars, ~failed', ~torn',
         NEW p \in Process, ~Restarts(p), NEW k \in {"host", "net"}, Knows(p, k)
  PROVE  Knows(p, k)'
<1>1. CASE Calm /\ unseen[p] \subseteq unseen'[p]
  BY <1>1 DEF Calm, Done, Knows
<1>2. ASSUME NEW r \in Request, Save(r) \/ Write(r) PROVE Knows(p, k)'
  <2>1. /\ at[r] \in Key /\ Overwrites(r)
        /\ promised' = [promised EXCEPT ![at[r]] = want[r][at[r]]]
        /\ \A q \in Request : q # r => phase[q] = "save"
    BY <1>2, SavedFrame
  <2>2. CASE at[r] = k
    <3>1. want[r][k] = 1
      BY <2>2 DEF WantsInv, Configuring
    <3>2. promised'[k] = 1
      BY <2>1, <2>2, <3>1 DEF TypeOK, Settings, Key
    <3>3. QED BY <3>2 DEF Done, Knows
  <2>3. CASE at[r] # k
    <3>1. k \in unseen[p] \/ promised[k] = 1
      BY <2>1, <2>3 DEF Done, Knows
    <3>2. promised'[k] = promised[k]
      BY <2>1, <2>3 DEF TypeOK, Settings, Key
    <3>3. k \in unseen[p] => k \in unseen'[p]
      BY <2>1, <2>3 DEF Overwrites, userVars, TypeOK
    <3>4. QED BY <3>1, <3>2, <3>3 DEF Done, Knows
  <2>4. QED BY <2>2, <2>3
<1>3. CASE Edits
  <2>1. /\ \A q \in Request : phase[q] = "save"
        /\ k \in unseen'[p] \/ promised'[k] = promised[k]
        /\ unseen[p] \subseteq unseen'[p]
    BY <1>3, EditFrame DEF Restarting
  <2>2. QED BY <2>1 DEF Knows, Done
<1>4. QED BY <1>1, <1>2, <1>3, CalmSteps, UnseenFrame

(* Who knows of a value: the environments are set while the key is saved,  *)
(* or are read from a file that has what was promised.                     *)
LEMMA EnvStep ==
  ASSUME TypeOK, KeptInv, WantsInv, PortInv, AskedInv, [Next]_vars,
         ~failed', ~torn',
         NEW p \in Process, NEW k \in {"host", "net"}, env'[p][k] = 1
  PROVE  Knows(p, k)'
<1>0. ~failed /\ ~torn
  BY HistoryStays
<1>1. CASE Restarts(p)
  BY <1>0, <1>1, RestartFrame DEF Knows, Done
<1>2. CASE ~Restarts(p) /\ env[p][k] = 1
  BY <1>0, <1>2, KnowsStays DEF AskedInv
<1>3. CASE env'[p] = Empty
  BY <1>3 DEF Empty, Key
<1>4. ASSUME NEW r \in Request, SetEnv(r), Save(r) \/ Read(r),
             env[p][k] # 1
      PROVE  Knows(p, k)'
  <2>1. at[r] \in Key /\ Proc(r) \in Process
    BY <1>4, ProcIs DEF Save, Read
  <2>2. at[r] = k
    BY <1>4, <2>1 DEF SetEnv, TypeOK, Settings, Key
  <2>3. CASE Read(r)
    BY <2>2, <2>3 DEF Read, Done, Knows, TypeOK
  <2>4. CASE Save(r)
    <3>1. promised'[k] = want[r][k]
      BY <2>2, <2>4, SavedFrame DEF TypeOK, Settings, Key
    <3>2. QED BY <2>2, <3>1 DEF WantsInv, Configuring, Done, Knows
  <2>5. QED BY <1>4, <2>3, <2>4
<1>q. QED BY <1>1, <1>2, <1>3, <1>4, EnvFrame

(* A setup that is in progress was before, or begins.                      *)
LEMMA StaysConfiguring ==
  ASSUME TypeOK, [Next]_vars, ~failed', ~torn', NEW r \in Request,
         at'[r] \in Configuring, ~\E force \in BOOLEAN : Configure(r, force)
  PROVE  at[r] \in Configuring /\ news'[r] = news[r] /\ want'[r] = want[r]
<1>1. ASSUME NEW q \in Request, Save(q) \/ Write(q)
      PROVE  at[r] \in Configuring /\ news'[r] = news[r] /\ want'[r] = want[r]
  <2>1. /\ at[q] \in Key /\ UNCHANGED <<news, want>>
        /\ at'[r] = IF r = q THEN Following[at[q]] ELSE at[r]
    BY <1>1, SavedFrame
  <2>2. QED BY <2>1, FollowingIs DEF Configuring, Key
<1>2. ASSUME NEW q \in Request, NEW e, Ends(q, e)
      PROVE  at[r] \in Configuring /\ news'[r] = news[r] /\ want'[r] = want[r]
  BY <1>2 DEF Ends, TypeOK, Configuring
<1>3. ASSUME NEW q \in Request,
             \/ ServeFails(q) \/ ServeReturn(q) \/ Fail(q) \/ Return(q)
      PROVE  at[r] \in Configuring /\ news'[r] = news[r] /\ want'[r] = want[r]
  BY <1>2, <1>3 DEF ServeFails, ServeReturn, Fail, Return, TypeOK, Configuring
<1>4. ASSUME NEW q \in Request,
             \/ \E s \in HttpsPort : Serve(q, s)
             \/ \E force \in BOOLEAN : q # r /\ Configure(q, force)
      PROVE  at[r] \in Configuring /\ news'[r] = news[r] /\ want'[r] = want[r]
  BY <1>4 DEF Serve, Configure, TypeOK, Configuring
<1>5. ASSUME UNCHANGED <<at, news, want>>
      PROVE  at[r] \in Configuring /\ news'[r] = news[r] /\ want'[r] = want[r]
  BY <1>5
<1>6. ASSUME NEW q \in Request, Read(q) \/ Truncate(q)
      PROVE  UNCHANGED <<at, news, want>>
  BY <1>6 DEF Read, Truncate
<1>7. ASSUME \/ UNCHANGED vars \/ GatewayStarts \/ GatewayStops \/ Edits
             \/ \E c \in Cli : CommandStarts(c)
      PROVE  UNCHANGED <<at, news, want>>
  BY <1>7 DEF vars, GatewayStarts, GatewayStops, CommandStarts, Edits, Edit
<1>8. ASSUME DashRestarts
      PROVE  at[r] \in Configuring /\ news'[r] = news[r] /\ want'[r] = want[r]
  BY <1>8 DEF DashRestarts, Configuring
<1>9. QED BY <1>1, <1>3, <1>4, <1>5, <1>6, <1>7, <1>8 DEF Next, RequestStep, Edits

(* A setup that asks for no restart found every value in its environment   *)
(* when it began.                                                          *)
LEMMA SilentStep ==
  ASSUME TypeOK, KeptInv, WantsInv, PortInv, AskedInv, [Next]_vars,
         ~failed', ~torn',
         NEW r \in Request, at'[r] \in Configuring, ~news'[r].restart
  PROVE  Knows(Proc(r), "host")' /\ Knows(Proc(r), "net")'
<1>0. ~failed /\ ~torn /\ Proc(r) \in Process
  BY HistoryStays, ProcIs
<1>1. ~Restarts(Proc(r))
  BY <1>0, RestartFrame DEF Configuring
<1>2. SUFFICES Knows(Proc(r), "host") /\ Knows(Proc(r), "net")
  BY <1>0, <1>1, KnowsStays
<1>3. CASE \E force \in BOOLEAN : Configure(r, force)
  <2>1. PICK gen \in BOOLEAN : news'[r] = NewsOf(env[Proc(r)], gen)
    BY <1>3 DEF Configure, TypeOK
  <2>2. env[Proc(r)]["host"] = 1 /\ env[Proc(r)]["net"] = 1
    <3>1. news'[r].restart =
            (env[Proc(r)]["host"] # 1 \/ env[Proc(r)]["net"] # 1 \/ gen)
      BY <2>1 DEF NewsOf
    <3>2. QED BY <3>1, Zenon
  <2>3. QED BY <1>0, <2>2 DEF AskedInv
<1>4. CASE ~\E force \in BOOLEAN : Configure(r, force)
  BY <1>0, <1>4, StaysConfiguring DEF AskedInv
<1>5. QED BY <1>3, <1>4

(* What it reads and writes back without hermes_cli was saved before it    *)
(* read.                                                                   *)
LEMMA MidwayStep ==
  ASSUME TypeOK, KeptInv, WantsInv, PortInv, AskedInv, [Next]_vars,
         ~failed', ~torn',
         NEW r \in Request, phase'[r] # "save", at'[r] \in {"host", "net"},
         ~news'[r].restart
  PROVE  at'[r] \in unseen'[Proc(r)] \/ promised'[at'[r]] = 1
<1>0. ~failed /\ ~torn /\ Proc(r) \in Process
  BY HistoryStays, ProcIs
<1>1. CASE Read(r)
  <2>1. /\ at'[r] = at[r] /\ news'[r] = news[r] /\ promised' = promised
        /\ phase[r] = "save" /\ \A q \in Request : q # r => phase[q] = "save"
        /\ unseen' = unseen
    BY <1>1 DEF Read, Midway, userVars
  <2>2. Knows(Proc(r), at[r])
    BY <1>0, <2>1 DEF AskedInv, Configuring
  <2>3. QED BY <2>1, <2>2 DEF Done, Knows
<1>2. ASSUME NEW q \in Request, Save(q) \/ Write(q)
      PROVE  FALSE
  BY <1>2, SavedFrame
<1>3. CASE ~Read(r)
  <2>1. phase[r] # "save"
    <3>1. ASSUME NEW q \in Request, Read(q) PROVE phase[r] # "save"
      BY <1>3, <3>1 DEF Read, TypeOK
    <3>2. ASSUME NEW q \in Request, Truncate(q) PROVE phase[r] # "save"
      BY <3>2 DEF Truncate, TypeOK
    <3>3. ASSUME NEW q \in Request, Fail(q) PROVE phase[r] # "save"
      BY <3>3 DEF Fail
    <3>4. CASE DashRestarts
      BY <3>4 DEF DashRestarts
    <3>5. ASSUME NEW q \in Request,
                 \/ \E force \in BOOLEAN : Configure(q, force)
                 \/ \E s \in HttpsPort : Serve(q, s)
                 \/ ServeFails(q) \/ Return(q) \/ ServeReturn(q)
          PROVE  phase[r] # "save"
      BY <3>5 DEF Configure, Serve, ServeFails, Return, ServeReturn
    <3>6. CASE \/ UNCHANGED vars \/ GatewayStarts \/ GatewayStops
               \/ \E c \in Cli : CommandStarts(c)
      BY <3>6 DEF vars, CommandStarts, GatewayStarts, GatewayStops
    <3>7. CASE Edits
      BY <3>7, EditFrame
    <3>8. QED BY <1>2, <3>1, <3>2, <3>3, <3>4, <3>5, <3>6, <3>7
          DEF Next, RequestStep, Edits
  <2>2. Calm
    BY <1>2, <2>1, CalmSteps, EditFrame
  <2>3. at'[r] = at[r] /\ promised' = promised
    BY <2>1, <2>2 DEF Calm
  <2>4. news'[r] = news[r]
    <3>1. at[r] \in Key
      BY <2>1 DEF TypeOK
    <3>2. ASSUME NEW q \in Request, NEW e, Ends(q, e) PROVE news'[r] = news[r]
      BY <2>3, <3>1, <3>2 DEF Ends, TypeOK, Key
    <3>3. ASSUME NEW q \in Request, NEW force \in BOOLEAN, Configure(q, force)
          PROVE  news'[r] = news[r]
      BY <3>1, <3>3 DEF Configure, TypeOK, Key
    <3>4. ASSUME NEW q \in Request,
                 ServeFails(q) \/ ServeReturn(q) \/ Fail(q) \/ Return(q)
          PROVE  news'[r] = news[r]
      BY <3>2, <3>4 DEF ServeFails, ServeReturn, Fail, Return
    <3>5. CASE DashRestarts
      BY <2>3, <3>1, <3>5 DEF DashRestarts, Key
    <3>6. CASE UNCHANGED news
      BY <3>6
    <3>7. QED BY <1>2, <3>3, <3>4, <3>5, <3>6 DEF Next, RequestStep, vars, Serve,
          Read, Truncate, CommandStarts, GatewayStarts, GatewayStops, Edit
  <2>5. unseen[Proc(r)] \subseteq unseen'[Proc(r)]
    <3>1. ~Restarts(Proc(r))
      BY <1>0, <2>3, RestartFrame
    <3>2. QED BY <1>0, <1>2, <3>1, UnseenFrame
  <2>6. QED BY <1>0, <2>1, <2>3, <2>4, <2>5 DEF AskedInv
<1>4. QED BY <1>1, <1>3

(* A gateway that runs on keeps its settings.                              *)
LEMMA GatewayFrame ==
  ASSUME TypeOK, [Next]_vars, "gateway" \in running', ~GatewayStarts, ~torn'
  PROVE  /\ "gateway" \in running /\ conf' = conf /\ touched \subseteq touched'
         /\ ~announced' => ~announced
<1>0. "gateway" \notin Cli
  BY SetupAssumption DEF SetupAssumption
<1> DEFINE G == /\ "gateway" \in running /\ conf' = conf /\ touched \subseteq touched'
                /\ ~announced' => ~announced
<1>1. CASE UNCHANGED <<running, conf, touched, announced>>
  BY <1>1
<1>2. ASSUME NEW r \in Request, running' = running \ {r},
             UNCHANGED <<conf, touched, announced>>
      PROVE  G
  BY <1>2
<1>3. ASSUME NEW r \in Request, ServeFails(r) \/ ServeReturn(r) \/ Fail(r)
      PROVE  G
  BY <1>2, <1>3 DEF ServeFails, ServeReturn, Fail, Ends, userVars
<1>4. ASSUME NEW r \in Request, Return(r) PROVE G
  <2>1. running' \subseteq running /\ announced' = (announced \/ news[r].restart)
        /\ UNCHANGED <<conf, touched>>
    BY <1>4 DEF Return, Ends, userVars
  <2>2. ~announced' => ~announced
    BY ONLY <2>1
  <2>3. QED BY <2>1, <2>2
<1>5. ASSUME NEW r \in Request,
             \/ Read(r) \/ Truncate(r)
             \/ \E s \in HttpsPort : Serve(r, s)
             \/ \E force \in BOOLEAN : Configure(r, force)
      PROVE  G
  BY <1>1, <1>5 DEF Read, Truncate, Serve, Configure, userVars
<1>6. ASSUME NEW r \in Request, Save(r) \/ Write(r) PROVE G
  <2>1. UNCHANGED <<running, announced, conf>> /\ Overwrites(r)
    BY <1>6, SavedFrame
  <2>2. QED BY <2>1 DEF Overwrites, userVars
<1>7. ASSUME NEW c \in Cli, CommandStarts(c) PROVE G
  BY <1>0, <1>7 DEF CommandStarts
<1>8. CASE UNCHANGED vars \/ DashRestarts
  BY <1>1, <1>8 DEF vars, DashRestarts, userVars
<1>9. CASE GatewayStops
  BY <1>9 DEF GatewayStops
<1>10. CASE Edits
  BY <1>10, EditFrame
<1>q. QED BY <1>3, <1>4, <1>5, <1>6, <1>7, <1>8, <1>9, <1>10
      DEF Next, RequestStep, Edits

(* A setup that will ask for a restart still will.                         *)
LEMMA AsksStays ==
  ASSUME TypeOK, [Next]_vars, ~failed', ~torn', ~announced',
         NEW q \in Request, Asks(q)
  PROVE  Asks(q)'
<1>1. ASSUME NEW r \in Request, NEW e, Ends(r, e), r # q
      PROVE  Asks(q)'
  BY <1>1 DEF Ends, TypeOK, Asks
<1>2. ASSUME NEW r \in Request,
             \/ ServeFails(r) \/ ServeReturn(r)
             \/ \E s \in HttpsPort : Serve(r, s)
             \/ \E force \in BOOLEAN : Configure(r, force)
      PROVE  Asks(q)'
  <2>1. r # q
    BY <1>2 DEF ServeFails, ServeReturn, Serve, Configure, MayServe,
       Asks, Configuring
  <2>2. QED BY <1>1, <1>2, <2>1 DEF ServeFails, ServeReturn, Serve,
        Configure, TypeOK, Asks
<1>3. ASSUME NEW r \in Request, Return(r) PROVE Asks(q)'
  <2>1. r # q
    BY <1>3 DEF Return, Asks
  <2>2. QED BY <1>1, <1>3, <2>1 DEF Return, TypeOK, Asks
<1>4. ASSUME NEW r \in Request, Fail(r) PROVE Asks(q)'
  BY <1>4 DEF Fail
<1>5. ASSUME NEW r \in Request, Save(r) \/ Write(r) PROVE Asks(q)'
  <2>1. /\ at[r] \in Key /\ UNCHANGED news
        /\ at'[q] = IF q = r THEN Following[at[r]] ELSE at[q]
    BY <1>5, SavedFrame
  <2>2. QED BY <2>1, FollowingIs DEF Asks, Configuring, Key
<1>6. ASSUME UNCHANGED <<at, news>> PROVE Asks(q)'
  BY <1>6 DEF Asks
<1>7. ASSUME NEW r \in Request, Read(r) \/ Truncate(r) PROVE Asks(q)'
  BY <1>6, <1>7 DEF Read, Truncate
<1>8. CASE \/ UNCHANGED vars \/ GatewayStarts \/ GatewayStops \/ Edits
           \/ \E c \in Cli : CommandStarts(c)
  BY <1>6, <1>8 DEF vars, GatewayStarts, GatewayStops, CommandStarts, Edits, Edit
<1>9. CASE DashRestarts
  <2>1. q \notin Dash
    BY <1>9 DEF DashRestarts, Asks, Configuring
  <2>2. QED BY <1>9, <2>1 DEF DashRestarts, Asks
<1>10. QED BY <1>2, <1>3, <1>4, <1>5, <1>7, <1>8, <1>9
       DEF Next, RequestStep, Edits

(* The gateway.                                                            *)
LEMMA GatewayStep ==
  ASSUME TypeOK, KeptInv, WantsInv, AskedInv, [Next]_vars, ~failed', ~torn',
         "gateway" \in running', ~announced'
  PROVE  \/ \A k \in {"token", "host", "net"} :
              k \in touched' \/ conf'[k] = promised'[k]
         \/ \E q \in Request : Asks(q)'
<1>0. ~failed /\ ~torn
  BY HistoryStays
<1>1. CASE GatewayStarts
  <2>1. conf' = file /\ ~Cut /\ promised' = promised
    BY <1>1 DEF GatewayStarts
  <2>2. QED BY <1>0, <2>1 DEF KeptInv
<1>2. CASE ~GatewayStarts /\ \E q \in Request : Asks(q)
  BY <1>2, AsksStays
<1>3. CASE ~GatewayStarts /\ \A q \in Request : ~Asks(q)
  <2>1. "gateway" \in running /\ conf' = conf /\ touched \subseteq touched'
    BY <1>3, GatewayFrame
  <2>2. \A k \in {"token", "host", "net"} : k \in touched \/ conf[k] = promised[k]
    BY <1>0, <1>3, <2>1, GatewayFrame DEF AskedInv
  <2>3. ASSUME NEW k \in {"token", "host", "net"}
        PROVE  k \in touched' \/ promised'[k] = promised[k]
    <3>1. CASE Calm
      BY <3>1 DEF Calm
    <3>2. CASE Edits
      BY <2>1, <3>2, EditFrame DEF Restarting
    <3>3. ASSUME NEW r \in Request, Save(r) \/ Write(r), at[r] # k
          PROVE  promised'[k] = promised[k]
      BY <3>3, SavedFrame DEF TypeOK, Settings, Key
    <3>4. ASSUME NEW r \in Request, Save(r) \/ Write(r), at[r] = k
          PROVE  k \in touched' \/ promised'[k] = promised[k]
      <4>1. /\ Overwrites(r) /\ promised'[k] = want[r][k]
            /\ \A q \in Request : q # r => phase[q] = "save"
        BY <3>4, SavedFrame DEF TypeOK, Settings, Key
      <4>2. k \in {"host", "net"} /\ at[r] \in Configuring /\ ~news[r].restart
        BY <1>3, <3>4 DEF WantsInv, Asks, Configuring
      <4>3. want[r][k] = 1
        BY <4>2 DEF WantsInv
      <4>4. k \in unseen[Proc(r)] \/ promised[k] = 1
        <5>1. CASE phase[r] # "save"
          BY <1>0, <3>4, <4>2, <5>1 DEF AskedInv
        <5>2. CASE phase[r] = "save"
          <6>1. Knows(Proc(r), k)
            BY <1>0, <4>2 DEF AskedInv
          <6>2. QED BY <4>1, <5>2, <6>1 DEF Done, Knows
        <5>3. QED BY <5>1, <5>2
      <4>5. k \in unseen[Proc(r)] => k \in touched'
        BY <2>1, <3>4, <4>1 DEF Overwrites
      <4>6. QED BY <4>1, <4>3, <4>4, <4>5
    <3>5. QED BY <3>1, <3>2, <3>3, <3>4, CalmSteps
  <2>4. QED BY <2>1, <2>2, <2>3
<1>4. QED BY <1>1, <1>2, <1>3

LEMMA AskedStep ==
  TypeOK /\ KeptInv /\ WantsInv /\ PortInv /\ AskedInv /\ [Next]_vars => AskedInv'
BY EnvStep, SilentStep, MidwayStep, GatewayStep DEF AskedInv

(* A command with a request runs.                                          *)
LEMMA RunsStep ==
  ASSUME TypeOK, PortInv, [Next]_vars, NEW c \in Cli, at'[c] # "idle"
  PROVE  c \in running'
<1>0. c \in Request /\ (at[c] # "idle" => c \in running) /\ c # "gateway"
  BY ProcIs DEF PortInv, Request
<1>1. ASSUME NEW r \in Request, NEW e, Ends(r, e) PROVE c \in running'
  BY <1>0, <1>1 DEF Ends, TypeOK
<1>2. ASSUME NEW r \in Request, ServeFails(r) \/ ServeReturn(r) \/ Fail(r)
      PROVE  c \in running'
  BY <1>1, <1>2 DEF ServeFails, ServeReturn, Fail
<1>3. ASSUME NEW r \in Request, Return(r) PROVE c \in running'
  BY <1>0, <1>1, <1>3 DEF Return, TypeOK
<1>4. ASSUME NEW r \in Request, NEW force \in BOOLEAN, Configure(r, force)
      PROVE  c \in running'
  BY <1>0, <1>4 DEF Configure, TypeOK
<1>5. ASSUME NEW r \in Request, NEW s \in HttpsPort, Serve(r, s)
      PROVE  c \in running'
  BY <1>0, <1>5 DEF Serve, MayServe, TypeOK
<1>6. ASSUME NEW r \in Request, Save(r) \/ Write(r) PROVE c \in running'
  <2>1. at[r] \in Key /\ running' = running /\ Saved(r)
    BY <1>6 DEF Save, Write, TypeOK
  <2>2. at[c] # "idle"
    BY <1>0, <2>1 DEF Saved, TypeOK, Key
  <2>3. QED BY <1>0, <2>1, <2>2
<1>7. ASSUME NEW r \in Request, Read(r) \/ Truncate(r) PROVE c \in running'
  BY <1>0, <1>7 DEF Read, Truncate
<1>8. CASE \/ UNCHANGED vars \/ GatewayStarts \/ GatewayStops \/ Edits
           \/ \E d \in Cli : CommandStarts(d)
  BY <1>0, <1>8 DEF vars, GatewayStarts, GatewayStops, CommandStarts, Edits, Edit
<1>9. CASE DashRestarts
  BY <1>0, <1>9 DEF DashRestarts
<1>q. QED BY <1>2, <1>3, <1>4, <1>5, <1>6, <1>7, <1>8, <1>9
      DEF Next, RequestStep, Edits

(* What a step that sets an environment leaves the port.                   *)
LEMMA SetEnvPort ==
  ASSUME TypeOK, PortInv, ~failed, ~torn, NEW q \in Request, at[q] \in Key,
         SetEnv(q), NEW p \in Process
  PROVE  env'[p]["port"] = env[p]["port"]
<1>1. CASE p = Proc(q) /\ at[q] = "port"
  <2>1. env'[p]["port"] = want[q]["port"]
    BY <1>1 DEF SetEnv, TypeOK, Settings, Key
  <2>2. QED BY <1>1, <2>1 DEF PortInv, Configuring
<1>2. CASE p # Proc(q) \/ at[q] # "port"
  BY <1>2 DEF SetEnv, TypeOK, Settings, Key
<1>3. QED BY <1>1, <1>2

LEMMA PortInvStep == TypeOK /\ KeptInv /\ PortInv /\ [Next]_vars => PortInv'
<1> SUFFICES ASSUME TypeOK, KeptInv, PortInv, [Next]_vars PROVE PortInv'
  OBVIOUS
<1>1. ASSUME ~failed', ~torn', NEW r \in Request, at'[r] \in Configuring
      PROVE  want'[r]["port"] = env'[Proc(r)]["port"]
  <2>0. ~failed /\ ~torn /\ Proc(r) \in Process
    BY <1>1, HistoryStays, ProcIs
  <2>1. CASE \E force \in BOOLEAN : Configure(r, force)
    BY <2>1 DEF Configure, TypeOK, Empty, Key
  <2>2. CASE ~\E force \in BOOLEAN : Configure(r, force)
    <3>1. want'[r]["port"] = env[Proc(r)]["port"]
      BY <1>1, <2>0, <2>2, StaysConfiguring DEF PortInv
    <3>2. env'[Proc(r)]["port"] = env[Proc(r)]["port"]
      <4>1. ~Restarts(Proc(r))
        BY <1>1, <2>0, RestartFrame DEF Configuring
      <4>2. ~(Proc(r) \in Cli /\ at'[Proc(r)] = "idle")
        BY <1>1, SetupAssumption DEF SetupAssumption, Proc, Configuring
      <4>3. ASSUME NEW q \in Request, (Save(q) \/ Read(q)) /\ SetEnv(q)
            PROVE  env'[Proc(r)]["port"] = env[Proc(r)]["port"]
        <5>1. at[q] \in Key
          BY <4>3 DEF Save, Read
        <5>2. QED BY <2>0, <4>3, <5>1, SetEnvPort
      <4>4. QED BY <1>1, <2>0, <4>1, <4>2, <4>3, EnvFrame
    <3>3. QED BY <3>1, <3>2
  <2>3. QED BY <2>1, <2>2
<1>2. QED BY <1>1, RunsStep DEF PortInv

(* The port a process knows.                                               *)
LEMMA PortKnownStep ==
  ASSUME TypeOK, KeptInv, PortInv, PortSeen, [Next]_vars, ~failed', ~torn',
         NEW p \in Process, Lives(p)'
  PROVE  "port" \in unseen'[p] \/ env'[p]["port"] = promised'["port"]
<1>0. ~failed /\ ~torn
  BY HistoryStays
<1>1. CASE Restarts(p)
  BY <1>0, <1>1, RestartFrame
<1>2. CASE ~Restarts(p)
  <2>1. Lives(p)
    <3>1. SUFFICES ASSUME p # "dash", p \in running' PROVE p \in running
      BY DEF Lives
    <3>2. p \in Cli /\ p # "gateway" /\ ~CommandStarts(p)
      BY <1>2, <3>1, SetupAssumption DEF Process, Restarts, SetupAssumption
    <3>3. running' \subseteq running \/ running' = running \cup {"gateway"}
          \/ \E c \in Cli : CommandStarts(c)
      BY DEF Next, RequestStep, vars, Configure, Serve, ServeFails, Save, Read,
         Truncate, Write, Fail, Return, ServeReturn, Ends, GatewayStarts,
         GatewayStops, DashRestarts, Edit
    <3>4. QED BY <3>1, <3>2, <3>3 DEF CommandStarts
  <2>2. "port" \in unseen[p] \/ env[p]["port"] = promised["port"]
    BY <1>0, <2>1 DEF PortSeen
  <2>3. env'[p]["port"] = env[p]["port"]
    <3>1. ASSUME NEW q \in Request, (Save(q) \/ Read(q)) /\ SetEnv(q)
          PROVE  env'[p]["port"] = env[p]["port"]
      <4>1. at[q] \in Key
        BY <3>1 DEF Save, Read
      <4>2. QED BY <1>0, <3>1, <4>1, SetEnvPort
    <3>2. ~(p \in Cli /\ p \notin running')
      BY ProcIs DEF Lives
    <3>3. QED BY <1>2, <3>1, <3>2, EnvFrame
  <2>4. ASSUME NEW r \in Request, Save(r) \/ Write(r)
        PROVE  "port" \in unseen'[p] \/ env'[p]["port"] = promised'["port"]
    <3>1. /\ at[r] \in Key /\ Overwrites(r)
          /\ promised' = [promised EXCEPT ![at[r]] = want[r][at[r]]]
      BY <2>4, SavedFrame
    <3>2. CASE at[r] # "port"
      <4>1. promised'["port"] = promised["port"]
        BY <3>1, <3>2 DEF TypeOK, Settings, Key
      <4>2. "port" \in unseen[p] => "port" \in unseen'[p]
        BY <3>1, <3>2 DEF Overwrites, userVars, TypeOK
      <4>3. QED BY <2>2, <2>3, <4>1, <4>2
    <3>3. CASE at[r] = "port"
      <4>1. promised'["port"] = env[Proc(r)]["port"]
        BY <1>0, <3>1, <3>3 DEF PortInv, Configuring, TypeOK, Settings, Key
      <4>2. CASE p = Proc(r)
        BY <2>3, <4>1, <4>2
      <4>3. CASE p # Proc(r) /\ "port" \in unseen[Proc(r)]
        BY <3>1, <3>3, <4>3 DEF Overwrites, TypeOK
      <4>4. CASE p # Proc(r) /\ "port" \notin unseen[Proc(r)]
        <5>1. Proc(r) \in Process /\ Lives(Proc(r))
          BY <3>3, ProcIs DEF PortInv, Lives, Request
        <5>2. env[Proc(r)]["port"] = promised["port"]
          BY <1>0, <4>4, <5>1 DEF PortSeen
        <5>3. unseen' = unseen
          BY <3>1, <3>3, <4>4 DEF Overwrites, userVars
        <5>4. QED BY <2>2, <2>3, <4>1, <5>2, <5>3
      <4>5. QED BY <4>2, <4>3, <4>4
    <3>4. QED BY <3>2, <3>3
  <2>5. CASE Edits
    BY <2>2, <2>3, <2>5, EditFrame DEF Restarting
  <2>6. CASE Calm /\ unseen[p] \subseteq unseen'[p]
    BY <2>2, <2>3, <2>6 DEF Calm
  <2>7. QED BY <1>2, <2>4, <2>5, <2>6, CalmSteps, UnseenFrame
<1>3. QED BY <1>1, <1>2

LEMMA PortSeenStep ==
  TypeOK /\ KeptInv /\ PortInv /\ PortSeen /\ [Next]_vars => PortSeen'
<1> SUFFICES ASSUME TypeOK, KeptInv, PortInv, PortSeen, [Next]_vars PROVE PortSeen'
  OBVIOUS
<1>1. ASSUME ~failed', ~torn', "gateway" \in running'
      PROVE  "port" \in touched' \/ conf'["port"] = promised'["port"]
  <2>0. ~failed /\ ~torn
    BY <1>1, HistoryStays
  <2>1. CASE GatewayStarts
    <3>1. conf' = file /\ ~Cut /\ promised' = promised
      BY <1>1, <2>1 DEF GatewayStarts
    <3>2. QED BY <2>0, <3>1 DEF KeptInv
  <2>2. CASE ~GatewayStarts
    <3>1. "gateway" \in running /\ conf' = conf /\ touched \subseteq touched'
      BY <1>1, <2>2, GatewayFrame
    <3>2. "port" \in touched \/ conf["port"] = promised["port"]
      BY <2>0, <3>1 DEF PortSeen
    <3>3. CASE Calm
      BY <3>1, <3>2, <3>3 DEF Calm
    <3>4. CASE Edits
      BY <1>1, <3>1, <3>2, <3>4, EditFrame DEF Restarting
    <3>5. ASSUME NEW r \in Request, Save(r) \/ Write(r)
          PROVE  "port" \in touched' \/ promised'["port"] = promised["port"]
      <4>1. /\ at[r] \in Key /\ Overwrites(r)
            /\ promised' = [promised EXCEPT ![at[r]] = want[r][at[r]]]
        BY <1>1, <3>5, SavedFrame
      <4>2. CASE at[r] # "port"
        BY <4>1, <4>2 DEF TypeOK, Settings, Key
      <4>3. CASE at[r] = "port" /\ "port" \in unseen[Proc(r)]
        BY <3>1, <4>1, <4>3 DEF Overwrites
      <4>4. CASE at[r] = "port" /\ "port" \notin unseen[Proc(r)]
        <5>1. Proc(r) \in Process /\ Lives(Proc(r))
          BY <4>4, ProcIs DEF PortInv, Lives, Request
        <5>2. env[Proc(r)]["port"] = promised["port"]
          BY <2>0, <4>4, <5>1 DEF PortSeen
        <5>3. promised'["port"] = env[Proc(r)]["port"]
          BY <2>0, <4>1, <4>4 DEF PortInv, Configuring, TypeOK, Settings, Key
        <5>4. QED BY <5>2, <5>3
      <4>5. QED BY <4>2, <4>3, <4>4
    <3>6. QED BY <1>1, <3>1, <3>2, <3>3, <3>4, <3>5, CalmSteps
  <2>3. QED BY <2>1, <2>2
<1>2. QED BY <1>1, PortKnownStep DEF PortSeen

(* When no setup is in progress, none has failed and nothing was torn, the *)
(* gateway runs with the restarting settings of the file, a restart was    *)
(* asked for, or the user edited the key (or a process overwrote his edit  *)
(* unseen), for any number of threads, commands, edits and settings to     *)
(* begin with (configure_local_bridge).                                    *)
THEOREM RestartAnnouncedCorrect == Spec => []RestartAnnounced
<1> DEFINE IInv == KeptInv /\ WantsInv /\ PortInv /\ AskedInv /\ PortSeen
<1>1. Init => IInv
  <2> SUFFICES ASSUME Init PROVE IInv
    OBVIOUS
  <2>1. Empty["host"] = 0 /\ Empty["net"] = 0
    BY DEF Empty, Key
  <2>2. /\ env["dash"] = promised /\ "dash" \notin Cli
        /\ \A p \in Process : p # "dash" => env[p] = Empty /\ ~Lives(p)
    BY SetupAssumption DEF Init, Process, Lives, SetupAssumption
  <2>3. KeptInv /\ WantsInv /\ PortInv
    <3>1. /\ file = promised /\ \A r \in Request : at[r] = "idle" /\ phase[r] = "save"
          /\ \A c \in Cli : at[c] = "idle"
      BY DEF Init, Request
    <3>2. QED BY <3>1 DEF KeptInv, Cut, WantsInv, PortInv, Configuring
  <2>4. AskedInv
    <3>1. ASSUME NEW p \in Process, NEW k \in {"host", "net"}, env[p][k] = 1
          PROVE  Knows(p, k)
      BY <2>1, <2>2, <3>1 DEF Knows, Done
    <3>2. QED BY <3>1 DEF Init, AskedInv, Configuring
  <2>5. PortSeen
    BY <2>2 DEF Init, PortSeen
  <2>6. QED BY <2>3, <2>4, <2>5
<1>2. TypeOK /\ IInv => RestartAnnounced
  <2> SUFFICES ASSUME TypeOK, IInv,
                      "gateway" \in running, Quiet, ~failed, ~torn, ~announced,
                      NEW k \in Restarting
               PROVE  conf[k] = file[k] \/ k \in touched
    BY DEF RestartAnnounced
  <2>1. \A q \in Request : ~Asks(q) /\ phase[q] = "save"
    BY DEF Quiet, Asks, Configuring, TypeOK, Key
  <2>2. file = promised
    BY <2>1 DEF KeptInv, Cut
  <2>3. QED BY <2>1, <2>2 DEF AskedInv, PortSeen, Restarting
<1>3. TypeOK /\ IInv /\ [Next]_vars => IInv'
  BY KeptStep, WantsStep, PortInvStep, AskedStep, PortSeenStep
<1>4. QED BY <1>1, <1>2, <1>3, InitTypeOK, TypeOKStep, PTL DEF Spec
=============================================================================
