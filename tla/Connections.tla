----------------------------- MODULE Connections -----------------------------
(***************************************************************************)
(* The connection registry (connections.py) under the WebSocket server     *)
(* that fills it (server.py).  The actors are the per-connection handler   *)
(* coroutines, the send_frame coroutines of everybody who pushes a frame   *)
(* to a device, the network under a connection, and the gateway that       *)
(* starts, stops and loses the server.  All coroutines share one event     *)
(* loop, so an action is what runs between two suspension points: an       *)
(* await that really suspends ends the action, code without one does not.  *)
(***************************************************************************)
EXTENDS Naturals, FiniteSets

CONSTANTS
  Chat,        \* device names: the chat_id of a hello
  Conn,        \* accepted WebSocket connections, each used once
  NoConn,      \* no socket registered
  NoChat,      \* a connection that has not said hello
  MaxFaults,   \* bound: status-file writes that fail
  MaxDowns     \* bound: stops and crashes of the server

ASSUME ConnAssumption ==
  /\ NoConn \notin Conn
  /\ NoChat \notin Chat
  /\ IsFiniteSet(Chat)
  /\ MaxFaults \in Nat
  /\ MaxDowns \in Nat

VARIABLES
  net,       \* net[k]: the transport under connection k
  pc,        \* pc[k]: where the handler coroutine of k is suspended
  device,    \* device[k]: the chat_id k said hello with
  first,     \* first[k]: the first frame ever written to k
  ws,        \* ws[c]: the registry's socket of chat c
  sends,     \* <<c, k>>: a send_frame for c suspended in k.send
  connected, \* the status file's "connected" field
  serving,   \* the server is listening
  newest,    \* newest[c]: history, the connection registered last for c
  faults,    \* status-file writes that failed so far
  downs      \* stops and crashes so far

vars == <<net, pc, device, first, ws, sends, connected, serving, newest,
          faults, downs>>

(* "gone" is a peer that vanished without closing: the socket still takes  *)
(* writes until the keepalive ping of the websockets library gives up.     *)
NetStates  == {"unused", "open", "gone", "closed"}
PcStates   == {"none", "hello", "greet", "loop", "dispatch", "done"}
FirstFrame == {"none", "hello.ok", "push"}

Registered   == {c \in Chat : ws[c] # NoConn}
Count        == Cardinality(Registered)
Writable(k)  == net[k] \in {"open", "gone"}
Handled(k)   == pc[k] \in {"greet", "loop", "dispatch"}

TypeOK ==
  /\ net \in [Conn -> NetStates]
  /\ pc \in [Conn -> PcStates]
  /\ device \in [Conn -> Chat \cup {NoChat}]
  /\ first \in [Conn -> FirstFrame]
  /\ ws \in [Chat -> Conn \cup {NoConn}]
  /\ sends \subseteq Chat \X Conn
  /\ connected \in Nat
  /\ serving \in BOOLEAN
  /\ newest \in [Chat -> Conn \cup {NoConn}]
  /\ faults \in 0..MaxFaults
  /\ downs \in 0..MaxDowns

Init ==
  /\ net = [k \in Conn |-> "unused"]
  /\ pc = [k \in Conn |-> "none"]
  /\ device = [k \in Conn |-> NoChat]
  /\ first = [k \in Conn |-> "none"]
  /\ ws = [c \in Chat |-> NoConn]
  /\ sends = {}
  /\ connected = 0
  /\ serving = FALSE
  /\ newest = [c \in Chat |-> NoConn]
  /\ faults = 0
  /\ downs = 0
-----------------------------------------------------------------------------
(* The registry's operations.                                              *)

Register(c, k) == [ws EXCEPT ![c] = k]

DropAny(c, k) == [ws EXCEPT ![c] = NoConn]   \* unregister without its guard
Unregister(c, k) == IF ws[c] = k THEN [ws EXCEPT ![c] = NoConn] ELSE ws

(* refresh_status once the registry holds r: the file takes the new count. *)
Written(r) ==
  /\ connected' = Cardinality({c \in Chat : r[c] # NoConn})
  /\ UNCHANGED faults

(* The write raises (a full disk, a lost directory): the file is as it was. *)
WriteFails ==
  /\ faults < MaxFaults
  /\ faults' = faults + 1
  /\ UNCHANGED connected
-----------------------------------------------------------------------------
(* The handler coroutine of a connection.                                  *)

Accept(k) ==
  /\ serving
  /\ net[k] = "unused"
  /\ net' = [net EXCEPT ![k] = "open"]
  /\ pc' = [pc EXCEPT ![k] = "hello"]
  /\ UNCHANGED <<device, first, ws, sends, connected, serving, newest, faults,
                 downs>>

(* No hello, an unparsable one or a wrong token: close 1008 and return.    *)
RejectHello(k) ==
  /\ pc[k] = "hello"
  /\ pc' = [pc EXCEPT ![k] = "done"]
  /\ net' = [net EXCEPT ![k] = "closed"]
  /\ UNCHANGED <<device, first, ws, sends, connected, serving, newest, faults,
                 downs>>

LateGreeting(k, c) ==                  \* hello.ok left to a later write
  /\ pc[k] = "hello" /\ Writable(k)
  /\ device' = [device EXCEPT ![k] = c]
  /\ newest' = [newest EXCEPT ![c] = k]
  /\ ws' = Register(c, k)
  /\ Written(Register(c, k))
  /\ pc' = [pc EXCEPT ![k] = "greet"]
  /\ UNCHANGED <<net, first, sends, serving, downs>>

(* A good hello: register, refresh the status, write hello.ok, all before  *)
(* the handler first suspends (in the drain of that write).                *)
Hello(k, c) ==
  /\ pc[k] = "hello" /\ Writable(k)
  /\ device' = [device EXCEPT ![k] = c]
  /\ newest' = [newest EXCEPT ![c] = k]
  /\ ws' = Register(c, k)
  /\ Written(Register(c, k))
  /\ first' = [first EXCEPT ![k] = "hello.ok"]
  /\ pc' = [pc EXCEPT ![k] = "greet"]
  /\ UNCHANGED <<net, sends, serving, downs>>

(* The client sent its hello and was closed before the handler read it:    *)
(* the write of hello.ok raises at once and the finally block runs.  The   *)
(* dead newcomer has taken the chat's entry from any older connection.     *)
HelloTooLate(k, c) ==
  /\ pc[k] = "hello" /\ net[k] = "closed"
  /\ device' = [device EXCEPT ![k] = c]
  /\ newest' = [newest EXCEPT ![c] = k]
  /\ ws' = [ws EXCEPT ![c] = NoConn]
  /\ \/ Written([ws EXCEPT ![c] = NoConn])
     \/ /\ faults < MaxFaults     \* the second of the two writes raises
        /\ faults' = faults + 1
        /\ connected' = Cardinality({d \in Chat : Register(c, k)[d] # NoConn})
  /\ pc' = [pc EXCEPT ![k] = "done"]
  /\ UNCHANGED <<net, first, sends, serving, downs>>

(* refresh_status raises between register and the try block: the handler   *)
(* ends without its finally, and the library closes the connection.        *)
HelloUnrecorded(k, c) ==
  /\ pc[k] = "hello" /\ net[k] # "unused"
  /\ WriteFails
  /\ device' = [device EXCEPT ![k] = c]
  /\ newest' = [newest EXCEPT ![c] = k]
  /\ ws' = Register(c, k)
  /\ pc' = [pc EXCEPT ![k] = "done"]
  /\ net' = [net EXCEPT ![k] = "closed"]
  /\ UNCHANGED <<first, sends, serving, downs>>

Greeted(k) ==
  /\ pc[k] = "greet" /\ Writable(k)
  /\ pc' = [pc EXCEPT ![k] = "loop"]
  /\ UNCHANGED <<net, device, first, ws, sends, connected, serving, newest,
                 faults, downs>>

(* One client frame.  Frames received before a close are still handed out. *)
(* A text turn rewrites the count; a write that raises there is caught and *)
(* answered with an error frame, as any exception of a dispatch is.        *)
Dispatch(k) ==
  /\ pc[k] = "loop"
  /\ pc' = [pc EXCEPT ![k] = "dispatch"]
  /\ \/ Written(ws)
     \/ WriteFails
     \/ UNCHANGED <<connected, faults>>
  /\ UNCHANGED <<net, device, first, ws, sends, serving, newest, downs>>

EndDispatch(k) ==
  /\ pc[k] = "dispatch"
  /\ pc' = [pc EXCEPT ![k] = "loop"]
  /\ UNCHANGED <<net, device, first, ws, sends, connected, serving, newest,
                 faults, downs>>

TeardownUnrefreshed(k) ==              \* the finally block forgets the status
  /\ pc[k] \in {"greet", "loop"} /\ net[k] = "closed"
  /\ ws' = Unregister(device[k], k)
  /\ pc' = [pc EXCEPT ![k] = "done"]
  /\ UNCHANGED <<net, device, first, sends, connected, serving, newest,
                 faults, downs>>

TeardownKeepsEntry(k) ==               \* the finally block forgets the entry
  /\ pc[k] \in {"greet", "loop"} /\ net[k] = "closed"
  /\ Written(ws)
  /\ pc' = [pc EXCEPT ![k] = "done"]
  /\ UNCHANGED <<net, device, first, ws, sends, serving, newest, downs>>

TeardownByHand(k) ==                   \* the count is decremented, not read
  /\ pc[k] \in {"greet", "loop"} /\ net[k] = "closed"
  /\ ws' = Unregister(device[k], k)
  /\ connected' = connected - 1
  /\ pc' = [pc EXCEPT ![k] = "done"]
  /\ UNCHANGED <<net, device, first, sends, serving, newest, faults, downs>>

(* The closed connection ends the drain or the frame loop: finally.        *)
Teardown(k) ==
  /\ pc[k] \in {"greet", "loop"} /\ net[k] = "closed"
  /\ ws' = Unregister(device[k], k)
  /\ \/ Written(Unregister(device[k], k))
     \/ WriteFails
  /\ pc' = [pc EXCEPT ![k] = "done"]
  /\ UNCHANGED <<net, device, first, sends, serving, newest, downs>>
-----------------------------------------------------------------------------
(* send_frame: replies, poller frames and tool hooks, from any task.       *)

(* The socket is looked up once, and the frame is written to it before the *)
(* coroutine suspends in the drain.  No socket: the frame is dropped.      *)
SendFrame(c) ==
  /\ ws[c] # NoConn /\ Writable(ws[c])
  /\ sends' = sends \cup {<<c, ws[c]>>}
  /\ first' = [first EXCEPT ![ws[c]] = IF @ = "none" THEN "push" ELSE @]
  /\ UNCHANGED <<net, pc, device, ws, connected, serving, newest, faults, downs>>

(* The write raises at once: the socket is unregistered, the status is not *)
(* refreshed.                                                              *)
SendRefused(c) ==
  /\ ws[c] # NoConn /\ net[ws[c]] = "closed"
  /\ ws' = Unregister(c, ws[c])
  /\ UNCHANGED <<net, pc, device, first, sends, connected, serving, newest,
                 faults, downs>>

SendDone(c, k) ==
  /\ <<c, k>> \in sends /\ Writable(k)
  /\ sends' = sends \ {<<c, k>>}
  /\ UNCHANGED <<net, pc, device, first, ws, connected, serving, newest, faults,
                 downs>>

(* The connection closed during the drain: the late failure drops the      *)
(* entry only if it is still the socket that failed.                       *)
SendFailed(c, k) ==
  /\ <<c, k>> \in sends /\ net[k] = "closed"
  /\ sends' = sends \ {<<c, k>>}
  /\ ws' = Unregister(c, k)
  /\ UNCHANGED <<net, pc, device, first, connected, serving, newest, faults,
                 downs>>
-----------------------------------------------------------------------------
(* The network and the gateway.                                            *)

Close(k) ==
  /\ net[k] = "open"
  /\ net' = [net EXCEPT ![k] = "closed"]
  /\ UNCHANGED <<pc, device, first, ws, sends, connected, serving, newest,
                 faults, downs>>

Vanish(k) ==
  /\ net[k] = "open"
  /\ net' = [net EXCEPT ![k] = "gone"]
  /\ UNCHANGED <<pc, device, first, ws, sends, connected, serving, newest,
                 faults, downs>>

KeepaliveTimeout(k) ==
  /\ net[k] = "gone"
  /\ net' = [net EXCEPT ![k] = "closed"]
  /\ UNCHANGED <<pc, device, first, ws, sends, connected, serving, newest,
                 faults, downs>>

StopListening ==                       \* the open connections are left alone
  /\ serving /\ downs < MaxDowns
  /\ serving' = FALSE
  /\ downs' = downs + 1
  /\ UNCHANGED <<net, pc, device, first, ws, sends, connected, newest, faults>>

(* BridgeServer.stop: every connection is closed, the handlers run on.     *)
Stop ==
  /\ serving /\ downs < MaxDowns
  /\ serving' = FALSE
  /\ downs' = downs + 1
  /\ net' = [k \in Conn |-> IF Writable(k) THEN "closed" ELSE net[k]]
  /\ UNCHANGED <<pc, device, first, ws, sends, connected, newest, faults>>

(* The gateway process dies; only the status file outlives it.             *)
Crash ==
  /\ serving /\ downs < MaxDowns
  /\ serving' = FALSE
  /\ downs' = downs + 1
  /\ net' = [k \in Conn |-> IF net[k] = "unused" THEN "unused" ELSE "closed"]
  /\ pc' = [k \in Conn |-> IF net[k] = "unused" THEN "none" ELSE "done"]
  /\ ws' = [c \in Chat |-> NoConn]
  /\ newest' = [c \in Chat |-> NoConn]
  /\ sends' = {}
  /\ UNCHANGED <<device, first, connected, faults>>

(* connect: listen, then write connected=0; if that write raises the       *)
(* server is stopped again.  disconnect has waited for every handler.      *)
Connect ==
  /\ ~serving
  /\ \A k \in Conn : pc[k] \in {"none", "done"}
  /\ \/ serving' = TRUE /\ connected' = 0 /\ UNCHANGED faults
     \/ WriteFails /\ UNCHANGED serving
  /\ UNCHANGED <<net, pc, device, first, ws, sends, newest, downs>>

ConnStep(k) ==
  \/ Accept(k) \/ RejectHello(k) \/ Greeted(k) \/ Dispatch(k) \/ EndDispatch(k)
  \/ Teardown(k) \/ Close(k) \/ Vanish(k) \/ KeepaliveTimeout(k)

HelloStep(k, c) == Hello(k, c) \/ HelloTooLate(k, c) \/ HelloUnrecorded(k, c)
SendStep(k, c)  == SendDone(c, k) \/ SendFailed(c, k)

Next ==
  \/ \E k \in Conn : ConnStep(k)
  \/ \E k \in Conn, c \in Chat : HelloStep(k, c) \/ SendStep(k, c)
  \/ \E c \in Chat : SendFrame(c) \/ SendRefused(c)
  \/ Stop \/ Crash \/ Connect

Spec == Init /\ [][Next]_vars

(* The event loop runs every ready coroutine, and the keepalive ping of a  *)
(* vanished peer times out.  Nothing is assumed of a dispatch: on_audio    *)
(* and handle_message have no timeout.  A client that never says hello is  *)
(* only let go when its connection closes.  Strong fairness for Teardown:  *)
(* a closed connection has finitely many frames left to dispatch, so its   *)
(* handler cannot go round the loop forever.                               *)
Fairness ==
  /\ \A k \in Conn : /\ WF_vars(Greeted(k))
                     /\ WF_vars(KeepaliveTimeout(k))
                     /\ SF_vars(Teardown(k))
                     /\ WF_vars(net[k] = "closed" /\ RejectHello(k))
  /\ \A c \in Chat, k \in Conn : WF_vars(SendFailed(c, k))

FairSpec == Spec /\ Fairness
-----------------------------------------------------------------------------
(* Properties.                                                             *)

(* The connection registered last for a device stays the one its frames go *)
(* to for as long as it can take them: no teardown and no failed send of   *)
(* an older connection of the same device ever drops it (connections.py's  *)
(* guard in unregister).                                                   *)
NewestServed ==
  \A c \in Chat : \A k \in Conn :
    newest[c] = k /\ Handled(k) /\ Writable(k) => ws[c] = k

(* Nothing reaches a client before hello.ok: between register, which opens *)
(* the connection to every other task's frames, and the write of hello.ok  *)
(* the handler never suspends.                                             *)
HelloFirst == \A k \in Conn : first[k] # "push"

(* Every entry of the registry has a handler that will remove it, and is   *)
(* the handler's own device; only a failed status write leaves one behind. *)
NoLeakedEntry ==
  faults = 0 => \A c \in Chat :
    ws[c] # NoConn => device[ws[c]] = c /\ Handled(ws[c])

(* The dashboard's count is wrong only while the handler of a connection   *)
(* that a failed send already unregistered has yet to finish.              *)
StatusLagsOnlyBehindDeadSocket ==
  serving /\ faults = 0 /\ connected # Count =>
    \E k \in Conn : Handled(k) /\ net[k] = "closed" /\ ws[device[k]] # k

(* The registry keeps DeviceLink's promise: whatever handlers, failed      *)
(* sends and reconnects do to an entry, a live connection loses it only to *)
(* a newer one or with the gateway, and none ever gets it back.            *)
LinkOf(c) ==
  IF ws[c] = NoConn THEN "down" ELSE IF net[ws[c]] = "open" THEN "up" ELSE "dying"
Links == [c \in Chat |-> LinkOf(c)]
Greeters == {k \in Conn : device[k] # NoChat}

Promise == INSTANCE DeviceLink WITH
  Device <- Chat, Link <- Conn, NoLink <- NoConn,
  holder <- ws, state <- Links, used <- Greeters, running <- serving
LinkKept == Promise!Spec

(* No handler stays inside one dispatch for good.                          *)
DispatchesReturn == \A k \in Conn : []<>(pc[k] # "dispatch")

(* What the dashboard shows becomes right again, unless the file cannot be *)
(* written or a handler never comes back from a dispatch.                  *)
StatusCatchesUp ==
  DispatchesReturn =>
    ((serving /\ connected # Count) ~> (connected = Count \/ ~serving \/ faults > 0))

(* server.stop waits for the handlers of the connections it closed, and    *)
(* nothing but a dispatch that never returns keeps it waiting: no drain,   *)
(* unread hello, vanished peer, frame still buffered or failed write does. *)
StopEnds ==
  DispatchesReturn =>
    (~serving ~> (serving \/ \A k \in Conn : pc[k] \in {"none", "done"}))
=============================================================================
