------------------------------ MODULE Sessions ------------------------------
(***************************************************************************)
(* Which session a device is in (adapter.py: on_sessions_switch,           *)
(* on_sessions_new, on_sessions_list, on_text; server.py: hello.ok and     *)
(* _dispatch; hooks.py).  Three parties hold an idea of it: the gateway's  *)
(* session store, the adapter's _session_by_chat, and the device, which    *)
(* knows what the frames told it.  Handlers change the first two and tell  *)
(* the third in several frames, and may be suspended in each; two handlers *)
(* of one device overlap after a reconnect.  Tool hooks read the map on    *)
(* the agent's thread and leave their frame to the event loop.             *)
(* The store and the agent are external.                                   *)
(***************************************************************************)
EXTENDS Naturals, Sequences

CONSTANTS
  Chat,
  Handler,     \* connection handlers a device can have at a time
  Session,     \* session ids
  NoSession,   \* no session, "" in the frames
  MaxOps,      \* bound: frames handled, over all devices
  MaxResets,   \* bound: sessions the gateway starts by itself
  MaxFails,    \* bound: exceptions of the store and the gateway
  MaxTools,    \* bound: tool calls
  MaxLinks     \* bound: connections lost

ASSUME SessionsAssumption ==
  /\ NoSession \notin Session
  /\ {MaxOps, MaxResets, MaxFails, MaxTools, MaxLinks} \subseteq Nat

VARIABLES
  store,    \* store[c]: the store's session of the device's session_key
  used,     \* session ids that exist
  active,   \* _session_by_chat
  op,       \* op[c][h]: what handler h has still to send, and of which session
  link,     \* link[c]: the device has a connection
  told,     \* told[c]: the active session the connection was last told
  shown,    \* shown[c]: sessions whose history it got since told changed
  chosen,   \* chosen[c]: history, told came from a switch or new on this link
  turn,     \* turn[c]: session of the turn whose poller has not listed yet
  apart,    \* apart[c]: history, why the map may differ from the store
  unsaid,   \* unsaid[c]: history, an exception ate the frame that would tell
  inbox,    \* tool frames scheduled on the event loop
  ops, resets, fails, tools, links   \* counted against their bounds

counts == <<ops, resets, fails, tools, links>>
vars == <<store, used, active, op, link, told, shown, chosen, turn, apart,
          unsaid, inbox, counts>>

Sid   == Session \cup {NoSession}
Idle  == [todo |-> "nothing", sid |-> NoSession]
Todos == {"nothing", "history", "list then history"}
Reasons == {"no", "restart", "refused", "gateway"}
Quiet(c) == \A h \in Handler : op[c][h] = Idle

TypeOK ==
  /\ store \in [Chat -> Sid] /\ active \in [Chat -> Sid]
  /\ used \subseteq Session
  /\ op \in [Chat -> [Handler -> [todo : Todos, sid : Sid]]]
  /\ link \in [Chat -> BOOLEAN]
  /\ told \in [Chat -> Sid]
  /\ shown \in [Chat -> SUBSET Session]
  /\ chosen \in [Chat -> BOOLEAN]
  /\ turn \in [Chat -> Sid]
  /\ apart \in [Chat -> Reasons] /\ unsaid \in [Chat -> BOOLEAN]
  /\ inbox \in Seq(Chat \X Session)
  /\ ops \in 0..MaxOps /\ resets \in 0..MaxResets /\ fails \in 0..MaxFails
  /\ tools \in 0..MaxTools /\ links \in 0..MaxLinks

(* The gateway has started and every device has just said its first hello. *)
(* The store outlives the process, the map does not.                       *)
Init ==
  /\ used \in SUBSET Session
  /\ store \in [Chat -> used \cup {NoSession}]
  /\ active = [c \in Chat |-> NoSession]
  /\ op = [c \in Chat |-> [h \in Handler |-> Idle]]
  /\ link = [c \in Chat |-> TRUE]
  /\ told = [c \in Chat |-> NoSession]
  /\ shown = [c \in Chat |-> {}]
  /\ chosen = [c \in Chat |-> FALSE]
  /\ turn = [c \in Chat |-> NoSession]
  /\ apart = [c \in Chat |-> IF store[c] = NoSession THEN "no" ELSE "restart"]
  /\ unsaid = [c \in Chat |-> FALSE]
  /\ inbox = <<>>
  /\ ops = 0 /\ resets = 0 /\ fails = 0 /\ tools = 0 /\ links = 0
-----------------------------------------------------------------------------
(* Frames.  A device without a connection gets none.                       *)

(* hello.ok, active and sessions carry the active session.                 *)
Tell(c, s) ==
  /\ unsaid' = [unsaid EXCEPT ![c] = @ /\ ~link[c]]
  /\ IF link[c] /\ told[c] # s
     THEN told' = [told EXCEPT ![c] = s] /\ shown' = [shown EXCEPT ![c] = {}]
     ELSE UNCHANGED <<told, shown>>

Show(c, s) ==
  /\ shown' = IF link[c] THEN [shown EXCEPT ![c] = @ \cup {s}] ELSE shown
  /\ UNCHANGED <<told, unsaid>>

(* The store and the map move together, with no suspension in between.     *)
Move(c, s) ==
  /\ store' = [store EXCEPT ![c] = s]
  /\ active' = [active EXCEPT ![c] = s]
  /\ apart' = [apart EXCEPT ![c] = "no"]

StartOp(c, h) ==
  /\ op[c][h] = Idle /\ ops < MaxOps
  /\ ops' = ops + 1
  /\ UNCHANGED <<resets, tools, links>>

Raise(c) ==
  /\ fails < MaxFails /\ fails' = fails + 1
  /\ unsaid' = [unsaid EXCEPT ![c] = TRUE]
-----------------------------------------------------------------------------
(* The handlers.                                                           *)

SwitchUntold(c, h, s) ==              \* no active frame before the history
  /\ StartOp(c, h) /\ s \in used
  /\ Move(c, s)
  /\ chosen' = [chosen EXCEPT ![c] = link[c]]
  /\ op' = [op EXCEPT ![c][h] = [todo |-> "history", sid |-> s]]
  /\ UNCHANGED <<used, link, told, shown, unsaid, turn, inbox, fails>>

(* The store does not switch, for want of an entry say.  Its answer is not *)
(* looked at: the map and the device move all the same.                    *)
Refused(c, s) ==
  /\ s # store[c]
  /\ active' = [active EXCEPT ![c] = s]
  /\ apart' = [apart EXCEPT ![c] = "refused"]
  /\ UNCHANGED store

(* on_sessions_switch up to the drain of the active frame.                 *)
Switch(c, h, s) ==
  /\ StartOp(c, h) /\ s \in used
  /\ Move(c, s) \/ Refused(c, s)
  /\ Tell(c, s)
  /\ chosen' = [chosen EXCEPT ![c] = link[c]]
  /\ op' = [op EXCEPT ![c][h] = [todo |-> "history", sid |-> s]]
  /\ UNCHANGED <<used, link, turn, inbox, fails>>

(* on_sessions_new: the store makes a session.                             *)
New(c, h, s) ==
  /\ StartOp(c, h) /\ s \notin used
  /\ used' = used \cup {s}
  /\ Move(c, s)
  /\ Tell(c, s)
  /\ chosen' = [chosen EXCEPT ![c] = link[c]]
  /\ op' = [op EXCEPT ![c][h] = [todo |-> "list then history", sid |-> s]]
  /\ UNCHANGED <<link, turn, inbox, fails>>

(* Its session list names the session that is active when it is written.   *)
NewList(c, h) ==
  /\ op[c][h].todo = "list then history"
  /\ Tell(c, active[c])
  /\ op' = [op EXCEPT ![c][h] = [todo |-> "history", sid |-> @.sid]]
  /\ UNCHANGED <<store, used, active, link, chosen, turn, apart, inbox, counts>>

(* Building the list raises: an error frame in place of list and history.  *)
NewRaises(c, h) ==
  /\ op[c][h].todo = "list then history"
  /\ fails < MaxFails /\ fails' = fails + 1
  /\ chosen' = [chosen EXCEPT ![c] = FALSE]
  /\ op' = [op EXCEPT ![c][h] = Idle]
  /\ UNCHANGED <<store, used, active, link, told, shown, turn, apart, unsaid,
                 inbox, ops, resets, tools, links>>

HistoryAfterClear(c, h) ==            \* the id is read after it was cleared
  /\ op[c][h].todo = "history"
  /\ Show(c, Idle.sid)
  /\ op' = [op EXCEPT ![c][h] = Idle]
  /\ UNCHANGED <<store, used, active, link, chosen, turn, apart, inbox, counts>>

(* The history is of the session the operation was about, whatever became  *)
(* active while the handler was suspended; a load that fails is told too.  *)
History(c, h) ==
  /\ op[c][h].todo = "history"
  /\ Show(c, op[c][h].sid)
  /\ op' = [op EXCEPT ![c][h] = Idle]
  /\ UNCHANGED <<store, used, active, link, chosen, turn, apart, inbox, counts>>

(* on_sessions_list for the device.                                        *)
List(c, h) ==
  /\ StartOp(c, h)
  /\ Tell(c, active[c])
  /\ UNCHANGED <<store, used, active, op, link, chosen, turn, apart, inbox,
                 fails>>

(* The store's session, or a new one when there is none or it has expired. *)
OwnOrNew(c, s) == (s = store[c] /\ s # NoSession) \/ s \in Session \ used

TextKeepsMap(c, h, s) ==              \* only switch and new write the map
  /\ StartOp(c, h) /\ OwnOrNew(c, s)
  /\ used' = used \cup {s}
  /\ store' = [store EXCEPT ![c] = s]
  /\ turn' = [turn EXCEPT ![c] = s]
  /\ UNCHANGED <<active, op, link, told, shown, chosen, apart, unsaid, inbox,
                 fails>>

(* on_text.  No frame tells the device; the list its poller sends does,    *)
(* unless handle_message raises and there is no poller.                    *)
Text(c, h, s) ==
  /\ StartOp(c, h) /\ OwnOrNew(c, s)
  /\ used' = used \cup {s}
  /\ Move(c, s)
  /\ chosen' = [chosen EXCEPT ![c] = @ /\ active[c] = s]
  /\ \/ turn' = [turn EXCEPT ![c] = s] /\ UNCHANGED <<unsaid, fails>>
     \/ Raise(c) /\ UNCHANGED turn
  /\ UNCHANGED <<op, link, told, shown, inbox>>
-----------------------------------------------------------------------------
(* The poller, the connection and the gateway.                             *)

PollerTellsTurn(c) ==                 \* the list names the session of the turn
  /\ turn[c] # NoSession
  /\ Tell(c, turn[c])
  /\ turn' = [turn EXCEPT ![c] = NoSession]
  /\ UNCHANGED <<store, used, active, op, link, chosen, apart, inbox, counts>>

(* The session list at the end of a turn.                                  *)
PollerList(c) ==
  /\ turn[c] # NoSession
  /\ Tell(c, active[c])
  /\ turn' = [turn EXCEPT ![c] = NoSession]
  /\ UNCHANGED <<store, used, active, op, link, chosen, apart, inbox, counts>>

PollerRaises(c) ==
  /\ turn[c] # NoSession
  /\ Raise(c)
  /\ turn' = [turn EXCEPT ![c] = NoSession]
  /\ UNCHANGED <<store, used, active, op, link, told, shown, chosen, apart,
                 inbox, ops, resets, tools, links>>

(* hello.ok, on a new connection in place of an old one or of none.        *)
Hello(c) ==
  /\ link[c] => links < MaxLinks
  /\ links' = IF link[c] THEN links + 1 ELSE links
  /\ link' = [link EXCEPT ![c] = TRUE]
  /\ told' = [told EXCEPT ![c] = active[c]]
  /\ shown' = [shown EXCEPT ![c] = {}]
  /\ unsaid' = [unsaid EXCEPT ![c] = FALSE]
  /\ chosen' = [chosen EXCEPT ![c] = FALSE]
  /\ UNCHANGED <<store, used, active, op, turn, apart, inbox, ops, resets,
                 fails, tools>>

Lose(c) ==
  /\ link[c] /\ links < MaxLinks
  /\ links' = links + 1
  /\ link' = [link EXCEPT ![c] = FALSE]
  /\ UNCHANGED <<store, used, active, op, told, shown, chosen, turn, apart,
                 unsaid, inbox, ops, resets, fails, tools>>

(* A typed command, say, makes the gateway start a session.                *)
GatewayResets(c, s) ==
  /\ resets < MaxResets /\ turn[c] # NoSession /\ s \notin used
  /\ resets' = resets + 1
  /\ used' = used \cup {s}
  /\ store' = [store EXCEPT ![c] = s]
  /\ apart' = [apart EXCEPT ![c] = "gateway"]
  /\ UNCHANGED <<active, op, link, told, shown, chosen, turn, unsaid, inbox, ops,
                 fails, tools, links>>
-----------------------------------------------------------------------------
(* Tool hooks: pre_tool_call and post_tool_call alike.                     *)

(* The session's device is the first connected one in the map that is in   *)
(* it; the order of the map is left open.  No such device: no frame.       *)
ToolCall(c, d) ==
  /\ turn[c] # NoSession /\ tools < MaxTools
  /\ active[d] = turn[c] /\ link[d]
  /\ tools' = tools + 1
  /\ inbox' = Append(inbox, <<d, turn[c]>>)
  /\ UNCHANGED <<store, used, active, op, link, told, shown, chosen, turn,
                 apart, unsaid, ops, resets, fails, links>>

ToolFrame ==
  /\ inbox # <<>>
  /\ inbox' = Tail(inbox)
  /\ UNCHANGED <<store, used, active, op, link, told, shown, chosen, turn,
                 apart, unsaid, counts>>

HandlerStep(c, h) ==
  \/ \E s \in Session : Switch(c, h, s) \/ New(c, h, s) \/ Text(c, h, s)
  \/ NewList(c, h) \/ NewRaises(c, h) \/ History(c, h) \/ List(c, h)

Next ==
  \/ \E c \in Chat, h \in Handler : HandlerStep(c, h)
  \/ \E c \in Chat : PollerList(c) \/ PollerRaises(c) \/ Hello(c) \/ Lose(c)
  \/ \E c \in Chat, s \in Session : GatewayResets(c, s)
  \/ \E c, d \in Chat : ToolCall(c, d)
  \/ ToolFrame

Spec == Init /\ [][Next]_vars

(* A turn ends and its poller sends the list; a handler that was suspended *)
(* in a drain goes on.                                                     *)
Fairness ==
  /\ \A c \in Chat : WF_vars(PollerList(c))
  /\ \A c \in Chat, h \in Handler : WF_vars(NewList(c, h)) /\ WF_vars(History(c, h))

FairSpec == Spec /\ Fairness
-----------------------------------------------------------------------------
(* Properties.                                                             *)

(* The map names the session the store would run the next text in, unless  *)
(* something other than the bridge's own steps set them apart.             *)
ActiveFollowsStore ==
  \A c \in Chat : active[c] # store[c] => apart[c] # "no"

(* A connected device was told the session its next text runs in, however  *)
(* its handlers, pollers and reconnects overlap.  The ways to be wrong are *)
(* named: a poller is still to tell or an exception ate what would; the    *)
(* bridge was restarted and has not used the session since; the gateway    *)
(* moved the device by itself; or the store refused a switch, which the    *)
(* code does not notice.  The next text, new or accepted switch ends each  *)
(* of the last three.                                                      *)
StoreIsAsTold ==
  \A c \in Chat :
    link[c] /\ told[c] # store[c] =>
      turn[c] # NoSession \/ unsaid[c] \/ apart[c] # "no"

(* A connected device knows its session, however switches of an old and a  *)
(* new handler overlap; only a text can change it unannounced, and then a  *)
(* poller is still to tell.                                                *)
DeviceKnowsSession ==
  \A c \in Chat : link[c] /\ told[c] # active[c] => turn[c] # NoSession \/ unsaid[c]

(* Once its handlers are done, a device that chose a session has got that  *)
(* session's history after it was told the session is active.              *)
HistoryArrives ==
  \A c \in Chat :
    link[c] /\ chosen[c] /\ Quiet(c) => active[c] \in shown[c]

(* A device that is in a session it does not know of learns of it.         *)
DeviceLearnsSession ==
  \A c \in Chat :
    (link[c] /\ told[c] # active[c]) ~>
      (~link[c] \/ told[c] = active[c] \/ unsaid[c])

(* Tool frames reach "the connected glasses whose active session matches   *)
(* the hook's session_id" (hooks.py, module docstring).                    *)
ToolFramesScoped ==
  [][Len(inbox') < Len(inbox) =>
       LET d == Head(inbox)[1]
           s == Head(inbox)[2]
       IN link[d] => active[d] = s]_vars
=============================================================================
