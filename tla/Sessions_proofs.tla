--------------------------- MODULE Sessions_proofs ---------------------------
(***************************************************************************)
(* Proofs about Sessions for any number of devices, handlers, sessions and *)
(* operations.                                                             *)
(***************************************************************************)
EXTENDS Sessions, TLAPS

(* A connection that chose its session was told that one last, and has its *)
(* history or a handler that is going to send it.                          *)
ChosenIsTold ==
  \A c \in Chat : link[c] /\ chosen[c] => told[c] = active[c]

HistoryComing ==
  \A c \in Chat : link[c] /\ chosen[c] =>
    \/ active[c] \in shown[c]
    \/ \E h \in Handler : op[c][h].todo # "nothing" /\ op[c][h].sid = active[c]

(* An operation that has something to send is about a session.             *)
OpHasSession ==
  \A c \in Chat, h \in Handler :
    op[c][h].todo # "nothing" => op[c][h].sid \in Session

(* TypeOK, in the parts the steps keep for different reasons.              *)
SessionTypes ==
  /\ store \in [Chat -> Sid] /\ active \in [Chat -> Sid]
  /\ used \subseteq Session
  /\ link \in [Chat -> BOOLEAN]
  /\ told \in [Chat -> Sid]
  /\ shown \in [Chat -> SUBSET Session]
  /\ chosen \in [Chat -> BOOLEAN]
  /\ turn \in [Chat -> Sid]
  /\ apart \in [Chat -> Reasons] /\ unsaid \in [Chat -> BOOLEAN]

OpTypes == op \in [Chat -> [Handler -> [todo : Todos, sid : Sid]]]

BoundTypes ==
  /\ inbox \in Seq(Chat \X Session)
  /\ ops \in 0..MaxOps /\ resets \in 0..MaxResets /\ fails \in 0..MaxFails
  /\ tools \in 0..MaxTools /\ links \in 0..MaxLinks

(* The bounds are numbers.                                                 *)
LEMMA Bounds ==
  /\ MaxOps \in Nat /\ MaxResets \in Nat /\ MaxFails \in Nat
  /\ MaxTools \in Nat /\ MaxLinks \in Nat
BY SessionsAssumption DEF SessionsAssumption

(* A counter that has not reached its bound can be counted up.             *)
LEMMA OneMore ==
  ASSUME NEW max \in Nat, NEW n \in 0..max, n < max
  PROVE  n + 1 \in 0..max
OBVIOUS

(* TypeOK is its parts.                                                    *)
LEMMA TypeParts == TypeOK <=> SessionTypes /\ OpTypes /\ BoundTypes
BY DEF TypeOK, SessionTypes, OpTypes, BoundTypes

IInv ==
  /\ TypeOK /\ OpHasSession /\ ActiveFollowsStore /\ DeviceKnowsSession
  /\ ChosenIsTold /\ HistoryComing

(* Every step keeps the types of the sessions and the frames.              *)
LEMMA SessionTypesStep ==
  SessionTypes /\ OpTypes /\ OpHasSession /\ [Next]_vars =>
  SessionTypes'
<1> SUFFICES ASSUME SessionTypes, OpTypes, OpHasSession, [Next]_vars
             PROVE  SessionTypes'
  OBVIOUS
<1> USE DEF SessionTypes, OpTypes, OpHasSession, Sid, Reasons, counts
<1>1. CASE \E c \in Chat, h \in Handler, s \in Session : Switch(c, h, s)
  <2> SUFFICES ASSUME NEW c \in Chat, NEW h \in Handler, NEW s \in Session,
                      Switch(c, h, s)
               PROVE  SessionTypes'
    BY <1>1
  <2>1. /\ store' \in [Chat -> Sid] /\ active' \in [Chat -> Sid]
        /\ apart' \in [Chat -> Reasons]
    BY DEF Switch, Move, Refused
  <2>2. /\ told' \in [Chat -> Sid] /\ shown' \in [Chat -> SUBSET Session]
        /\ unsaid' \in [Chat -> BOOLEAN]
    BY DEF Switch, Tell
  <2>3. UNCHANGED <<used, link, turn>> /\ chosen' \in [Chat -> BOOLEAN]
    BY DEF Switch
  <2>4. QED BY <2>1, <2>2, <2>3
<1>2. CASE \E c \in Chat, h \in Handler, s \in Session : New(c, h, s)
  <2> SUFFICES ASSUME NEW c \in Chat, NEW h \in Handler, NEW s \in Session,
                      New(c, h, s)
               PROVE  SessionTypes'
    BY <1>2
  <2>1. QED BY DEF New, Move, Tell, StartOp
<1>3. CASE \E c \in Chat, h \in Handler, s \in Session : Text(c, h, s)
  <2> SUFFICES ASSUME NEW c \in Chat, NEW h \in Handler, NEW s \in Session,
                      Text(c, h, s)
               PROVE  SessionTypes'
    BY <1>3
  <2>1. QED BY DEF Text, OwnOrNew, Move, Raise, StartOp
<1>4. CASE \E c \in Chat, h \in Handler : NewList(c, h)
  <2> SUFFICES ASSUME NEW c \in Chat, NEW h \in Handler,
                      NewList(c, h)
               PROVE  SessionTypes'
    BY <1>4
  <2>1. QED BY DEF NewList, Tell
<1>5. CASE \E c \in Chat, h \in Handler : NewRaises(c, h)
  <2> SUFFICES ASSUME NEW c \in Chat, NEW h \in Handler,
                      NewRaises(c, h)
               PROVE  SessionTypes'
    BY <1>5
  <2>1. QED BY DEF NewRaises
<1>6. CASE \E c \in Chat, h \in Handler : History(c, h)
  <2> SUFFICES ASSUME NEW c \in Chat, NEW h \in Handler,
                      History(c, h)
               PROVE  SessionTypes'
    BY <1>6
  <2>1. QED BY DEF History, Show
<1>7. CASE \E c \in Chat, h \in Handler : List(c, h)
  <2> SUFFICES ASSUME NEW c \in Chat, NEW h \in Handler,
                      List(c, h)
               PROVE  SessionTypes'
    BY <1>7
  <2>1. QED BY DEF List, Tell, StartOp
<1>8. CASE \E c \in Chat : PollerList(c)
  <2> SUFFICES ASSUME NEW c \in Chat,
                      PollerList(c)
               PROVE  SessionTypes'
    BY <1>8
  <2>1. QED BY DEF PollerList, Tell
<1>9. CASE \E c \in Chat : PollerRaises(c)
  <2> SUFFICES ASSUME NEW c \in Chat,
                      PollerRaises(c)
               PROVE  SessionTypes'
    BY <1>9
  <2>1. QED BY DEF PollerRaises, Raise
<1>10. CASE \E c \in Chat : Hello(c)
  <2> SUFFICES ASSUME NEW c \in Chat,
                      Hello(c)
               PROVE  SessionTypes'
    BY <1>10
  <2>1. QED BY DEF Hello
<1>11. CASE \E c \in Chat : Lose(c)
  <2> SUFFICES ASSUME NEW c \in Chat,
                      Lose(c)
               PROVE  SessionTypes'
    BY <1>11
  <2>1. QED BY DEF Lose
<1>12. CASE \E c \in Chat, s \in Session : GatewayResets(c, s)
  <2> SUFFICES ASSUME NEW c \in Chat, NEW s \in Session,
                      GatewayResets(c, s)
               PROVE  SessionTypes'
    BY <1>12
  <2>1. QED BY DEF GatewayResets
<1>13. CASE \E c \in Chat, d \in Chat : ToolCall(c, d)
  <2> SUFFICES ASSUME NEW c \in Chat, NEW d \in Chat,
                      ToolCall(c, d)
               PROVE  SessionTypes'
    BY <1>13
  <2>1. QED BY DEF ToolCall
<1>14. CASE ToolFrame
  BY <1>14 DEF ToolFrame
<1>15. CASE UNCHANGED vars
  BY <1>15 DEF vars
<1>q. QED
  BY <1>1, <1>2, <1>3, <1>4, <1>5, <1>6, <1>7, <1>8,
     <1>9, <1>10, <1>11, <1>12, <1>13, <1>14, <1>15
  DEF Next, HandlerStep

(* Every step keeps the types of the operations.                           *)
LEMMA OpTypesStep ==
  SessionTypes /\ OpTypes /\ [Next]_vars =>
  OpTypes'
<1> SUFFICES ASSUME SessionTypes, OpTypes, [Next]_vars
             PROVE  OpTypes'
  OBVIOUS
<1> USE DEF SessionTypes, OpTypes, Sid, Todos, Idle, counts
<1>1. CASE \E c \in Chat, h \in Handler, s \in Session : Switch(c, h, s)
  <2> SUFFICES ASSUME NEW c \in Chat, NEW h \in Handler, NEW s \in Session,
                      Switch(c, h, s)
               PROVE  OpTypes'
    BY <1>1
  <2>1. QED BY DEF Switch, Move, Refused, Tell, StartOp
<1>2. CASE \E c \in Chat, h \in Handler, s \in Session : New(c, h, s)
  <2> SUFFICES ASSUME NEW c \in Chat, NEW h \in Handler, NEW s \in Session,
                      New(c, h, s)
               PROVE  OpTypes'
    BY <1>2
  <2>1. QED BY DEF New, Move, Tell, StartOp
<1>3. CASE \E c \in Chat, h \in Handler, s \in Session : Text(c, h, s)
  <2> SUFFICES ASSUME NEW c \in Chat, NEW h \in Handler, NEW s \in Session,
                      Text(c, h, s)
               PROVE  OpTypes'
    BY <1>3
  <2>1. QED BY DEF Text, OwnOrNew, Move, Raise, StartOp
<1>4. CASE \E c \in Chat, h \in Handler : NewList(c, h)
  <2> SUFFICES ASSUME NEW c \in Chat, NEW h \in Handler,
                      NewList(c, h)
               PROVE  OpTypes'
    BY <1>4
  <2>1. QED BY DEF NewList, Tell
<1>5. CASE \E c \in Chat, h \in Handler : NewRaises(c, h)
  <2> SUFFICES ASSUME NEW c \in Chat, NEW h \in Handler,
                      NewRaises(c, h)
               PROVE  OpTypes'
    BY <1>5
  <2>1. QED BY DEF NewRaises
<1>6. CASE \E c \in Chat, h \in Handler : History(c, h)
  <2> SUFFICES ASSUME NEW c \in Chat, NEW h \in Handler,
                      History(c, h)
               PROVE  OpTypes'
    BY <1>6
  <2>1. QED BY DEF History, Show
<1>7. CASE \E c \in Chat, h \in Handler : List(c, h)
  <2> SUFFICES ASSUME NEW c \in Chat, NEW h \in Handler,
                      List(c, h)
               PROVE  OpTypes'
    BY <1>7
  <2>1. QED BY DEF List, Tell, StartOp
<1>8. CASE \E c \in Chat : PollerList(c)
  <2> SUFFICES ASSUME NEW c \in Chat,
                      PollerList(c)
               PROVE  OpTypes'
    BY <1>8
  <2>1. QED BY DEF PollerList, Tell
<1>9. CASE \E c \in Chat : PollerRaises(c)
  <2> SUFFICES ASSUME NEW c \in Chat,
                      PollerRaises(c)
               PROVE  OpTypes'
    BY <1>9
  <2>1. QED BY DEF PollerRaises, Raise
<1>10. CASE \E c \in Chat : Hello(c)
  <2> SUFFICES ASSUME NEW c \in Chat,
                      Hello(c)
               PROVE  OpTypes'
    BY <1>10
  <2>1. QED BY DEF Hello
<1>11. CASE \E c \in Chat : Lose(c)
  <2> SUFFICES ASSUME NEW c \in Chat,
                      Lose(c)
               PROVE  OpTypes'
    BY <1>11
  <2>1. QED BY DEF Lose
<1>12. CASE \E c \in Chat, s \in Session : GatewayResets(c, s)
  <2> SUFFICES ASSUME NEW c \in Chat, NEW s \in Session,
                      GatewayResets(c, s)
               PROVE  OpTypes'
    BY <1>12
  <2>1. QED BY DEF GatewayResets
<1>13. CASE \E c \in Chat, d \in Chat : ToolCall(c, d)
  <2> SUFFICES ASSUME NEW c \in Chat, NEW d \in Chat,
                      ToolCall(c, d)
               PROVE  OpTypes'
    BY <1>13
  <2>1. QED BY DEF ToolCall
<1>14. CASE ToolFrame
  BY <1>14 DEF ToolFrame
<1>15. CASE UNCHANGED vars
  BY <1>15 DEF vars
<1>q. QED
  BY <1>1, <1>2, <1>3, <1>4, <1>5, <1>6, <1>7, <1>8,
     <1>9, <1>10, <1>11, <1>12, <1>13, <1>14, <1>15
  DEF Next, HandlerStep

(* Every step keeps the bounds and schedules frames of sessions.           *)
LEMMA BoundTypesStep ==
  SessionTypes /\ BoundTypes /\ [Next]_vars =>
  BoundTypes'
<1> SUFFICES ASSUME SessionTypes, BoundTypes, [Next]_vars
             PROVE  BoundTypes'
  OBVIOUS
<1> USE Bounds DEF SessionTypes, BoundTypes, Sid, counts
<1>1. CASE \E c \in Chat, h \in Handler, s \in Session : Switch(c, h, s)
  <2> SUFFICES ASSUME NEW c \in Chat, NEW h \in Handler, NEW s \in Session,
                      Switch(c, h, s)
               PROVE  BoundTypes'
    BY <1>1
  <2>1. QED BY DEF Switch, Move, Refused, Tell, StartOp
<1>2. CASE \E c \in Chat, h \in Handler, s \in Session : New(c, h, s)
  <2> SUFFICES ASSUME NEW c \in Chat, NEW h \in Handler, NEW s \in Session,
                      New(c, h, s)
               PROVE  BoundTypes'
    BY <1>2
  <2>1. ops < MaxOps /\ ops' = ops + 1 BY DEF New, StartOp
  <2>2. ops' \in 0..MaxOps BY <2>1, OneMore
  <2>3. UNCHANGED <<inbox, resets, fails, tools, links>> BY DEF New, StartOp
  <2>4. QED BY <2>2, <2>3
<1>3. CASE \E c \in Chat, h \in Handler, s \in Session : Text(c, h, s)
  <2> SUFFICES ASSUME NEW c \in Chat, NEW h \in Handler, NEW s \in Session,
                      Text(c, h, s)
               PROVE  BoundTypes'
    BY <1>3
  <2>1. QED BY DEF Text, OwnOrNew, Move, Raise, StartOp
<1>4. CASE \E c \in Chat, h \in Handler : NewList(c, h)
  <2> SUFFICES ASSUME NEW c \in Chat, NEW h \in Handler,
                      NewList(c, h)
               PROVE  BoundTypes'
    BY <1>4
  <2>1. QED BY DEF NewList, Tell
<1>5. CASE \E c \in Chat, h \in Handler : NewRaises(c, h)
  <2> SUFFICES ASSUME NEW c \in Chat, NEW h \in Handler,
                      NewRaises(c, h)
               PROVE  BoundTypes'
    BY <1>5
  <2>1. fails < MaxFails /\ fails' = fails + 1 BY DEF NewRaises
  <2>2. fails' \in 0..MaxFails BY <2>1, OneMore
  <2>3. UNCHANGED <<inbox, ops, resets, tools, links>> BY DEF NewRaises
  <2>4. QED BY <2>2, <2>3
<1>6. CASE \E c \in Chat, h \in Handler : History(c, h)
  <2> SUFFICES ASSUME NEW c \in Chat, NEW h \in Handler,
                      History(c, h)
               PROVE  BoundTypes'
    BY <1>6
  <2>1. QED BY DEF History, Show
<1>7. CASE \E c \in Chat, h \in Handler : List(c, h)
  <2> SUFFICES ASSUME NEW c \in Chat, NEW h \in Handler,
                      List(c, h)
               PROVE  BoundTypes'
    BY <1>7
  <2>1. QED BY DEF List, Tell, StartOp
<1>8. CASE \E c \in Chat : PollerList(c)
  <2> SUFFICES ASSUME NEW c \in Chat,
                      PollerList(c)
               PROVE  BoundTypes'
    BY <1>8
  <2>1. QED BY DEF PollerList, Tell
<1>9. CASE \E c \in Chat : PollerRaises(c)
  <2> SUFFICES ASSUME NEW c \in Chat,
                      PollerRaises(c)
               PROVE  BoundTypes'
    BY <1>9
  <2>1. QED BY DEF PollerRaises, Raise
<1>10. CASE \E c \in Chat : Hello(c)
  <2> SUFFICES ASSUME NEW c \in Chat,
                      Hello(c)
               PROVE  BoundTypes'
    BY <1>10
  <2>1. QED BY DEF Hello
<1>11. CASE \E c \in Chat : Lose(c)
  <2> SUFFICES ASSUME NEW c \in Chat,
                      Lose(c)
               PROVE  BoundTypes'
    BY <1>11
  <2>1. QED BY DEF Lose
<1>12. CASE \E c \in Chat, s \in Session : GatewayResets(c, s)
  <2> SUFFICES ASSUME NEW c \in Chat, NEW s \in Session,
                      GatewayResets(c, s)
               PROVE  BoundTypes'
    BY <1>12
  <2>1. QED BY DEF GatewayResets
<1>13. CASE \E c \in Chat, d \in Chat : ToolCall(c, d)
  <2> SUFFICES ASSUME NEW c \in Chat, NEW d \in Chat,
                      ToolCall(c, d)
               PROVE  BoundTypes'
    BY <1>13
  <2>1. QED BY DEF ToolCall
<1>14. CASE ToolFrame
  BY <1>14 DEF ToolFrame
<1>15. CASE UNCHANGED vars
  BY <1>15 DEF vars
<1>q. QED
  BY <1>1, <1>2, <1>3, <1>4, <1>5, <1>6, <1>7, <1>8,
     <1>9, <1>10, <1>11, <1>12, <1>13, <1>14, <1>15
  DEF Next, HandlerStep

(* An operation starts with the session it is about.                       *)
LEMMA OpHasSessionStep ==
  OpTypes /\ OpHasSession /\ [Next]_vars =>
  OpHasSession'
<1> SUFFICES ASSUME OpTypes, OpHasSession, [Next]_vars
             PROVE  OpHasSession'
  OBVIOUS
<1> USE DEF OpTypes, OpHasSession, Todos, Idle, counts
<1>1. CASE \E c \in Chat, h \in Handler, s \in Session : Switch(c, h, s)
  <2> SUFFICES ASSUME NEW c \in Chat, NEW h \in Handler, NEW s \in Session,
                      Switch(c, h, s)
               PROVE  OpHasSession'
    BY <1>1
  <2>1. QED BY DEF Switch, Move, Refused, Tell, StartOp
<1>2. CASE \E c \in Chat, h \in Handler, s \in Session : New(c, h, s)
  <2> SUFFICES ASSUME NEW c \in Chat, NEW h \in Handler, NEW s \in Session,
                      New(c, h, s)
               PROVE  OpHasSession'
    BY <1>2
  <2>1. QED BY DEF New, Move, Tell, StartOp
<1>3. CASE \E c \in Chat, h \in Handler, s \in Session : Text(c, h, s)
  <2> SUFFICES ASSUME NEW c \in Chat, NEW h \in Handler, NEW s \in Session,
                      Text(c, h, s)
               PROVE  OpHasSession'
    BY <1>3
  <2>1. QED BY DEF Text, OwnOrNew, Move, Raise, StartOp
<1>4. CASE \E c \in Chat, h \in Handler : NewList(c, h)
  <2> SUFFICES ASSUME NEW c \in Chat, NEW h \in Handler,
                      NewList(c, h)
               PROVE  OpHasSession'
    BY <1>4
  <2>1. QED BY DEF NewList, Tell
<1>5. CASE \E c \in Chat, h \in Handler : NewRaises(c, h)
  <2> SUFFICES ASSUME NEW c \in Chat, NEW h \in Handler,
                      NewRaises(c, h)
               PROVE  OpHasSession'
    BY <1>5
  <2>1. QED BY DEF NewRaises
<1>6. CASE \E c \in Chat, h \in Handler : History(c, h)
  <2> SUFFICES ASSUME NEW c \in Chat, NEW h \in Handler,
                      History(c, h)
               PROVE  OpHasSession'
    BY <1>6
  <2>1. QED BY DEF History, Show
<1>7. CASE \E c \in Chat, h \in Handler : List(c, h)
  <2> SUFFICES ASSUME NEW c \in Chat, NEW h \in Handler,
                      List(c, h)
               PROVE  OpHasSession'
    BY <1>7
  <2>1. QED BY DEF List, Tell, StartOp
<1>8. CASE \E c \in Chat : PollerList(c)
  <2> SUFFICES ASSUME NEW c \in Chat,
                      PollerList(c)
               PROVE  OpHasSession'
    BY <1>8
  <2>1. QED BY DEF PollerList, Tell
<1>9. CASE \E c \in Chat : PollerRaises(c)
  <2> SUFFICES ASSUME NEW c \in Chat,
                      PollerRaises(c)
               PROVE  OpHasSession'
    BY <1>9
  <2>1. QED BY DEF PollerRaises, Raise
<1>10. CASE \E c \in Chat : Hello(c)
  <2> SUFFICES ASSUME NEW c \in Chat,
                      Hello(c)
               PROVE  OpHasSession'
    BY <1>10
  <2>1. QED BY DEF Hello
<1>11. CASE \E c \in Chat : Lose(c)
  <2> SUFFICES ASSUME NEW c \in Chat,
                      Lose(c)
               PROVE  OpHasSession'
    BY <1>11
  <2>1. QED BY DEF Lose
<1>12. CASE \E c \in Chat, s \in Session : GatewayResets(c, s)
  <2> SUFFICES ASSUME NEW c \in Chat, NEW s \in Session,
                      GatewayResets(c, s)
               PROVE  OpHasSession'
    BY <1>12
  <2>1. QED BY DEF GatewayResets
<1>13. CASE \E c \in Chat, d \in Chat : ToolCall(c, d)
  <2> SUFFICES ASSUME NEW c \in Chat, NEW d \in Chat,
                      ToolCall(c, d)
               PROVE  OpHasSession'
    BY <1>13
  <2>1. QED BY DEF ToolCall
<1>14. CASE ToolFrame
  BY <1>14 DEF ToolFrame
<1>15. CASE UNCHANGED vars
  BY <1>15 DEF vars
<1>q. QED
  BY <1>1, <1>2, <1>3, <1>4, <1>5, <1>6, <1>7, <1>8,
     <1>9, <1>10, <1>11, <1>12, <1>13, <1>14, <1>15
  DEF Next, HandlerStep

(* The map and the store move in the same step.                            *)
LEMMA ActiveFollowsStoreStep ==
  SessionTypes /\ ActiveFollowsStore /\ [Next]_vars =>
  ActiveFollowsStore'
<1> SUFFICES ASSUME SessionTypes, ActiveFollowsStore, [Next]_vars
             PROVE  ActiveFollowsStore'
  OBVIOUS
<1> USE DEF SessionTypes, ActiveFollowsStore, counts
<1>1. CASE \E c \in Chat, h \in Handler, s \in Session : Switch(c, h, s)
  <2> SUFFICES ASSUME NEW c \in Chat, NEW h \in Handler, NEW s \in Session,
                      Switch(c, h, s)
               PROVE  ActiveFollowsStore'
    BY <1>1
  <2>1. QED BY DEF Switch, Move, Refused, Tell, StartOp
<1>2. CASE \E c \in Chat, h \in Handler, s \in Session : New(c, h, s)
  <2> SUFFICES ASSUME NEW c \in Chat, NEW h \in Handler, NEW s \in Session,
                      New(c, h, s)
               PROVE  ActiveFollowsStore'
    BY <1>2
  <2>1. QED BY DEF New, Move, Tell, StartOp
<1>3. CASE \E c \in Chat, h \in Handler, s \in Session : Text(c, h, s)
  <2> SUFFICES ASSUME NEW c \in Chat, NEW h \in Handler, NEW s \in Session,
                      Text(c, h, s)
               PROVE  ActiveFollowsStore'
    BY <1>3
  <2>1. QED BY DEF Text, OwnOrNew, Move, Raise, StartOp
<1>4. CASE \E c \in Chat, h \in Handler : NewList(c, h)
  <2> SUFFICES ASSUME NEW c \in Chat, NEW h \in Handler,
                      NewList(c, h)
               PROVE  ActiveFollowsStore'
    BY <1>4
  <2>1. QED BY DEF NewList, Tell
<1>5. CASE \E c \in Chat, h \in Handler : NewRaises(c, h)
  <2> SUFFICES ASSUME NEW c \in Chat, NEW h \in Handler,
                      NewRaises(c, h)
               PROVE  ActiveFollowsStore'
    BY <1>5
  <2>1. QED BY DEF NewRaises
<1>6. CASE \E c \in Chat, h \in Handler : History(c, h)
  <2> SUFFICES ASSUME NEW c \in Chat, NEW h \in Handler,
                      History(c, h)
               PROVE  ActiveFollowsStore'
    BY <1>6
  <2>1. QED BY DEF History, Show
<1>7. CASE \E c \in Chat, h \in Handler : List(c, h)
  <2> SUFFICES ASSUME NEW c \in Chat, NEW h \in Handler,
                      List(c, h)
               PROVE  ActiveFollowsStore'
    BY <1>7
  <2>1. QED BY DEF List, Tell, StartOp
<1>8. CASE \E c \in Chat : PollerList(c)
  <2> SUFFICES ASSUME NEW c \in Chat,
                      PollerList(c)
               PROVE  ActiveFollowsStore'
    BY <1>8
  <2>1. QED BY DEF PollerList, Tell
<1>9. CASE \E c \in Chat : PollerRaises(c)
  <2> SUFFICES ASSUME NEW c \in Chat,
                      PollerRaises(c)
               PROVE  ActiveFollowsStore'
    BY <1>9
  <2>1. QED BY DEF PollerRaises, Raise
<1>10. CASE \E c \in Chat : Hello(c)
  <2> SUFFICES ASSUME NEW c \in Chat,
                      Hello(c)
               PROVE  ActiveFollowsStore'
    BY <1>10
  <2>1. QED BY DEF Hello
<1>11. CASE \E c \in Chat : Lose(c)
  <2> SUFFICES ASSUME NEW c \in Chat,
                      Lose(c)
               PROVE  ActiveFollowsStore'
    BY <1>11
  <2>1. QED BY DEF Lose
<1>12. CASE \E c \in Chat, s \in Session : GatewayResets(c, s)
  <2> SUFFICES ASSUME NEW c \in Chat, NEW s \in Session,
                      GatewayResets(c, s)
               PROVE  ActiveFollowsStore'
    BY <1>12
  <2>1. QED BY DEF GatewayResets
<1>13. CASE \E c \in Chat, d \in Chat : ToolCall(c, d)
  <2> SUFFICES ASSUME NEW c \in Chat, NEW d \in Chat,
                      ToolCall(c, d)
               PROVE  ActiveFollowsStore'
    BY <1>13
  <2>1. QED BY DEF ToolCall
<1>14. CASE ToolFrame
  BY <1>14 DEF ToolFrame
<1>15. CASE UNCHANGED vars
  BY <1>15 DEF vars
<1>q. QED
  BY <1>1, <1>2, <1>3, <1>4, <1>5, <1>6, <1>7, <1>8,
     <1>9, <1>10, <1>11, <1>12, <1>13, <1>14, <1>15
  DEF Next, HandlerStep

(* A step that changes a device's session tells it or leaves a poller.     *)
LEMMA DeviceKnowsSessionStep ==
  SessionTypes /\ DeviceKnowsSession /\ [Next]_vars =>
  DeviceKnowsSession'
<1> SUFFICES ASSUME SessionTypes, DeviceKnowsSession, [Next]_vars
             PROVE  DeviceKnowsSession'
  OBVIOUS
<1> USE SessionsAssumption DEF SessionsAssumption, SessionTypes, DeviceKnowsSession, counts
<1>1. CASE \E c \in Chat, h \in Handler, s \in Session : Switch(c, h, s)
  <2> SUFFICES ASSUME NEW c \in Chat, NEW h \in Handler, NEW s \in Session,
                      Switch(c, h, s)
               PROVE  DeviceKnowsSession'
    BY <1>1
  <2>1. QED BY DEF Switch, Move, Refused, Tell, StartOp
<1>2. CASE \E c \in Chat, h \in Handler, s \in Session : New(c, h, s)
  <2> SUFFICES ASSUME NEW c \in Chat, NEW h \in Handler, NEW s \in Session,
                      New(c, h, s)
               PROVE  DeviceKnowsSession'
    BY <1>2
  <2>1. QED BY DEF New, Move, Tell, StartOp
<1>3. CASE \E c \in Chat, h \in Handler, s \in Session : Text(c, h, s)
  <2> SUFFICES ASSUME NEW c \in Chat, NEW h \in Handler, NEW s \in Session,
                      Text(c, h, s)
               PROVE  DeviceKnowsSession'
    BY <1>3
  <2>1. QED BY DEF Text, OwnOrNew, Move, Raise, StartOp
<1>4. CASE \E c \in Chat, h \in Handler : NewList(c, h)
  <2> SUFFICES ASSUME NEW c \in Chat, NEW h \in Handler,
                      NewList(c, h)
               PROVE  DeviceKnowsSession'
    BY <1>4
  <2>1. UNCHANGED <<active, link, turn>> BY DEF NewList
  <2>2. Tell(c, active[c]) BY DEF NewList
  <2>3. QED BY <2>1, <2>2 DEF Tell
<1>5. CASE \E c \in Chat, h \in Handler : NewRaises(c, h)
  <2> SUFFICES ASSUME NEW c \in Chat, NEW h \in Handler,
                      NewRaises(c, h)
               PROVE  DeviceKnowsSession'
    BY <1>5
  <2>1. QED BY DEF NewRaises
<1>6. CASE \E c \in Chat, h \in Handler : History(c, h)
  <2> SUFFICES ASSUME NEW c \in Chat, NEW h \in Handler,
                      History(c, h)
               PROVE  DeviceKnowsSession'
    BY <1>6
  <2>1. QED BY DEF History, Show
<1>7. CASE \E c \in Chat, h \in Handler : List(c, h)
  <2> SUFFICES ASSUME NEW c \in Chat, NEW h \in Handler,
                      List(c, h)
               PROVE  DeviceKnowsSession'
    BY <1>7
  <2>1. QED BY DEF List, Tell, StartOp
<1>8. CASE \E c \in Chat : PollerList(c)
  <2> SUFFICES ASSUME NEW c \in Chat,
                      PollerList(c)
               PROVE  DeviceKnowsSession'
    BY <1>8
  <2>1. QED BY DEF PollerList, Tell
<1>9. CASE \E c \in Chat : PollerRaises(c)
  <2> SUFFICES ASSUME NEW c \in Chat,
                      PollerRaises(c)
               PROVE  DeviceKnowsSession'
    BY <1>9
  <2>1. QED BY DEF PollerRaises, Raise
<1>10. CASE \E c \in Chat : Hello(c)
  <2> SUFFICES ASSUME NEW c \in Chat,
                      Hello(c)
               PROVE  DeviceKnowsSession'
    BY <1>10
  <2>1. QED BY DEF Hello
<1>11. CASE \E c \in Chat : Lose(c)
  <2> SUFFICES ASSUME NEW c \in Chat,
                      Lose(c)
               PROVE  DeviceKnowsSession'
    BY <1>11
  <2>1. QED BY DEF Lose
<1>12. CASE \E c \in Chat, s \in Session : GatewayResets(c, s)
  <2> SUFFICES ASSUME NEW c \in Chat, NEW s \in Session,
                      GatewayResets(c, s)
               PROVE  DeviceKnowsSession'
    BY <1>12
  <2>1. QED BY DEF GatewayResets
<1>13. CASE \E c \in Chat, d \in Chat : ToolCall(c, d)
  <2> SUFFICES ASSUME NEW c \in Chat, NEW d \in Chat,
                      ToolCall(c, d)
               PROVE  DeviceKnowsSession'
    BY <1>13
  <2>1. QED BY DEF ToolCall
<1>14. CASE ToolFrame
  BY <1>14 DEF ToolFrame
<1>15. CASE UNCHANGED vars
  BY <1>15 DEF vars
<1>q. QED
  BY <1>1, <1>2, <1>3, <1>4, <1>5, <1>6, <1>7, <1>8,
     <1>9, <1>10, <1>11, <1>12, <1>13, <1>14, <1>15
  DEF Next, HandlerStep

(* A text that moves on to another session was not chosen.                 *)
LEMMA ChosenIsToldStep ==
  SessionTypes /\ ChosenIsTold /\ [Next]_vars =>
  ChosenIsTold'
<1> SUFFICES ASSUME SessionTypes, ChosenIsTold, [Next]_vars
             PROVE  ChosenIsTold'
  OBVIOUS
<1> USE DEF SessionTypes, ChosenIsTold, counts
<1>1. CASE \E c \in Chat, h \in Handler, s \in Session : Switch(c, h, s)
  <2> SUFFICES ASSUME NEW c \in Chat, NEW h \in Handler, NEW s \in Session,
                      Switch(c, h, s)
               PROVE  ChosenIsTold'
    BY <1>1
  <2>1. QED BY DEF Switch, Move, Refused, Tell, StartOp
<1>2. CASE \E c \in Chat, h \in Handler, s \in Session : New(c, h, s)
  <2> SUFFICES ASSUME NEW c \in Chat, NEW h \in Handler, NEW s \in Session,
                      New(c, h, s)
               PROVE  ChosenIsTold'
    BY <1>2
  <2>1. QED BY DEF New, Move, Tell, StartOp
<1>3. CASE \E c \in Chat, h \in Handler, s \in Session : Text(c, h, s)
  <2> SUFFICES ASSUME NEW c \in Chat, NEW h \in Handler, NEW s \in Session,
                      Text(c, h, s)
               PROVE  ChosenIsTold'
    BY <1>3
  <2>1. QED BY DEF Text, OwnOrNew, Move, Raise, StartOp
<1>4. CASE \E c \in Chat, h \in Handler : NewList(c, h)
  <2> SUFFICES ASSUME NEW c \in Chat, NEW h \in Handler,
                      NewList(c, h)
               PROVE  ChosenIsTold'
    BY <1>4
  <2>1. QED BY DEF NewList, Tell
<1>5. CASE \E c \in Chat, h \in Handler : NewRaises(c, h)
  <2> SUFFICES ASSUME NEW c \in Chat, NEW h \in Handler,
                      NewRaises(c, h)
               PROVE  ChosenIsTold'
    BY <1>5
  <2>1. QED BY DEF NewRaises
<1>6. CASE \E c \in Chat, h \in Handler : History(c, h)
  <2> SUFFICES ASSUME NEW c \in Chat, NEW h \in Handler,
                      History(c, h)
               PROVE  ChosenIsTold'
    BY <1>6
  <2>1. QED BY DEF History, Show
<1>7. CASE \E c \in Chat, h \in Handler : List(c, h)
  <2> SUFFICES ASSUME NEW c \in Chat, NEW h \in Handler,
                      List(c, h)
               PROVE  ChosenIsTold'
    BY <1>7
  <2>1. QED BY DEF List, Tell, StartOp
<1>8. CASE \E c \in Chat : PollerList(c)
  <2> SUFFICES ASSUME NEW c \in Chat,
                      PollerList(c)
               PROVE  ChosenIsTold'
    BY <1>8
  <2>1. QED BY DEF PollerList, Tell
<1>9. CASE \E c \in Chat : PollerRaises(c)
  <2> SUFFICES ASSUME NEW c \in Chat,
                      PollerRaises(c)
               PROVE  ChosenIsTold'
    BY <1>9
  <2>1. QED BY DEF PollerRaises, Raise
<1>10. CASE \E c \in Chat : Hello(c)
  <2> SUFFICES ASSUME NEW c \in Chat,
                      Hello(c)
               PROVE  ChosenIsTold'
    BY <1>10
  <2>1. QED BY DEF Hello
<1>11. CASE \E c \in Chat : Lose(c)
  <2> SUFFICES ASSUME NEW c \in Chat,
                      Lose(c)
               PROVE  ChosenIsTold'
    BY <1>11
  <2>1. QED BY DEF Lose
<1>12. CASE \E c \in Chat, s \in Session : GatewayResets(c, s)
  <2> SUFFICES ASSUME NEW c \in Chat, NEW s \in Session,
                      GatewayResets(c, s)
               PROVE  ChosenIsTold'
    BY <1>12
  <2>1. QED BY DEF GatewayResets
<1>13. CASE \E c \in Chat, d \in Chat : ToolCall(c, d)
  <2> SUFFICES ASSUME NEW c \in Chat, NEW d \in Chat,
                      ToolCall(c, d)
               PROVE  ChosenIsTold'
    BY <1>13
  <2>1. QED BY DEF ToolCall
<1>14. CASE ToolFrame
  BY <1>14 DEF ToolFrame
<1>15. CASE UNCHANGED vars
  BY <1>15 DEF vars
<1>q. QED
  BY <1>1, <1>2, <1>3, <1>4, <1>5, <1>6, <1>7, <1>8,
     <1>9, <1>10, <1>11, <1>12, <1>13, <1>14, <1>15
  DEF Next, HandlerStep

(* The handler that told the device of its session sends the history.      *)
LEMMA HistoryComingStep ==
  SessionTypes /\ OpTypes /\ ChosenIsTold /\ HistoryComing /\ [Next]_vars =>
  HistoryComing'
<1> SUFFICES ASSUME SessionTypes, OpTypes, ChosenIsTold, HistoryComing, [Next]_vars
             PROVE  HistoryComing'
  OBVIOUS
<1> USE DEF SessionTypes, OpTypes, ChosenIsTold, HistoryComing, Todos, Idle, counts
<1>1. CASE \E c \in Chat, h \in Handler, s \in Session : Switch(c, h, s)
  <2> SUFFICES ASSUME NEW c \in Chat, NEW h \in Handler, NEW s \in Session,
                      Switch(c, h, s)
               PROVE  HistoryComing'
    BY <1>1
  <2>1. active' = [active EXCEPT ![c] = s] BY DEF Switch, Move, Refused
  <2>2. op'[c][h].todo = "history" /\ op'[c][h].sid = s BY DEF Switch
  <2> SUFFICES ASSUME NEW d \in Chat, link'[d], chosen'[d]
    PROVE  \/ active'[d] \in shown'[d]
           \/ \E k \in Handler :
                op'[d][k].todo # "nothing" /\ op'[d][k].sid = active'[d]
    OBVIOUS
  <2>3. CASE d = c
    <3>1. active'[d] = s
      BY <2>1, <2>3
    <3>2. op'[d][h].todo = "history" /\ op'[d][h].sid = s
      BY <2>2, <2>3
    <3>3. QED BY <3>1, <3>2
  <2>4. CASE d # c
    <3>1. link[d] /\ chosen[d] /\ op'[d] = op[d]
      BY <2>4 DEF Switch
    <3>2. active'[d] = active[d] /\ shown'[d] = shown[d]
      BY <2>1, <2>4 DEF Switch, Tell
    <3>3. QED BY <3>1, <3>2
  <2>5. QED BY <2>3, <2>4
<1>2. CASE \E c \in Chat, h \in Handler, s \in Session : New(c, h, s)
  <2> SUFFICES ASSUME NEW c \in Chat, NEW h \in Handler, NEW s \in Session,
                      New(c, h, s)
               PROVE  HistoryComing'
    BY <1>2
  <2>1. QED BY DEF New, Move, Tell, StartOp
<1>3. CASE \E c \in Chat, h \in Handler, s \in Session : Text(c, h, s)
  <2> SUFFICES ASSUME NEW c \in Chat, NEW h \in Handler, NEW s \in Session,
                      Text(c, h, s)
               PROVE  HistoryComing'
    BY <1>3
  <2>1. UNCHANGED <<link, op, shown>>
    BY DEF Text
  <2>2. \A d \in Chat : chosen'[d] => chosen[d] /\ active'[d] = active[d]
    BY DEF Text, Move
  <2>3. ASSUME NEW d \in Chat, link'[d], chosen'[d]
        PROVE  link[d] /\ chosen[d] /\ active'[d] = active[d]
    BY <2>1, <2>2, <2>3
  <2>4. QED BY <2>1, <2>3
<1>4. CASE \E c \in Chat, h \in Handler : NewList(c, h)
  <2> SUFFICES ASSUME NEW c \in Chat, NEW h \in Handler,
                      NewList(c, h)
               PROVE  HistoryComing'
    BY <1>4
  <2> SUFFICES ASSUME NEW d \in Chat, link'[d], chosen'[d]
    PROVE  \/ active'[d] \in shown'[d]
           \/ \E k \in Handler :
                op'[d][k].todo # "nothing" /\ op'[d][k].sid = active'[d]
    OBVIOUS
  <2>1. active'[d] = active[d] /\ link[d] /\ chosen[d] BY DEF NewList
  <2>2. Tell(c, active[c]) BY DEF NewList
  <2>3. shown'[d] = shown[d]
    BY <2>1, <2>2 DEF Tell
  <2>4. ASSUME NEW k \in Handler, op[d][k].todo # "nothing"
        PROVE  op'[d][k].todo # "nothing" /\ op'[d][k].sid = op[d][k].sid
    BY <2>4 DEF NewList
  <2>5. CASE active[d] \in shown[d]
    BY <2>1, <2>3, <2>5
  <2>6. CASE \E k \in Handler : op[d][k].todo # "nothing" /\ op[d][k].sid = active[d]
    BY <2>1, <2>4, <2>6
  <2>7. QED BY <2>1, <2>5, <2>6
<1>5. CASE \E c \in Chat, h \in Handler : NewRaises(c, h)
  <2> SUFFICES ASSUME NEW c \in Chat, NEW h \in Handler,
                      NewRaises(c, h)
               PROVE  HistoryComing'
    BY <1>5
  <2>1. QED BY DEF NewRaises
<1>6. CASE \E c \in Chat, h \in Handler : History(c, h)
  <2> SUFFICES ASSUME NEW c \in Chat, NEW h \in Handler,
                      History(c, h)
               PROVE  HistoryComing'
    BY <1>6
  <2>1. UNCHANGED <<link, chosen, active>>
    BY DEF History
  <2>2. /\ \A d \in Chat : shown[d] \subseteq shown'[d]
        /\ link[c] => op[c][h].sid \in shown'[c]
    BY DEF History, Show
  <2>3. \A d \in Chat, k \in Handler :
          d # c \/ k # h => op'[d][k] = op[d][k]
    BY DEF History
  <2>4. ASSUME NEW d \in Chat, link[d], chosen[d]
        PROVE  \/ active[d] \in shown'[d]
               \/ \E k \in Handler :
                    op'[d][k].todo # "nothing" /\ op'[d][k].sid = active[d]
    <3>1. CASE active[d] \in shown[d]
      BY <2>2, <3>1
    <3>2. CASE d = c /\ op[c][h].sid = active[d]
      BY <2>2, <2>4, <3>2
    <3>3. CASE active[d] \notin shown[d] /\ ~(d = c /\ op[c][h].sid = active[d])
      <4>1. PICK k \in Handler :
              op[d][k].todo # "nothing" /\ op[d][k].sid = active[d]
        BY <2>4, <3>3
      <4>2. op'[d][k] = op[d][k]
        BY <2>3, <3>3, <4>1
      <4>3. QED BY <4>1, <4>2
    <3>4. QED BY <3>1, <3>2, <3>3
  <2>5. QED BY <2>1, <2>4
<1>7. CASE \E c \in Chat, h \in Handler : List(c, h)
  <2> SUFFICES ASSUME NEW c \in Chat, NEW h \in Handler,
                      List(c, h)
               PROVE  HistoryComing'
    BY <1>7
  <2>1. QED BY DEF List, Tell, StartOp
<1>8. CASE \E c \in Chat : PollerList(c)
  <2> SUFFICES ASSUME NEW c \in Chat,
                      PollerList(c)
               PROVE  HistoryComing'
    BY <1>8
  <2>1. QED BY DEF PollerList, Tell
<1>9. CASE \E c \in Chat : PollerRaises(c)
  <2> SUFFICES ASSUME NEW c \in Chat,
                      PollerRaises(c)
               PROVE  HistoryComing'
    BY <1>9
  <2>1. QED BY DEF PollerRaises, Raise
<1>10. CASE \E c \in Chat : Hello(c)
  <2> SUFFICES ASSUME NEW c \in Chat,
                      Hello(c)
               PROVE  HistoryComing'
    BY <1>10
  <2>1. QED BY DEF Hello
<1>11. CASE \E c \in Chat : Lose(c)
  <2> SUFFICES ASSUME NEW c \in Chat,
                      Lose(c)
               PROVE  HistoryComing'
    BY <1>11
  <2>1. QED BY DEF Lose
<1>12. CASE \E c \in Chat, s \in Session : GatewayResets(c, s)
  <2> SUFFICES ASSUME NEW c \in Chat, NEW s \in Session,
                      GatewayResets(c, s)
               PROVE  HistoryComing'
    BY <1>12
  <2>1. QED BY DEF GatewayResets
<1>13. CASE \E c \in Chat, d \in Chat : ToolCall(c, d)
  <2> SUFFICES ASSUME NEW c \in Chat, NEW d \in Chat,
                      ToolCall(c, d)
               PROVE  HistoryComing'
    BY <1>13
  <2>1. QED BY DEF ToolCall
<1>14. CASE ToolFrame
  BY <1>14 DEF ToolFrame
<1>15. CASE UNCHANGED vars
  BY <1>15 DEF vars
<1>q. QED
  BY <1>1, <1>2, <1>3, <1>4, <1>5, <1>6, <1>7, <1>8,
     <1>9, <1>10, <1>11, <1>12, <1>13, <1>14, <1>15
  DEF Next, HandlerStep

(* The initial states satisfy the invariant.                               *)
LEMMA Initially == Init => IInv
<1> SUFFICES ASSUME Init PROVE IInv
  OBVIOUS
<1> USE SessionsAssumption DEF SessionsAssumption, Init
<1>1. store \in [Chat -> Sid] /\ used \subseteq Session
  BY DEF Sid
<1>2. apart \in [Chat -> Reasons]
  BY DEF Reasons
<1>3. TypeOK
  BY <1>1, <1>2 DEF TypeOK, Sid, Todos, Idle
<1>4. ActiveFollowsStore
  BY DEF ActiveFollowsStore
<1>5. OpHasSession /\ DeviceKnowsSession /\ ChosenIsTold /\ HistoryComing
  BY DEF OpHasSession, Idle, DeviceKnowsSession, ChosenIsTold, HistoryComing
<1>6. QED BY <1>3, <1>4, <1>5 DEF IInv

(* The inductive invariant of the three ideas of a device's session.       *)
THEOREM Inductive == Spec => []IInv
<1>1. IInv /\ [Next]_vars => IInv'
  <2> SUFFICES ASSUME IInv, [Next]_vars
               PROVE  IInv'
    OBVIOUS
  <2>1. SessionTypes /\ OpTypes /\ BoundTypes
    BY TypeParts DEF IInv
  <2>2. SessionTypes' /\ OpTypes' /\ BoundTypes'
    BY <2>1, SessionTypesStep, OpTypesStep, BoundTypesStep DEF IInv
  <2>3. TypeOK'
    BY <2>2 DEF TypeOK, SessionTypes, OpTypes, BoundTypes
  <2>4. OpHasSession' /\ ActiveFollowsStore' /\ DeviceKnowsSession'
    BY <2>1, OpHasSessionStep, ActiveFollowsStoreStep, DeviceKnowsSessionStep
       DEF IInv
  <2>5. ChosenIsTold' /\ HistoryComing'
    BY <2>1, ChosenIsToldStep, HistoryComingStep DEF IInv
  <2>6. QED BY <2>3, <2>4, <2>5 DEF IInv
<1>2. QED BY <1>1, Initially, PTL DEF Spec

(* Every reachable state is well-typed.                                    *)
THEOREM TypeCorrect == Spec => []TypeOK
<1>1. IInv => TypeOK
  BY DEF IInv
<1>2. QED BY <1>1, Inductive, PTL

(* A connected device was told the session the store would run its next    *)
(* text in, but for the reasons the property names.                        *)
THEOREM StoreIsAsToldCorrect == Spec => []StoreIsAsTold
<1>1. IInv => StoreIsAsTold
  BY DEF IInv, ActiveFollowsStore, DeviceKnowsSession, StoreIsAsTold
<1>2. QED BY <1>1, Inductive, PTL

(* A connected device knows its session, or a poller is about to tell it.  *)
THEOREM DeviceKnowsSessionCorrect == Spec => []DeviceKnowsSession
<1>1. IInv => DeviceKnowsSession
  BY DEF IInv
<1>2. QED BY <1>1, Inductive, PTL

(* When the handlers of a device are done it has the history of the        *)
(* session it chose.                                                       *)
THEOREM HistoryArrivesCorrect == Spec => []HistoryArrives
<1>1. IInv => HistoryArrives
  BY DEF IInv, HistoryComing, HistoryArrives, Quiet, Idle
<1>2. QED BY <1>1, Inductive, PTL
=============================================================================
