-------------------------- MODULE Connections_proofs --------------------------
(***************************************************************************)
(* Proofs about Connections for any number of devices and connections and  *)
(* any bound on failed status writes and restarts.                         *)
(***************************************************************************)
EXTENDS Connections, FiniteSetTheorems, TLAPS

(* A connection is served under the name it said hello with, and only the  *)
(* newest connection of a name is.                                         *)
EntryIsNewest ==
  \A c \in Chat : ws[c] # NoConn => ws[c] = newest[c]

NewestSaidHello ==
  \A c \in Chat : \A k \in Conn :
    newest[c] = k => device[k] = c /\ pc[k] \notin {"none", "hello"}

UnusedHasNoHandler ==
  \A k \in Conn : net[k] = "unused" => pc[k] = "none"

HandledWasGreeted ==
  \A k \in Conn : Handled(k) => first[k] = "hello.ok"

OpenEntryHandled ==
  \A c \in Chat : ws[c] # NoConn /\ Writable(ws[c]) => Handled(ws[c])

(* The status file's count is a number: there are finitely many devices.   *)
LEMMA CountIsNat ==
  ASSUME NEW r PROVE Cardinality({c \in Chat : r[c] # NoConn}) \in Nat
<1>1. IsFiniteSet({c \in Chat : r[c] # NoConn})
  BY FS_Subset, ConnAssumption DEF ConnAssumption
<1>2. QED BY <1>1, FS_CardinalityType

(* Every step keeps the types of the registry, the handlers and the file.  *)
LEMMA TypeStep == TypeOK /\ [Next]_vars => TypeOK'
<1> SUFFICES ASSUME TypeOK, [Next]_vars PROVE TypeOK'
  OBVIOUS
<1> USE ConnAssumption
    DEF ConnAssumption, TypeOK, NetStates, PcStates, FirstFrame
<1>1. CASE \E k \in Conn : Accept(k)
  BY <1>1 DEF Accept
<1>2. CASE \E k \in Conn : RejectHello(k)
  BY <1>2 DEF RejectHello
<1>3. CASE \E k \in Conn : Greeted(k)
  BY <1>3 DEF Greeted
<1>4. CASE \E k \in Conn : Dispatch(k)
  BY <1>4, CountIsNat DEF Dispatch, Written, WriteFails
<1>5. CASE \E k \in Conn : EndDispatch(k)
  BY <1>5 DEF EndDispatch
<1>6. CASE \E k \in Conn : Teardown(k)
  <2> SUFFICES ASSUME NEW k \in Conn, Teardown(k) PROVE TypeOK'
    BY <1>6
  <2>1. device[k] \in Chat \cup {NoChat}
    OBVIOUS
  <2>2. Unregister(device[k], k) \in [Chat -> Conn \cup {NoConn}]
    BY <2>1 DEF Unregister
  <2>3. connected' \in Nat /\ faults' \in 0..MaxFaults
    BY CountIsNat DEF Teardown, Written, WriteFails
  <2>4. QED BY <2>2, <2>3 DEF Teardown
<1>7. CASE \E k \in Conn : Close(k)
  BY <1>7 DEF Close
<1>8. CASE \E k \in Conn : Vanish(k)
  BY <1>8 DEF Vanish
<1>9. CASE \E k \in Conn : KeepaliveTimeout(k)
  BY <1>9 DEF KeepaliveTimeout
<1>10. CASE \E k \in Conn, c \in Chat : Hello(k, c)
  BY <1>10, CountIsNat DEF Hello, Register, Written
<1>11. CASE \E k \in Conn, c \in Chat : HelloTooLate(k, c)
  <2> SUFFICES ASSUME NEW k \in Conn, NEW c \in Chat, HelloTooLate(k, c)
               PROVE  TypeOK'
    BY <1>11
  <2>1. connected' \in Nat /\ faults' \in 0..MaxFaults
    BY CountIsNat DEF HelloTooLate, Written
  <2>2. QED BY <2>1 DEF HelloTooLate
<1>12. CASE \E k \in Conn, c \in Chat : HelloUnrecorded(k, c)
  BY <1>12 DEF HelloUnrecorded, Register, WriteFails
<1>13. CASE \E k \in Conn, c \in Chat : SendDone(c, k)
  BY <1>13 DEF SendDone
<1>14. CASE \E k \in Conn, c \in Chat : SendFailed(c, k)
  BY <1>14 DEF SendFailed, Unregister
<1>15. CASE \E c \in Chat : SendFrame(c)
  BY <1>15 DEF SendFrame
<1>16. CASE \E c \in Chat : SendRefused(c)
  BY <1>16 DEF SendRefused, Unregister
<1>17. CASE Stop
  <2>1. net' \in [Conn -> NetStates]
    BY <1>17 DEF Stop
  <2>2. downs' \in 0..MaxDowns
    BY <1>17 DEF Stop
  <2>3. UNCHANGED <<pc, device, first, ws, sends, connected, newest, faults>>
        /\ serving' \in BOOLEAN
    BY <1>17 DEF Stop
  <2>4. QED BY <2>1, <2>2, <2>3
<1>18. CASE Crash
  <2>1. net' \in [Conn -> NetStates]
    BY <1>18 DEF Crash
  <2>2. pc' \in [Conn -> PcStates]
    BY <1>18 DEF Crash
  <2>3. downs' \in 0..MaxDowns
    BY <1>18 DEF Crash
  <2>4. /\ ws' \in [Chat -> Conn \cup {NoConn}]
        /\ newest' \in [Chat -> Conn \cup {NoConn}]
    BY <1>18 DEF Crash
  <2>5. /\ UNCHANGED <<device, first, connected, faults>>
        /\ serving' \in BOOLEAN /\ sends' = {}
    BY <1>18 DEF Crash
  <2>6. QED BY <2>1, <2>2, <2>3, <2>4, <2>5
<1>19. CASE Connect
  <2>1. CASE serving' = TRUE /\ connected' = 0 /\ UNCHANGED faults
    BY <1>19, <2>1 DEF Connect
  <2>2. CASE WriteFails /\ UNCHANGED serving
    <3>1. faults' \in 0..MaxFaults /\ UNCHANGED <<connected, serving>>
      BY <2>2 DEF WriteFails
    <3>2. QED BY <1>19, <3>1 DEF Connect
  <2>3. QED BY <1>19, <2>1, <2>2 DEF Connect
<1>20. CASE UNCHANGED vars
  BY <1>20 DEF vars
<1>q. QED BY <1>1, <1>2, <1>3, <1>4, <1>5, <1>6, <1>7, <1>8, <1>9, <1>10,
  <1>11, <1>12, <1>13, <1>14, <1>15, <1>16, <1>17, <1>18, <1>19, <1>20
  DEF Next, ConnStep, HelloStep, SendStep

(* An entry only moves to the connection that says hello, or away          *)
(* (register and the guarded unregister).                                  *)
LEMMA EntryIsNewestStep ==
  TypeOK /\ EntryIsNewest /\ [Next]_vars => EntryIsNewest'
<1> SUFFICES ASSUME TypeOK, EntryIsNewest, [Next]_vars PROVE EntryIsNewest'
  OBVIOUS
<1> USE ConnAssumption
    DEF ConnAssumption, TypeOK, EntryIsNewest, NetStates, PcStates, Register,
      Unregister
<1>1. CASE \E k \in Conn : Teardown(k)
  BY <1>1 DEF Teardown
<1>2. CASE \E k \in Conn, c \in Chat : Hello(k, c)
  BY <1>2 DEF Hello
<1>3. CASE \E k \in Conn, c \in Chat : HelloTooLate(k, c)
  BY <1>3 DEF HelloTooLate
<1>4. CASE \E k \in Conn, c \in Chat : HelloUnrecorded(k, c)
  BY <1>4 DEF HelloUnrecorded
<1>5. CASE \E k \in Conn, c \in Chat : SendFailed(c, k)
  BY <1>5 DEF SendFailed
<1>6. CASE \E c \in Chat : SendRefused(c)
  BY <1>6 DEF SendRefused
<1>7. CASE Crash
  BY <1>7 DEF Crash
<1>8. CASE UNCHANGED <<ws, newest>>
  BY <1>8
<1>q. QED BY <1>1, <1>2, <1>3, <1>4, <1>5, <1>6, <1>7, <1>8
  DEF Next, ConnStep, HelloStep, SendStep, vars, Accept, RejectHello, Greeted,
    Dispatch, EndDispatch, Close, Vanish, KeepaliveTimeout, SendDone,
    SendFrame, Stop, Connect

(* Who is newest for a device has said hello with its name.                *)
LEMMA NewestSaidHelloStep ==
  TypeOK /\ UnusedHasNoHandler /\ NewestSaidHello /\ [Next]_vars =>
    NewestSaidHello'
<1> SUFFICES ASSUME TypeOK, UnusedHasNoHandler, NewestSaidHello, [Next]_vars
             PROVE  NewestSaidHello'
  OBVIOUS
<1> USE ConnAssumption
    DEF ConnAssumption, TypeOK, UnusedHasNoHandler, NewestSaidHello,
      NetStates, PcStates, Register, Writable
<1>1. CASE \E k \in Conn : Accept(k)
  BY <1>1 DEF Accept
<1>2. CASE \E k \in Conn : RejectHello(k)
  BY <1>2 DEF RejectHello
<1>3. CASE \E k \in Conn : Greeted(k)
  BY <1>3 DEF Greeted
<1>4. CASE \E k \in Conn : Dispatch(k)
  BY <1>4 DEF Dispatch
<1>5. CASE \E k \in Conn : EndDispatch(k)
  BY <1>5 DEF EndDispatch
<1>6. CASE \E k \in Conn : Teardown(k)
  BY <1>6 DEF Teardown
<1>7. CASE \E k \in Conn, c \in Chat : Hello(k, c)
  BY <1>7 DEF Hello
<1>8. CASE \E k \in Conn, c \in Chat : HelloTooLate(k, c)
  BY <1>8 DEF HelloTooLate
<1>9. CASE \E k \in Conn, c \in Chat : HelloUnrecorded(k, c)
  BY <1>9 DEF HelloUnrecorded
<1>10. CASE Crash
  BY <1>10 DEF Crash
<1>11. CASE UNCHANGED <<newest, device, pc>>
  BY <1>11
<1>q. QED BY <1>1, <1>2, <1>3, <1>4, <1>5, <1>6, <1>7, <1>8, <1>9, <1>10, <1>11
  DEF Next, ConnStep, HelloStep, SendStep, vars, Close, Vanish,
    KeepaliveTimeout, SendDone, SendFailed, SendFrame, SendRefused, Stop,
    Connect

(* A connection not yet accepted has no handler coroutine.                 *)
LEMMA UnusedHasNoHandlerStep ==
  TypeOK /\ UnusedHasNoHandler /\ [Next]_vars => UnusedHasNoHandler'
<1> SUFFICES ASSUME TypeOK, UnusedHasNoHandler, [Next]_vars
             PROVE  UnusedHasNoHandler'
  OBVIOUS
<1> USE ConnAssumption
    DEF ConnAssumption, TypeOK, UnusedHasNoHandler, NetStates, PcStates,
      Writable
<1>1. CASE \E k \in Conn : Accept(k)
  BY <1>1 DEF Accept
<1>2. CASE \E k \in Conn : RejectHello(k)
  BY <1>2 DEF RejectHello
<1>3. CASE \E k \in Conn : Greeted(k)
  BY <1>3 DEF Greeted
<1>4. CASE \E k \in Conn : Dispatch(k)
  BY <1>4 DEF Dispatch
<1>5. CASE \E k \in Conn : EndDispatch(k)
  BY <1>5 DEF EndDispatch
<1>6. CASE \E k \in Conn : Teardown(k)
  BY <1>6 DEF Teardown
<1>7. CASE \E k \in Conn : Close(k)
  BY <1>7 DEF Close
<1>8. CASE \E k \in Conn : Vanish(k)
  BY <1>8 DEF Vanish
<1>9. CASE \E k \in Conn : KeepaliveTimeout(k)
  BY <1>9 DEF KeepaliveTimeout
<1>10. CASE \E k \in Conn, c \in Chat : Hello(k, c)
  BY <1>10 DEF Hello
<1>11. CASE \E k \in Conn, c \in Chat : HelloTooLate(k, c)
  BY <1>11 DEF HelloTooLate
<1>12. CASE \E k \in Conn, c \in Chat : HelloUnrecorded(k, c)
  BY <1>12 DEF HelloUnrecorded
<1>13. CASE Stop
  BY <1>13 DEF Stop
<1>14. CASE Crash
  BY <1>14 DEF Crash
<1>15. CASE UNCHANGED <<net, pc>>
  BY <1>15
<1>q. QED BY <1>1, <1>2, <1>3, <1>4, <1>5, <1>6, <1>7, <1>8, <1>9, <1>10,
  <1>11, <1>12, <1>13, <1>14, <1>15
  DEF Next, ConnStep, HelloStep, SendStep, vars, SendDone, SendFailed,
    SendFrame, SendRefused, Connect

(* A handler that reached its try block has written hello.ok first.        *)
LEMMA HandledWasGreetedStep ==
  TypeOK /\ HandledWasGreeted /\ [Next]_vars => HandledWasGreeted'
<1> SUFFICES ASSUME TypeOK, HandledWasGreeted, [Next]_vars
             PROVE  HandledWasGreeted'
  OBVIOUS
<1> USE ConnAssumption
    DEF ConnAssumption, TypeOK, HandledWasGreeted, NetStates, PcStates,
      Handled, Writable
<1>1. CASE \E k \in Conn : Accept(k)
  BY <1>1 DEF Accept
<1>2. CASE \E k \in Conn : RejectHello(k)
  BY <1>2 DEF RejectHello
<1>3. CASE \E k \in Conn : Greeted(k)
  BY <1>3 DEF Greeted
<1>4. CASE \E k \in Conn : Dispatch(k)
  BY <1>4 DEF Dispatch
<1>5. CASE \E k \in Conn : EndDispatch(k)
  BY <1>5 DEF EndDispatch
<1>6. CASE \E k \in Conn : Teardown(k)
  BY <1>6 DEF Teardown
<1>7. CASE \E k \in Conn, c \in Chat : Hello(k, c)
  BY <1>7 DEF Hello
<1>8. CASE \E k \in Conn, c \in Chat : HelloTooLate(k, c)
  BY <1>8 DEF HelloTooLate
<1>9. CASE \E k \in Conn, c \in Chat : HelloUnrecorded(k, c)
  BY <1>9 DEF HelloUnrecorded
<1>10. CASE \E c \in Chat : SendFrame(c)
  BY <1>10 DEF SendFrame
<1>11. CASE Crash
  BY <1>11 DEF Crash
<1>12. CASE UNCHANGED <<pc, first>>
  BY <1>12
<1>q. QED BY <1>1, <1>2, <1>3, <1>4, <1>5, <1>6, <1>7, <1>8, <1>9, <1>10,
  <1>11, <1>12
  DEF Next, ConnStep, HelloStep, SendStep, vars, Close, Vanish,
    KeepaliveTimeout, SendDone, SendFailed, SendRefused, Stop, Connect

(* An entry whose socket still takes writes has a running handler.         *)
LEMMA OpenEntryHandledStep ==
  TypeOK /\ EntryIsNewest /\ NewestSaidHello /\ UnusedHasNoHandler /\
    OpenEntryHandled /\ [Next]_vars => OpenEntryHandled'
<1> SUFFICES ASSUME TypeOK, EntryIsNewest, NewestSaidHello,
                    UnusedHasNoHandler, OpenEntryHandled, [Next]_vars
             PROVE  OpenEntryHandled'
  OBVIOUS
<1> USE ConnAssumption
    DEF ConnAssumption, TypeOK, EntryIsNewest, NewestSaidHello,
      UnusedHasNoHandler, OpenEntryHandled, NetStates, PcStates, Handled,
      Writable, Register, Unregister
<1>1. CASE \E k \in Conn : Accept(k)
  BY <1>1 DEF Accept
<1>2. CASE \E k \in Conn : RejectHello(k)
  BY <1>2 DEF RejectHello
<1>3. CASE \E k \in Conn : Greeted(k)
  BY <1>3 DEF Greeted
<1>4. CASE \E k \in Conn : Dispatch(k)
  BY <1>4 DEF Dispatch
<1>5. CASE \E k \in Conn : EndDispatch(k)
  BY <1>5 DEF EndDispatch
<1>6. CASE \E k \in Conn : Teardown(k)
  BY <1>6 DEF Teardown
<1>7. CASE \E k \in Conn : Close(k)
  BY <1>7 DEF Close
<1>8. CASE \E k \in Conn : Vanish(k)
  BY <1>8 DEF Vanish
<1>9. CASE \E k \in Conn : KeepaliveTimeout(k)
  BY <1>9 DEF KeepaliveTimeout
<1>10. CASE \E k \in Conn, c \in Chat : Hello(k, c)
  BY <1>10 DEF Hello
<1>11. CASE \E k \in Conn, c \in Chat : HelloTooLate(k, c)
  BY <1>11 DEF HelloTooLate
<1>12. CASE \E k \in Conn, c \in Chat : HelloUnrecorded(k, c)
  BY <1>12 DEF HelloUnrecorded
<1>13. CASE \E k \in Conn, c \in Chat : SendFailed(c, k)
  BY <1>13 DEF SendFailed
<1>14. CASE \E c \in Chat : SendRefused(c)
  BY <1>14 DEF SendRefused
<1>15. CASE Stop
  BY <1>15 DEF Stop
<1>16. CASE Crash
  BY <1>16 DEF Crash
<1>17. CASE UNCHANGED <<ws, pc, net>>
  BY <1>17
<1>q. QED BY <1>1, <1>2, <1>3, <1>4, <1>5, <1>6, <1>7, <1>8, <1>9, <1>10,
  <1>11, <1>12, <1>13, <1>14, <1>15, <1>16, <1>17
  DEF Next, ConnStep, HelloStep, SendStep, vars, SendDone, SendFrame, Connect

(* No teardown and no late failed send takes the entry of a newer, live    *)
(* connection: the guard in unregister.                                    *)
LEMMA NewestServedStep ==
  TypeOK /\ NewestSaidHello /\ NewestServed /\ [Next]_vars => NewestServed'
<1> SUFFICES ASSUME TypeOK, NewestSaidHello, NewestServed, [Next]_vars
             PROVE  NewestServed'
  OBVIOUS
<1> USE ConnAssumption
    DEF ConnAssumption, TypeOK, NewestSaidHello, NewestServed, NetStates,
      PcStates, Handled, Writable, Register, Unregister
<1>1. CASE \E k \in Conn : Accept(k)
  BY <1>1 DEF Accept
<1>2. CASE \E k \in Conn : RejectHello(k)
  BY <1>2 DEF RejectHello
<1>3. CASE \E k \in Conn : Greeted(k)
  BY <1>3 DEF Greeted
<1>4. CASE \E k \in Conn : Dispatch(k)
  BY <1>4 DEF Dispatch
<1>5. CASE \E k \in Conn : EndDispatch(k)
  BY <1>5 DEF EndDispatch
<1>6. CASE \E k \in Conn : Teardown(k)
  BY <1>6 DEF Teardown
<1>7. CASE \E k \in Conn : Close(k)
  BY <1>7 DEF Close
<1>8. CASE \E k \in Conn : Vanish(k)
  BY <1>8 DEF Vanish
<1>9. CASE \E k \in Conn : KeepaliveTimeout(k)
  BY <1>9 DEF KeepaliveTimeout
<1>10. CASE \E k \in Conn, c \in Chat : Hello(k, c)
  BY <1>10 DEF Hello
<1>11. CASE \E k \in Conn, c \in Chat : HelloTooLate(k, c)
  BY <1>11 DEF HelloTooLate
<1>12. CASE \E k \in Conn, c \in Chat : HelloUnrecorded(k, c)
  BY <1>12 DEF HelloUnrecorded
<1>13. CASE \E k \in Conn, c \in Chat : SendFailed(c, k)
  BY <1>13 DEF SendFailed
<1>14. CASE \E c \in Chat : SendRefused(c)
  BY <1>14 DEF SendRefused
<1>15. CASE Stop
  BY <1>15 DEF Stop
<1>16. CASE Crash
  BY <1>16 DEF Crash
<1>17. CASE UNCHANGED <<ws, newest, pc, net>>
  BY <1>17
<1>q. QED BY <1>1, <1>2, <1>3, <1>4, <1>5, <1>6, <1>7, <1>8, <1>9, <1>10,
  <1>11, <1>12, <1>13, <1>14, <1>15, <1>16, <1>17
  DEF Next, ConnStep, HelloStep, SendStep, vars, SendDone, SendFrame, Connect

(* A push finds only sockets that hello.ok was already written to.         *)
LEMMA HelloFirstStep ==
  TypeOK /\ HandledWasGreeted /\ OpenEntryHandled /\ HelloFirst /\ [Next]_vars
    => HelloFirst'
<1> SUFFICES ASSUME TypeOK, HandledWasGreeted, OpenEntryHandled, HelloFirst,
                    [Next]_vars
             PROVE  HelloFirst'
  OBVIOUS
<1> USE ConnAssumption
    DEF ConnAssumption, TypeOK, HandledWasGreeted, OpenEntryHandled,
      HelloFirst, NetStates, PcStates, Handled, Writable
<1>1. CASE \E k \in Conn, c \in Chat : Hello(k, c)
  BY <1>1 DEF Hello
<1>2. CASE \E c \in Chat : SendFrame(c)
  BY <1>2 DEF SendFrame
<1>3. CASE UNCHANGED <<first>>
  BY <1>3
<1>q. QED BY <1>1, <1>2, <1>3
  DEF Next, ConnStep, HelloStep, SendStep, vars, Accept, RejectHello, Greeted,
    Dispatch, EndDispatch, Teardown, Close, Vanish, KeepaliveTimeout,
    HelloTooLate, HelloUnrecorded, SendDone, SendFailed, SendRefused, Stop,
    Crash, Connect

(* Without a failed status write, an entry goes with its handler's finally *)
(* block at the latest.                                                    *)
LEMMA NoLeakedEntryStep ==
  TypeOK /\ UnusedHasNoHandler /\ EntryIsNewest /\ NewestSaidHello /\
    NoLeakedEntry /\ [Next]_vars => NoLeakedEntry'
<1> SUFFICES ASSUME TypeOK, UnusedHasNoHandler, EntryIsNewest, NewestSaidHello,
              NoLeakedEntry, [Next]_vars PROVE NoLeakedEntry'
  OBVIOUS
<1> USE ConnAssumption
    DEF ConnAssumption, TypeOK, UnusedHasNoHandler, EntryIsNewest,
      NewestSaidHello,
      NoLeakedEntry, NetStates, PcStates, Handled, Writable, Register,
      Unregister, Written, WriteFails
<1>1. CASE \E k \in Conn : Accept(k)
  BY <1>1 DEF Accept
<1>2. CASE \E k \in Conn : RejectHello(k)
  BY <1>2 DEF RejectHello
<1>3. CASE \E k \in Conn : Greeted(k)
  BY <1>3 DEF Greeted
<1>4. CASE \E k \in Conn : Dispatch(k)
  BY <1>4 DEF Dispatch
<1>5. CASE \E k \in Conn : EndDispatch(k)
  BY <1>5 DEF EndDispatch
<1>6. CASE \E k \in Conn : Teardown(k)
  BY <1>6 DEF Teardown
<1>7. CASE \E k \in Conn, c \in Chat : Hello(k, c)
  BY <1>7 DEF Hello
<1>8. CASE \E k \in Conn, c \in Chat : HelloTooLate(k, c)
  BY <1>8 DEF HelloTooLate
<1>9. CASE \E k \in Conn, c \in Chat : HelloUnrecorded(k, c)
  BY <1>9 DEF HelloUnrecorded
<1>10. CASE \E k \in Conn, c \in Chat : SendFailed(c, k)
  BY <1>10 DEF SendFailed
<1>11. CASE \E c \in Chat : SendRefused(c)
  BY <1>11 DEF SendRefused
<1>12. CASE Crash
  BY <1>12 DEF Crash
<1>13. CASE Connect
  BY <1>13 DEF Connect
<1>14. CASE UNCHANGED <<ws, device, pc, faults>>
  BY <1>14
<1>q. QED BY <1>1, <1>2, <1>3, <1>4, <1>5, <1>6, <1>7, <1>8, <1>9, <1>10,
  <1>11, <1>12, <1>13, <1>14
  DEF Next, ConnStep, HelloStep, SendStep, vars, Close, Vanish,
    KeepaliveTimeout, SendDone, SendFrame, Stop

(* The count in the file leaves the registry's only by a failed send, and  *)
(* then the handler of the socket that failed has its refresh still to     *)
(* come.                                                                   *)
LEMMA StatusLagsOnlyBehindDeadSocketStep ==
  TypeOK /\ NoLeakedEntry /\ StatusLagsOnlyBehindDeadSocket /\ [Next]_vars =>
    StatusLagsOnlyBehindDeadSocket'
<1> SUFFICES ASSUME TypeOK, NoLeakedEntry, StatusLagsOnlyBehindDeadSocket,
                    [Next]_vars
             PROVE  StatusLagsOnlyBehindDeadSocket'
  OBVIOUS
<1> USE ConnAssumption
    DEF ConnAssumption, TypeOK, NoLeakedEntry, StatusLagsOnlyBehindDeadSocket,
      NetStates, PcStates, Handled, Writable, Register, Unregister, Written,
      WriteFails,
            Count, Registered
<1>1. CASE \E k \in Conn : Accept(k)
  BY <1>1 DEF Accept
<1>2. CASE \E k \in Conn : RejectHello(k)
  BY <1>2 DEF RejectHello
<1>3. CASE \E k \in Conn : Greeted(k)
  BY <1>3 DEF Greeted
<1>4. CASE \E k \in Conn : Dispatch(k)
  BY <1>4 DEF Dispatch
<1>5. CASE \E k \in Conn : EndDispatch(k)
  BY <1>5 DEF EndDispatch
<1>6. CASE \E k \in Conn : Teardown(k)
  BY <1>6 DEF Teardown
<1>7. CASE \E k \in Conn : Close(k)
  BY <1>7 DEF Close
<1>8. CASE \E k \in Conn : Vanish(k)
  BY <1>8 DEF Vanish
<1>9. CASE \E k \in Conn : KeepaliveTimeout(k)
  BY <1>9 DEF KeepaliveTimeout
<1>10. CASE \E k \in Conn, c \in Chat : Hello(k, c)
  BY <1>10 DEF Hello
<1>11. CASE \E k \in Conn, c \in Chat : HelloTooLate(k, c)
  BY <1>11 DEF HelloTooLate
<1>12. CASE \E k \in Conn, c \in Chat : HelloUnrecorded(k, c)
  BY <1>12 DEF HelloUnrecorded
<1>13. CASE \E k \in Conn, c \in Chat : SendFailed(c, k)
  <2> SUFFICES ASSUME NEW k \in Conn, NEW c \in Chat, SendFailed(c, k),
                      serving, faults = 0, connected # Count'
               PROVE  \E d \in Conn : /\ Handled(d)' /\ net'[d] = "closed"
                                     /\ ws'[device'[d]] # d
    BY <1>13 DEF SendFailed
  <2>1. CASE ws[c] = k
    <3>1. Handled(k) /\ device[k] = c /\ net[k] = "closed"
      BY <2>1 DEF SendFailed
    <3>2. Handled(k)' /\ device'[k] = c /\ net'[k] = "closed"
      BY <3>1 DEF SendFailed
    <3>3. ws'[c] = NoConn
      BY <2>1 DEF SendFailed
    <3>4. ws'[device'[k]] # k
      BY <3>2, <3>3
    <3>5. device' = device
      BY DEF SendFailed
    <3>6. QED BY <3>2, <3>4, <3>5
  <2>2. CASE ws[c] # k
    <3>1. UNCHANGED <<ws, net, pc, device, connected, faults, serving>>
      BY <2>2 DEF SendFailed
    <3>2. QED BY <3>1
  <2>3. QED BY <2>1, <2>2
<1>14. CASE \E c \in Chat : SendRefused(c)
  BY <1>14 DEF SendRefused
<1>15. CASE Stop
  BY <1>15 DEF Stop
<1>16. CASE Crash
  BY <1>16 DEF Crash
<1>17. CASE Connect
  <2> SUFFICES ASSUME faults' = 0, serving' PROVE connected' = Count'
    OBVIOUS
  <2>1. faults = 0 /\ UNCHANGED ws /\ connected' = 0
    BY <1>17 DEF Connect
  <2>2. \A k \in Conn : ~Handled(k)
    BY <1>17 DEF Connect
  <2>3. Registered' = {}
    BY <2>1, <2>2
  <2>4. QED BY <2>1, <2>3, FS_EmptySet
<1>18. CASE UNCHANGED <<ws, device, pc, net, faults, connected, serving>>
  BY <1>18
<1>q. QED BY <1>1, <1>2, <1>3, <1>4, <1>5, <1>6, <1>7, <1>8, <1>9, <1>10,
  <1>11, <1>12, <1>13, <1>14, <1>15, <1>16, <1>17, <1>18
  DEF Next, ConnStep, HelloStep, SendStep, vars, SendDone, SendFrame

(* The inductive invariant: the properties and what they rest on.         *)
IInv ==
  /\ TypeOK
  /\ EntryIsNewest
  /\ NewestSaidHello
  /\ UnusedHasNoHandler
  /\ HandledWasGreeted
  /\ OpenEntryHandled
  /\ NewestServed
  /\ HelloFirst
  /\ NoLeakedEntry
  /\ StatusLagsOnlyBehindDeadSocket

(* The invariant holds when the adapter is made.                           *)
LEMMA Initially == Init => IInv
<1> SUFFICES ASSUME Init PROVE IInv
  OBVIOUS
<1> USE ConnAssumption DEF ConnAssumption, Init
<1>1. faults \in 0..MaxFaults /\ downs \in 0..MaxDowns
  OBVIOUS
<1>2. TypeOK
  BY <1>1 DEF TypeOK, NetStates, PcStates, FirstFrame
<1>3. QED
  BY <1>2 DEF IInv, EntryIsNewest, NewestSaidHello, UnusedHasNoHandler,
     HandledWasGreeted, OpenEntryHandled, Handled, NewestServed, HelloFirst,
     NoLeakedEntry, StatusLagsOnlyBehindDeadSocket

(* The inductive invariant holds in every reachable state, for any number  *)
(* of devices and connections.                                             *)
THEOREM Inductive == Spec => []IInv
<1>1. Init => IInv
  BY Initially
<1>2. IInv /\ [Next]_vars => IInv'
  BY TypeStep, EntryIsNewestStep, NewestSaidHelloStep, UnusedHasNoHandlerStep,
    HandledWasGreetedStep, OpenEntryHandledStep, NewestServedStep,
    HelloFirstStep, NoLeakedEntryStep, StatusLagsOnlyBehindDeadSocketStep
  DEF IInv
<1>3. QED BY <1>1, <1>2, PTL DEF Spec

(* The state of the registry and the server stays well-typed.              *)
THEOREM TypeCorrect == Spec => []TypeOK
<1>1. IInv => TypeOK
  BY DEF IInv
<1>2. QED BY <1>1, Inductive, PTL

(* The reconnect race is harmless: the newest live connection of a device  *)
(* stays registered (connections.py, unregister).                          *)
THEOREM NewestServedCorrect == Spec => []NewestServed
<1>1. IInv => NewestServed
  BY DEF IInv
<1>2. QED BY <1>1, Inductive, PTL

(* hello.ok is the first frame on every connection (server.py, _handle).   *)
THEOREM HelloFirstCorrect == Spec => []HelloFirst
<1>1. IInv => HelloFirst
  BY DEF IInv
<1>2. QED BY <1>1, Inductive, PTL

(* Every registered socket has a handler that will unregister it, as long  *)
(* as no status write has failed.                                          *)
THEOREM NoLeakedEntryCorrect == Spec => []NoLeakedEntry
<1>1. IInv => NoLeakedEntry
  BY DEF IInv
<1>2. QED BY <1>1, Inductive, PTL

(* The dashboard's count is wrong only while a dead socket's handler is    *)
(* still to finish.                                                        *)
THEOREM StatusLagsOnlyBehindDeadSocketCorrect == Spec => []StatusLagsOnlyBehindDeadSocket
<1>1. IInv => StatusLagsOnlyBehindDeadSocket
  BY DEF IInv
<1>2. QED BY <1>1, Inductive, PTL
-----------------------------------------------------------------------------
(* The registry keeps the promise of DeviceLink.  A connection has a name  *)
(* once it has said hello and not before, so one that is new to a device   *)
(* never held an entry; and no socket is open unless the gateway listens.  *)

HelloGivesDevice ==
  \A k \in Conn :
    /\ pc[k] \in {"none", "hello"} => device[k] = NoChat
    /\ Handled(k) => device[k] # NoChat

DownIsClosed == ~serving => \A k \in Conn : net[k] \in {"unused", "closed"}

LEMMA HelloGivesDeviceStep ==
  TypeOK /\ UnusedHasNoHandler /\ HelloGivesDevice /\ [Next]_vars => HelloGivesDevice'
<1> SUFFICES ASSUME TypeOK, UnusedHasNoHandler, HelloGivesDevice, [Next]_vars,
                    NEW j \in Conn
             PROVE  /\ pc'[j] \in {"none", "hello"} => device'[j] = NoChat
                    /\ pc'[j] \in {"greet", "loop", "dispatch"} => device'[j] # NoChat
  BY DEF HelloGivesDevice, Handled
<1>0. /\ NoChat \notin Chat
      /\ pc \in [Conn -> PcStates] /\ device \in [Conn -> Chat \cup {NoChat}]
      /\ net[j] = "unused" => pc[j] = "none"
      /\ pc[j] \in {"none", "hello"} => device[j] = NoChat
      /\ pc[j] \in {"greet", "loop", "dispatch"} => device[j] # NoChat
  BY ConnAssumption
  DEF ConnAssumption, TypeOK, UnusedHasNoHandler, HelloGivesDevice, Handled
<1>1. ASSUME NEW k \in Conn, Accept(k) \/ RejectHello(k)
      PROVE  /\ pc'[j] \in {"none", "hello"} => device'[j] = NoChat
             /\ pc'[j] \in {"greet", "loop", "dispatch"} => device'[j] # NoChat
  BY <1>0, <1>1 DEF Accept, RejectHello
<1>2. ASSUME NEW k \in Conn, NEW c \in Chat,
             Hello(k, c) \/ HelloTooLate(k, c) \/ HelloUnrecorded(k, c)
      PROVE  /\ pc'[j] \in {"none", "hello"} => device'[j] = NoChat
             /\ pc'[j] \in {"greet", "loop", "dispatch"} => device'[j] # NoChat
  BY <1>0, <1>2 DEF Hello, HelloTooLate, HelloUnrecorded
<1>3. ASSUME NEW k \in Conn,
             Greeted(k) \/ Dispatch(k) \/ EndDispatch(k) \/ Teardown(k)
      PROVE  /\ pc'[j] \in {"none", "hello"} => device'[j] = NoChat
             /\ pc'[j] \in {"greet", "loop", "dispatch"} => device'[j] # NoChat
  BY <1>0, <1>3 DEF Greeted, Dispatch, EndDispatch, Teardown
<1>4. CASE Crash
  BY <1>0, <1>4 DEF Crash
<1>5. CASE UNCHANGED <<pc, device>>
  BY <1>0, <1>5
<1>6. QED BY <1>1, <1>2, <1>3, <1>4, <1>5
  DEF Next, ConnStep, HelloStep, SendStep, vars, Close, Vanish, KeepaliveTimeout,
      SendDone, SendFailed, SendFrame, SendRefused, Stop, Connect

LEMMA DownIsClosedStep ==
  TypeOK /\ DownIsClosed /\ [Next]_vars => DownIsClosed'
<1> SUFFICES ASSUME TypeOK, DownIsClosed, [Next]_vars, ~serving', NEW j \in Conn
             PROVE  net'[j] \in {"unused", "closed"}
  BY DEF DownIsClosed
<1>0. /\ net \in [Conn -> NetStates]
      /\ ~serving => net[j] \in {"unused", "closed"}
  BY DEF TypeOK, DownIsClosed
<1>1. ASSUME NEW k \in Conn, Accept(k) \/ Close(k) \/ Vanish(k)
      PROVE  FALSE
  <2>1. serving' = serving
    BY <1>1 DEF Accept, Close, Vanish
  <2>2. net[k] \in {"unused", "closed"}
    BY <2>1 DEF DownIsClosed
  <2>3. QED BY <1>1, <2>1, <2>2 DEF Accept, Close, Vanish
<1>2. ASSUME NEW k \in Conn, RejectHello(k) \/ KeepaliveTimeout(k)
      PROVE  net'[j] \in {"unused", "closed"}
  BY <1>0, <1>2 DEF RejectHello, KeepaliveTimeout
<1>3. ASSUME NEW k \in Conn, NEW c \in Chat, HelloUnrecorded(k, c)
      PROVE  net'[j] \in {"unused", "closed"}
  BY <1>0, <1>3 DEF HelloUnrecorded
<1>4. CASE Stop \/ Crash
  BY <1>0, <1>4 DEF Stop, Crash, Writable, NetStates
<1>5. CASE UNCHANGED net /\ (serving' = serving \/ serving')
  BY <1>0, <1>5
<1>6. QED BY <1>1, <1>2, <1>3, <1>4, <1>5
  DEF Next, ConnStep, HelloStep, SendStep, vars, Hello, HelloTooLate, Greeted,
      Dispatch, EndDispatch, Teardown, SendDone, SendFailed, SendFrame,
      SendRefused, Connect

LinkInv == IInv /\ HelloGivesDevice /\ DownIsClosed

LEMMA LinkInductive == Spec => []LinkInv
<1>1. Init => HelloGivesDevice /\ DownIsClosed
  BY DEF Init, HelloGivesDevice, Handled, DownIsClosed
<1>2. IInv /\ HelloGivesDevice /\ DownIsClosed /\ [Next]_vars =>
        (HelloGivesDevice /\ DownIsClosed)'
  BY HelloGivesDeviceStep, DownIsClosedStep DEF IInv
<1>3. QED BY <1>1, <1>2, Inductive, PTL DEF Spec, LinkInv

(* An entry is under the name its connection gave, so a connection has one *)
(* at most, and one that has said no hello has none.                       *)
LEMMA EntryHasItsDevice ==
  ASSUME LinkInv, NEW c \in Chat, ws[c] # NoConn
  PROVE  ws[c] \in Conn /\ device[ws[c]] = c /\ device[ws[c]] # NoChat
<1>1. ws[c] \in Conn /\ ws[c] = newest[c]
  BY DEF LinkInv, IInv, TypeOK, EntryIsNewest
<1>2. device[ws[c]] = c
  BY <1>1 DEF LinkInv, IInv, NewestSaidHello
<1>3. QED BY <1>1, <1>2, ConnAssumption DEF ConnAssumption

LEMMA LinksStay ==
  ASSUME ws' = ws,
         \A d \in Chat : ws[d] # NoConn => (net'[ws[d]] = "open" <=> net[ws[d]] = "open")
  PROVE  Links' = Links
BY DEF Links, LinkOf

(* A hello adds its connection to those that were registered.              *)
LEMMA GreeterIsNew ==
  ASSUME LinkInv, NEW k \in Conn, NEW c \in Chat, pc[k] = "hello",
         device' = [device EXCEPT ![k] = c]
  PROVE  /\ k \notin Greeters /\ Greeters' = Greeters \cup {k}
         /\ \A d \in Chat : ws[d] # k
<1>1. device[k] = NoChat /\ c # NoChat
  BY ConnAssumption DEF ConnAssumption, LinkInv, HelloGivesDevice
<1>2. device'[k] = c /\ \A j \in Conn : j # k => device'[j] = device[j]
  BY DEF LinkInv, IInv, TypeOK
<1>3. k \notin Greeters /\ Greeters' = Greeters \cup {k}
  BY <1>1, <1>2 DEF Greeters
<1>4. k # NoConn
  BY ConnAssumption DEF ConnAssumption
<1>5. QED BY <1>1, <1>3, <1>4, EntryHasItsDevice

(* A registry that drops a closed socket does what Drop says.              *)
LEMMA DropStep ==
  ASSUME LinkInv, NEW c \in Chat, ws[c] # NoConn, net[ws[c]] = "closed",
         ws' = [ws EXCEPT ![c] = NoConn], UNCHANGED <<net, device, serving>>
  PROVE  Promise!Next
<1>1. Links[c] = "dying"
  BY DEF Links, LinkOf
<1>2. ws \in [Chat -> Conn \cup {NoConn}]
  BY DEF LinkInv, IInv, TypeOK
<1>3. \A d \in Chat : LinkOf(d)' = [Links EXCEPT ![c] = "down"][d]
  BY <1>2 DEF Links, LinkOf
<1>4. Links' = [Links EXCEPT ![c] = "down"]
  BY <1>3 DEF Links
<1>5. Greeters' = Greeters
  BY DEF Greeters
<1>6. QED BY <1>1, <1>4, <1>5 DEF Promise!Next, Promise!Drop

(* Hello, however it goes on, registers the connection.                    *)
LEMMA HelloRegisters ==
  ASSUME LinkInv, NEW k \in Conn, NEW c \in Chat,
         Hello(k, c) \/ HelloTooLate(k, c) \/ HelloUnrecorded(k, c)
  PROVE  Promise!Next
<1>0. /\ ws \in [Chat -> Conn \cup {NoConn}] /\ net \in [Conn -> NetStates]
      /\ k # NoConn
  BY ConnAssumption DEF ConnAssumption, LinkInv, IInv, TypeOK
<1>1. pc[k] = "hello" /\ device' = [device EXCEPT ![k] = c] /\ serving' = serving
  BY DEF Hello, HelloTooLate, HelloUnrecorded
<1>2. /\ k \notin Greeters /\ Greeters' = Greeters \cup {k}
      /\ \A d \in Chat : ws[d] # k
  BY <1>1, GreeterIsNew
<1>3. CASE Hello(k, c)
  <2>1. ws' = [ws EXCEPT ![c] = k] /\ net' = net
    BY <1>3 DEF Hello, Register
  <2>2. CASE net[k] = "open"
    <3>1. serving
      BY <2>2 DEF LinkInv, DownIsClosed
    <3>2. \A d \in Chat : LinkOf(d)' = [Links EXCEPT ![c] = "up"][d]
      BY <1>0, <2>1, <2>2 DEF Links, LinkOf
    <3>3. Links' = [Links EXCEPT ![c] = "up"]
      BY <3>2 DEF Links
    <3>4. QED BY <1>1, <1>2, <2>1, <3>1, <3>3 DEF Promise!Next, Promise!Register
  <2>3. CASE net[k] # "open"
    <3>1. \A d \in Chat : LinkOf(d)' = [Links EXCEPT ![c] = "dying"][d]
      BY <1>0, <2>1, <2>3 DEF Links, LinkOf
    <3>2. Links' = [Links EXCEPT ![c] = "dying"]
      BY <3>1 DEF Links
    <3>3. QED BY <1>1, <1>2, <2>1, <3>2 DEF Promise!Next, Promise!Register
  <2>4. QED BY <2>2, <2>3
<1>4. CASE HelloTooLate(k, c)
  <2>1. ws' = [ws EXCEPT ![c] = NoConn] /\ net' = net
    BY <1>4 DEF HelloTooLate
  <2>2. \A d \in Chat : LinkOf(d)' = [Links EXCEPT ![c] = "down"][d]
    BY <1>0, <2>1 DEF Links, LinkOf
  <2>3. Links' = [Links EXCEPT ![c] = "down"]
    BY <2>2 DEF Links
  <2>4. QED BY <1>1, <1>2, <2>1, <2>3 DEF Promise!Next, Promise!Register
<1>5. CASE HelloUnrecorded(k, c)
  <2>1. ws' = [ws EXCEPT ![c] = k] /\ net' = [net EXCEPT ![k] = "closed"]
    BY <1>5 DEF HelloUnrecorded, Register
  <2>2. \A d \in Chat : LinkOf(d)' = [Links EXCEPT ![c] = "dying"][d]
    BY <1>0, <1>2, <2>1 DEF Links, LinkOf
  <2>3. Links' = [Links EXCEPT ![c] = "dying"]
    BY <2>2 DEF Links
  <2>4. QED BY <1>1, <1>2, <2>1, <2>3 DEF Promise!Next, Promise!Register
<1>6. QED BY <1>3, <1>4, <1>5

(* A transport that ends: its holder, if it has one, goes from up to dying. *)
LEMMA EndingDies ==
  ASSUME LinkInv, NEW k \in Conn, Close(k) \/ Vanish(k)
  PROVE  Promise!Next \/ UNCHANGED <<ws, Links, Greeters, serving>>
<1>0. /\ net \in [Conn -> NetStates] /\ k # NoConn
      /\ net[k] = "open" /\ net'[k] # "open"
      /\ \A j \in Conn : j # k => net'[j] = net[j]
      /\ UNCHANGED <<ws, device, serving>>
  BY ConnAssumption DEF ConnAssumption, LinkInv, IInv, TypeOK, Close, Vanish
<1>1. Greeters' = Greeters
  BY <1>0 DEF Greeters
<1>2. CASE \E c \in Chat : ws[c] = k
  <2>1. PICK c \in Chat : ws[c] = k
    BY <1>2
  <2>2. \A d \in Chat : ws[d] # NoConn => ws[d] \in Conn /\ (ws[d] = k => d = c)
    BY <1>0, <2>1, EntryHasItsDevice
  <2>3. \A d \in Chat : LinkOf(d)' = Promise!Dying({c})[d]
    <3>1. TAKE d \in Chat
    <3>2. CASE d = c
      BY <1>0, <2>1, <3>2 DEF LinkOf, Links, Promise!Dying
    <3>3. CASE d # c
      <4>1. LinkOf(d)' = LinkOf(d)
        BY <1>0, <2>2, <3>3 DEF LinkOf
      <4>2. QED BY <3>3, <4>1 DEF Links, Promise!Dying
    <3>4. QED BY <3>2, <3>3
  <2>4. Links' = Promise!Dying({c})
    BY <2>3 DEF Links, Promise!Dying
  <2>5. QED BY <1>0, <1>1, <2>4 DEF Promise!Next, Promise!Die
<1>3. CASE ~\E c \in Chat : ws[c] = k
  <2>1. \A d \in Chat : ws[d] # NoConn => ws[d] \in Conn /\ ws[d] # k
    BY <1>3, EntryHasItsDevice
  <2>2. Links' = Links
    BY <1>0, <2>1, LinksStay
  <2>3. QED BY <1>0, <1>1, <2>2
<1>4. QED BY <1>2, <1>3

(* Accepting and rejecting a connection, or closing one that had vanished, *)
(* changes no link that is up.                                             *)
LEMMA OthersKeepLinks ==
  ASSUME LinkInv, NEW k \in Conn,
         Accept(k) \/ RejectHello(k) \/ KeepaliveTimeout(k)
  PROVE  UNCHANGED <<ws, Links, Greeters, serving>>
<1>0. net \in [Conn -> NetStates] /\ UNCHANGED <<ws, device, serving>>
  BY DEF LinkInv, IInv, TypeOK, Accept, RejectHello, KeepaliveTimeout
<1>1. Greeters' = Greeters
  BY <1>0 DEF Greeters
<1>2. CASE Accept(k) \/ RejectHello(k)
  <2>1. pc[k] \in {"none", "hello"}
    BY <1>2 DEF Accept, RejectHello, LinkInv, IInv, UnusedHasNoHandler
  <2>2. device[k] = NoChat
    BY <2>1 DEF LinkInv, HelloGivesDevice
  <2>3. \A d \in Chat : ws[d] # NoConn => ws[d] \in Conn /\ ws[d] # k
    BY <2>2, EntryHasItsDevice
  <2>4. \A j \in Conn : j # k => net'[j] = net[j]
    BY <1>0, <1>2 DEF Accept, RejectHello
  <2>5. QED BY <1>0, <1>1, <2>3, <2>4, LinksStay
<1>3. CASE KeepaliveTimeout(k)
  <2>1. \A j \in Conn : net'[j] = "open" <=> net[j] = "open"
    BY <1>0, <1>3 DEF KeepaliveTimeout
  <2>2. \A d \in Chat : ws[d] # NoConn => ws[d] \in Conn
    BY EntryHasItsDevice
  <2>3. QED BY <1>0, <1>1, <2>1, <2>2, LinksStay
<1>4. QED BY <1>2, <1>3

(* A handler's teardown, a late failed send and a refused one drop the     *)
(* entry only if it is the closed connection's.                            *)
LEMMA UnregisterDrops ==
  ASSUME LinkInv,
         \/ \E k \in Conn : Teardown(k)
         \/ \E k \in Conn, c \in Chat : SendFailed(c, k)
         \/ \E c \in Chat : SendRefused(c)
  PROVE  Promise!Next \/ UNCHANGED <<ws, Links, Greeters, serving>>
<1>1. ASSUME NEW k \in Conn, NEW c \in Chat, net[k] = "closed",
             ws' = Unregister(c, k), UNCHANGED <<net, device, serving>>
      PROVE  Promise!Next \/ UNCHANGED <<ws, Links, Greeters, serving>>
  <2>1. CASE ws[c] = k
    <3>1. ws' = [ws EXCEPT ![c] = NoConn] /\ ws[c] # NoConn
      BY <1>1, <2>1, ConnAssumption DEF ConnAssumption, Unregister
    <3>2. QED BY <1>1, <2>1, <3>1, DropStep
  <2>2. CASE ws[c] # k
    <3>1. ws' = ws
      BY <1>1, <2>2 DEF Unregister
    <3>2. Links' = Links /\ Greeters' = Greeters
      BY <1>1, <3>1, LinksStay DEF Greeters
    <3>3. QED BY <1>1, <3>1, <3>2
  <2>3. QED BY <2>1, <2>2
<1>2. ASSUME NEW k \in Conn, Teardown(k)
      PROVE  Promise!Next \/ UNCHANGED <<ws, Links, Greeters, serving>>
  <2>1. Handled(k) /\ net[k] = "closed" /\ ws' = Unregister(device[k], k)
        /\ UNCHANGED <<net, device, serving>>
    BY <1>2 DEF Teardown, Handled
  <2>2. device[k] \in Chat
    BY <2>1 DEF LinkInv, IInv, TypeOK, HelloGivesDevice
  <2>3. QED BY <1>1, <2>1, <2>2
<1>3. ASSUME NEW k \in Conn, NEW c \in Chat, SendFailed(c, k)
      PROVE  Promise!Next \/ UNCHANGED <<ws, Links, Greeters, serving>>
  BY <1>1, <1>3 DEF SendFailed
<1>4. ASSUME NEW c \in Chat, SendRefused(c)
      PROVE  Promise!Next \/ UNCHANGED <<ws, Links, Greeters, serving>>
  <2>1. ws[c] \in Conn
    BY <1>4, EntryHasItsDevice DEF SendRefused
  <2>2. QED BY <1>1, <1>4, <2>1 DEF SendRefused
<1>5. QED BY <1>2, <1>3, <1>4

(* The gateway's own steps.                                                *)
LEMMA GatewaySteps ==
  ASSUME LinkInv, Stop \/ Crash \/ Connect
  PROVE  Promise!Next \/ UNCHANGED <<ws, Links, Greeters, serving>>
<1>0. device' = device
  BY DEF Stop, Crash, Connect
<1>1. Greeters' = Greeters
  BY <1>0 DEF Greeters
<1>2. CASE Stop
  <2>1. \A d \in Chat : ws[d] # NoConn => ws[d] \in Conn
    BY EntryHasItsDevice
  <2>2. \A j \in Conn : net'[j] # "open"
    BY <1>2 DEF Stop, Writable
  <2>3. \A d \in Chat : LinkOf(d)' = Promise!Dying(Chat)[d]
    BY <1>2, <2>1, <2>2 DEF Stop, LinkOf, Links, Promise!Dying
  <2>4. Links' = Promise!Dying(Chat)
    BY <2>3 DEF Links, Promise!Dying
  <2>5. QED BY <1>1, <1>2, <2>4 DEF Stop, Promise!Next, Promise!Stop
<1>3. CASE Crash
  <2>1. Links' = [c \in Chat |-> "down"]
    BY <1>3 DEF Crash, Links, LinkOf
  <2>2. QED BY <1>1, <1>3, <2>1 DEF Crash, Promise!Next, Promise!Crash
<1>4. CASE Connect
  <2>1. UNCHANGED <<ws, net>>
    BY <1>4 DEF Connect
  <2>2. Links' = Links
    BY <2>1, LinksStay
  <2>3. serving' = serving \/ (~serving /\ serving' = TRUE)
    BY <1>4 DEF Connect
  <2>4. QED BY <1>1, <2>1, <2>2, <2>3 DEF Promise!Next, Promise!Start
<1>5. QED BY <1>2, <1>3, <1>4

LEMMA LinkStep ==
  LinkInv /\ [Next]_vars => [Promise!Next]_<<ws, Links, Greeters, serving>>
<1> SUFFICES ASSUME LinkInv, [Next]_vars
             PROVE  Promise!Next \/ UNCHANGED <<ws, Links, Greeters, serving>>
  OBVIOUS
<1>1. CASE \E k \in Conn : Accept(k) \/ RejectHello(k) \/ KeepaliveTimeout(k)
  BY <1>1, OthersKeepLinks
<1>2. CASE \E k \in Conn : Close(k) \/ Vanish(k)
  BY <1>2, EndingDies
<1>3. CASE \E k \in Conn, c \in Chat : HelloStep(k, c)
  BY <1>3, HelloRegisters DEF HelloStep
<1>4. CASE \/ \E k \in Conn : Teardown(k)
           \/ \E k \in Conn, c \in Chat : SendFailed(c, k)
           \/ \E c \in Chat : SendRefused(c)
  BY <1>4, UnregisterDrops
<1>5. CASE Stop \/ Crash \/ Connect
  BY <1>5, GatewaySteps
<1>6. CASE UNCHANGED <<ws, net, device, serving>>
  <2>1. Links' = Links /\ Greeters' = Greeters
    BY <1>6, LinksStay DEF Greeters
  <2>2. QED BY <1>6, <2>1
<1>7. QED BY <1>1, <1>2, <1>3, <1>4, <1>5, <1>6
  DEF Next, ConnStep, SendStep, vars, Greeted, Dispatch, EndDispatch, SendDone,
      SendFrame

(* The registry implements DeviceLink: a live connection loses its entry   *)
(* only to a newer one or with the gateway, and never gets it back.        *)
THEOREM KeepsLinks == Spec => LinkKept
<1>1. Init => Promise!Init
  BY DEF Init, Promise!Init, Links, LinkOf, Greeters
<1>2. LinkInv /\ [Next]_vars => [Promise!Next]_<<ws, Links, Greeters, serving>>
  BY LinkStep
<1>3. QED BY <1>1, <1>2, LinkInductive, PTL DEF Spec, LinkKept, Promise!Spec
=============================================================================
