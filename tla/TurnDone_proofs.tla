--------------------------- MODULE TurnDone_proofs ---------------------------
(***************************************************************************)
(* Proofs about TurnDone for any number of connections, texts, polls and   *)
(* follow-up turns.                                                        *)
(***************************************************************************)
EXTENDS TurnDone, TLAPS

(* The poller in the map is the last one made, and it was not cancelled.   *)
TrackedIsLast ==
  tracked # 0 => tracked = created /\ tracked \notin cancelled

(* Pollers are numbered in the order they are made.                        *)
NumberedInOrder ==
  /\ \A p \in Poller : p > created => ppc[p] = "none"
  /\ \A p \in cancelled : p <= created

(* A text being handed over, and a poller that has yet to send its         *)
(* turn.done, are of a text that came after the last turn.done.            *)
DoneIsOlder ==
  ~HandleSuspends =>
    /\ \A h \in Handler : hpc[h] = "handling" => asked > doneAsked
    /\ \A p \in Poller :
         Live(p) /\ ppc[p] # "done" /\ p \notin cancelled => asked > doneAsked

(* Work is consumed when it registers a turn, or turns out to run none.  A *)
(* guard is one that was consumed, and so is the one that a poller saw.    *)
Work     == asked + follows
Consumed == Work - pending

WorkCounted ==
  /\ pending <= Work /\ lag <= Lag
  /\ guard => pending < Work
  /\ \A p \in Poller : ppc[p] = "guard" => pending < Work
  /\ \A p \in Poller : p > created => polls[p] = 0

(* The polls that consumed work can have taken before it registered.       *)
Budget  == Lag * Consumed
Settled == ~guard /\ pending = 0

(* Work that is still pending has been pending at every poll the poller    *)
(* made with the guard clear, so those polls are within the budget; when   *)
(* the budget is too small for the whole grace period, the list is written *)
(* only after everything has settled.                                      *)
InBudget(p) ==
  /\ ppc[p] = "start" => Settled \/ polls[p] <= Budget + lag
  /\ ppc[p] = "grace" => Settled \/ polls[p] + Lag <= Budget + lag
  /\ ppc[p] = "sessions" /\ Lag * (Work - 1) <= GracePolls => Settled

Quiet == ~HandleSuspends /\ fails = 0 /\ \A h \in Handler : hpc[h] = "idle"

PollsInBudget ==
  Lag <= StartPolls /\ Quiet =>
    \A p \in Poller : Live(p) /\ p \notin cancelled => InBudget(p)

(* Entering a loop of the poller, and counting a poll, keep the types.     *)
LEMMA EnterType ==
  ASSUME TypeOK, NEW p \in Poller, NEW s \in PollerStates, NEW n \in Nat,
         Enter(p, s, n)
  PROVE  ppc' \in [Poller -> PollerStates] /\ polls' \in [Poller -> Nat]
BY DEF TypeOK, Enter

LEMMA PollGapType ==
  ASSUME TypeOK, PollGap
  PROVE  lag' \in Nat
BY DEF TypeOK, PollGap

(* Every step keeps the types of the handlers, the pollers and the         *)
(* gateway.                                                                *)
LEMMA TypeOKStep ==
  TypeOK /\ NumberedInOrder /\ [Next]_vars => TypeOK'
<1> SUFFICES ASSUME TypeOK, NumberedInOrder, [Next]_vars PROVE TypeOK'
  OBVIOUS
<1> USE TurnAssumption
    DEF TurnAssumption, TypeOK, PollerStates, Poller, Live, pollerVars,
    gatewayVars, doneVars, lifeVars
<1>1. CASE \E h \in Handler : OnText(h)
  BY <1>1 DEF OnText, LoopFree
<1>2. CASE \E h \in Handler : ReplacePoller(h)
  BY <1>2 DEF ReplacePoller
<1>3. CASE \E h \in Handler : HandleRaises(h)
  BY <1>3 DEF HandleRaises
<1>4. CASE \E p \in Poller : PollStart(p)
  <2> SUFFICES ASSUME NEW p \in Poller, PollStart(p) PROVE TypeOK'
    BY <1>4
  <2>1. lag' \in Nat
    BY PollGapType DEF PollStart
  <2>2. ppc' \in [Poller -> PollerStates] /\ polls' \in [Poller -> Nat]
    <3>1. polls[p] + 1 \in Nat /\ {0, 1} \subseteq Nat
      OBVIOUS
    <3>2. QED BY <3>1, EnterType DEF PollStart
  <2>3. QED BY <2>1, <2>2 DEF PollStart
<1>5. CASE \E p \in Poller : PollGuard(p)
  <2> SUFFICES ASSUME NEW p \in Poller, PollGuard(p) PROVE TypeOK'
    BY <1>5
  <2>1. lag' \in Nat
    BY PollGapType DEF PollGuard
  <2>2. ppc' \in [Poller -> PollerStates] /\ polls' \in [Poller -> Nat]
    <3>1. polls[p] + 1 \in Nat /\ {0, 1} \subseteq Nat
      OBVIOUS
    <3>2. QED BY <3>1, EnterType DEF PollGuard
  <2>3. QED BY <2>1, <2>2 DEF PollGuard
<1>6. CASE \E p \in Poller : PollGrace(p)
  <2> SUFFICES ASSUME NEW p \in Poller, PollGrace(p) PROVE TypeOK'
    BY <1>6
  <2>1. lag' \in Nat
    BY PollGapType DEF PollGrace
  <2>2. ppc' \in [Poller -> PollerStates] /\ polls' \in [Poller -> Nat]
    <3>1. polls[p] + 1 \in Nat /\ {0, 1} \subseteq Nat
      OBVIOUS
    <3>2. QED BY <3>1, EnterType DEF PollGrace
  <2>3. QED BY <2>1, <2>2 DEF PollGrace
<1>7. CASE \E p \in Poller : ListRaises(p)
  <2> SUFFICES ASSUME NEW p \in Poller, ListRaises(p) PROVE TypeOK'
    BY <1>7
  <2>1. lag' \in Nat
    BY PollGapType DEF ListRaises
  <2>2. ppc' \in [Poller -> PollerStates] /\ polls' \in [Poller -> Nat]
    BY EnterType DEF ListRaises
  <2>3. tracked' \in 0..created /\ fails' \in 0..MaxFails
    BY DEF ListRaises, Untrack
  <2>4. QED BY <2>1, <2>2, <2>3 DEF ListRaises
<1>8. CASE \E p \in Poller : EmitDone(p)
  <2> SUFFICES ASSUME NEW p \in Poller, EmitDone(p) PROVE TypeOK'
    BY <1>8
  <2>0. ppc[p] # "none"
    BY DEF EmitDone
  <2>1. p \in 0..created /\ asked \in 0..asked
    <3>1. p <= created /\ p \in Nat /\ created \in Nat /\ asked \in Nat
      BY <2>0 DEF NumberedInOrder
    <3>2. QED BY ONLY <3>1
  <2>2. doneBy' \in (0..created)' /\ doneAsked' \in (0..asked)'
    BY <2>1 DEF EmitDone
  <2>3. ppc' \in [Poller -> PollerStates] /\ polls' \in [Poller -> Nat]
    BY EnterType DEF EmitDone
  <2>4. QED BY <2>2, <2>3 DEF EmitDone
<1>9. CASE \E p \in Poller : EndPoller(p)
  BY <1>9 DEF EndPoller, Enter, Untrack
<1>10. CASE \E p \in Poller : EndCancelled(p)
  BY <1>10 DEF EndCancelled, Enter, Untrack
<1>11. CASE Register
  BY <1>11 DEF Register
<1>12. CASE Clear
  BY <1>12 DEF Clear
<1>13. CASE FollowUp
  BY <1>13 DEF FollowUp
<1>14. CASE NoTurn
  BY <1>14 DEF NoTurn
<1>15. CASE Disconnect
  <2>1. cancelled' \subseteq Poller
    <3>1. tracked # 0 => tracked \in Poller
      OBVIOUS
    <3>2. QED BY <1>15, <3>1 DEF Disconnect
  <2>2. tracked' \in 0..created /\ downs' \in 0..MaxDowns /\ cut' \in 0..created
    BY <1>15 DEF Disconnect
  <2>3. QED BY <1>15, <2>1, <2>2 DEF Disconnect
<1>16. CASE Stopped \/ Connect
  BY <1>16 DEF Stopped, Connect
<1>17. CASE UNCHANGED vars
  BY <1>17 DEF vars
<1>q. QED BY <1>1, <1>2, <1>3, <1>4, <1>5, <1>6, <1>7, <1>8, <1>9, <1>10,
  <1>11, <1>12, <1>13, <1>14, <1>15, <1>16, <1>17
  DEF Next, HandlerStep, PollerStep, GatewayStep, vars

(* Replacing cancels the poller that was tracked; forgetting cancels it    *)
(* too.                                                                    *)
LEMMA LivePollerTrackedStep ==
  TypeOK /\ NumberedInOrder /\ LivePollerTracked /\ [Next]_vars =>
  LivePollerTracked'
<1> SUFFICES ASSUME TypeOK, NumberedInOrder, LivePollerTracked, [Next]_vars
  PROVE LivePollerTracked'
  OBVIOUS
<1> USE TurnAssumption
    DEF TurnAssumption, TypeOK, PollerStates, Poller, Live, NumberedInOrder,
    LivePollerTracked, pollerVars, gatewayVars, doneVars, lifeVars
<1>1. CASE \E h \in Handler : ReplacePoller(h)
  <2>1. /\ tracked' = created + 1
        /\ ppc' = [ppc EXCEPT ![created + 1] = "start"]
        /\ cancelled \subseteq cancelled'
        /\ tracked # 0 => tracked \in cancelled'
    BY <1>1 DEF ReplacePoller
  <2>2. ASSUME NEW p \in Poller, p # created + 1, Live(p)'
        PROVE  p \in cancelled'
    <3>1. Live(p)
      BY <2>1, <2>2
    <3>2. p \in cancelled \/ tracked = p
      BY <3>1
    <3>3. p # 0
      OBVIOUS
    <3>4. QED BY <2>1, <3>2, <3>3
  <2>3. ASSUME NEW p \in Poller, Live(p)', p \notin cancelled'
        PROVE  tracked' = p
    <3>1. p = created + 1
      BY <2>2, <2>3
    <3>2. QED BY <2>1, <3>1
  <2>4. QED BY <2>3
<1>2. CASE \E p \in Poller : PollStart(p)
  BY <1>2 DEF PollStart, Runs, PollGap, Gap, Enter
<1>3. CASE \E p \in Poller : PollGuard(p)
  BY <1>3 DEF PollGuard, Runs, PollGap, Gap, Enter
<1>4. CASE \E p \in Poller : PollGrace(p)
  BY <1>4 DEF PollGrace, Runs, PollGap, Gap, Enter
<1>5. CASE \E p \in Poller : ListRaises(p)
  BY <1>5 DEF ListRaises, Runs, PollGap, Gap, Enter, Untrack
<1>6. CASE \E p \in Poller : EmitDone(p)
  BY <1>6 DEF EmitDone, Enter
<1>7. CASE \E p \in Poller : EndPoller(p)
  BY <1>7 DEF EndPoller, Enter, Untrack
<1>8. CASE \E p \in Poller : EndCancelled(p)
  BY <1>8 DEF EndCancelled, Enter, Untrack
<1>9. CASE Disconnect
  BY <1>9 DEF Disconnect, LoopFree
<1>10. CASE UNCHANGED <<created, tracked, ppc, cancelled>>
  BY <1>10
<1>q. QED BY <1>1, <1>2, <1>3, <1>4, <1>5, <1>6, <1>7, <1>8, <1>9, <1>10
  DEF Next, HandlerStep, PollerStep, GatewayStep, vars, OnText, HandleRaises,
      Register, Clear, FollowUp, NoTurn, Stopped, Connect, Enter, PollGap

(* Only the newest poller is ever put in the map, and leaving it is for    *)
(* good.                                                                   *)
LEMMA TrackedIsLastStep ==
  TypeOK /\ NumberedInOrder /\ TrackedIsLast /\ [Next]_vars => TrackedIsLast'
<1> SUFFICES ASSUME TypeOK, NumberedInOrder, TrackedIsLast, [Next]_vars PROVE
  TrackedIsLast'
  OBVIOUS
<1> USE TurnAssumption
    DEF TurnAssumption, TypeOK, PollerStates, Poller, Live, NumberedInOrder,
    TrackedIsLast, pollerVars, gatewayVars, doneVars, lifeVars
<1>1. CASE \E h \in Handler : ReplacePoller(h)
  <2>1. tracked' = created + 1 /\ created' = created + 1
    BY <1>1 DEF ReplacePoller
  <2>2. \A q \in cancelled' : q <= created
    BY <1>1 DEF ReplacePoller
  <2>3. created + 1 \notin cancelled'
    BY <2>2
  <2>4. QED BY <2>1, <2>3
<1>2. CASE \E p \in Poller : ListRaises(p)
  BY <1>2 DEF ListRaises, Runs, PollGap, Gap, Enter, Untrack
<1>3. CASE \E p \in Poller : EndPoller(p)
  BY <1>3 DEF EndPoller, Enter, Untrack
<1>4. CASE \E p \in Poller : EndCancelled(p)
  BY <1>4 DEF EndCancelled, Enter, Untrack
<1>5. CASE Disconnect
  BY <1>5 DEF Disconnect, LoopFree
<1>6. CASE UNCHANGED <<created, tracked, cancelled>>
  BY <1>6
<1>q. QED BY <1>1, <1>2, <1>3, <1>4, <1>5, <1>6
  DEF Next, HandlerStep, PollerStep, GatewayStep, vars, OnText, HandleRaises,
      PollStart, PollGuard, PollGrace, EmitDone, Register, Clear, FollowUp,
      NoTurn, Stopped, Connect, Enter, PollGap

(* A number is used once.                                                  *)
LEMMA NumberedInOrderStep ==
  TypeOK /\ NumberedInOrder /\ [Next]_vars => NumberedInOrder'
<1> SUFFICES ASSUME TypeOK, NumberedInOrder, [Next]_vars PROVE
  NumberedInOrder'
  OBVIOUS
<1> USE TurnAssumption
    DEF TurnAssumption, TypeOK, PollerStates, Poller, Live, NumberedInOrder,
    pollerVars, gatewayVars, doneVars, lifeVars
<1>1. CASE \E h \in Handler : ReplacePoller(h)
  <2>1. cancelled' \subseteq cancelled \cup {tracked}
    BY <1>1 DEF ReplacePoller
  <2>2. \A p \in cancelled : p \in Nat /\ p <= created
    OBVIOUS
  <2>3. tracked <= created /\ created <= created + 1
    OBVIOUS
  <2>4. \A p \in cancelled' : p <= created + 1
    BY <2>1, <2>2, <2>3
  <2>5. \A p \in Poller : p > created + 1 => ppc'[p] = "none"
    BY <1>1 DEF ReplacePoller
  <2>6. created' = created + 1
    BY <1>1 DEF ReplacePoller
  <2>7. QED BY <2>4, <2>5, <2>6
<1>2. CASE \E p \in Poller : PollStart(p)
  BY <1>2 DEF PollStart, Runs, PollGap, Gap, Enter
<1>3. CASE \E p \in Poller : PollGuard(p)
  BY <1>3 DEF PollGuard, Runs, PollGap, Gap, Enter
<1>4. CASE \E p \in Poller : PollGrace(p)
  BY <1>4 DEF PollGrace, Runs, PollGap, Gap, Enter
<1>5. CASE \E p \in Poller : ListRaises(p)
  BY <1>5 DEF ListRaises, Runs, PollGap, Gap, Enter, Untrack
<1>6. CASE \E p \in Poller : EmitDone(p)
  BY <1>6 DEF EmitDone, Enter
<1>7. CASE \E p \in Poller : EndPoller(p)
  BY <1>7 DEF EndPoller, Enter, Untrack
<1>8. CASE \E p \in Poller : EndCancelled(p)
  BY <1>8 DEF EndCancelled, Enter, Untrack
<1>9. CASE Disconnect
  BY <1>9 DEF Disconnect, LoopFree
<1>10. CASE UNCHANGED <<created, tracked, ppc, cancelled>>
  BY <1>10
<1>q. QED BY <1>1, <1>2, <1>3, <1>4, <1>5, <1>6, <1>7, <1>8, <1>9, <1>10
  DEF Next, HandlerStep, PollerStep, GatewayStep, vars, OnText, HandleRaises,
      Register, Clear, FollowUp, NoTurn, Stopped, Connect, Enter, PollGap

(* A disconnect cancels the one poller that still runs, and those made     *)
(* later have higher numbers.                                              *)
LEMMA DisconnectSilencesOldStep ==
  TypeOK /\ NumberedInOrder /\ LivePollerTracked /\ DisconnectSilencesOld
    /\ [Next]_vars => DisconnectSilencesOld'
<1> SUFFICES ASSUME TypeOK, NumberedInOrder, LivePollerTracked,
                    DisconnectSilencesOld, [Next]_vars
             PROVE  DisconnectSilencesOld'
  OBVIOUS
<1> USE TurnAssumption
    DEF TurnAssumption, TypeOK, PollerStates, Poller, Live, NumberedInOrder,
    LivePollerTracked, DisconnectSilencesOld, pollerVars, gatewayVars, doneVars,
    lifeVars
<1>1. CASE \E h \in Handler : ReplacePoller(h)
  <2>1. /\ ppc' = [ppc EXCEPT ![created + 1] = "start"]
        /\ cancelled \subseteq cancelled' /\ cut' = cut
    BY <1>1 DEF ReplacePoller
  <2>2. cut < created + 1
    OBVIOUS
  <2>3. QED BY <2>1, <2>2
<1>2. ASSUME NEW p \in Poller, NEW s \in PollerStates, NEW n \in Nat,
             Enter(p, s, n), Live(p), p \in cancelled => s = "ended",
             UNCHANGED <<cancelled, cut>>
      PROVE  DisconnectSilencesOld'
  BY <1>2 DEF Enter
<1>3. CASE \E p \in Poller : PollStart(p)
  <2> PICK p \in Poller : PollStart(p)
    BY <1>3
  <2>1. \E s \in PollerStates, n \in Nat : Enter(p, s, n)
    <3>1. polls[p] + 1 \in Nat /\ {0, 1} \subseteq Nat
      OBVIOUS
    <3>2. QED BY <3>1 DEF PollStart
  <2>2. QED BY <1>2, <2>1 DEF PollStart, Runs
<1>4. CASE \E p \in Poller : PollGuard(p)
  BY <1>2, <1>4 DEF PollGuard, Runs
<1>5. CASE \E p \in Poller : PollGrace(p)
  <2> PICK p \in Poller : PollGrace(p)
    BY <1>5
  <2>1. \E s \in PollerStates, n \in Nat : Enter(p, s, n)
    <3>1. polls[p] + 1 \in Nat /\ {0, 1} \subseteq Nat
      OBVIOUS
    <3>2. QED BY <3>1 DEF PollGrace
  <2>2. QED BY <1>2, <2>1 DEF PollGrace, Runs
<1>6. CASE \E p \in Poller : ListRaises(p)
  BY <1>2, <1>6 DEF ListRaises, Runs
<1>7. CASE \E p \in Poller : EmitDone(p)
  BY <1>2, <1>7 DEF EmitDone
<1>8. CASE \E p \in Poller : EndPoller(p)
  BY <1>2, <1>8 DEF EndPoller
<1>9. CASE \E p \in Poller : EndCancelled(p)
  BY <1>2, <1>9 DEF EndCancelled
<1>10. CASE Disconnect
  <2>1. ppc' = ppc /\ (tracked # 0 => cancelled' = cancelled \cup {tracked})
        /\ cancelled \subseteq cancelled'
    BY <1>10 DEF Disconnect
  <2>2. \A p \in Poller : Live(p) => p \in cancelled'
    BY <2>1
  <2>3. QED BY <2>1, <2>2
<1>11. CASE UNCHANGED <<ppc, cancelled, cut>>
  BY <1>11
<1>q. QED BY <1>1, <1>3, <1>4, <1>5, <1>6, <1>7, <1>8, <1>9, <1>10, <1>11
  DEF Next, HandlerStep, PollerStep, GatewayStep, vars, OnText, HandleRaises,
      Register, Clear, FollowUp, NoTurn, Stopped, Connect

(* After a turn.done the next poller is made for a later text.             *)
LEMMA DoneIsOlderStep ==
  TypeOK /\ NumberedInOrder /\ LivePollerTracked /\ DoneIsOlder /\ [Next]_vars
  => DoneIsOlder'
<1> SUFFICES ASSUME TypeOK, NumberedInOrder, LivePollerTracked, DoneIsOlder,
  [Next]_vars PROVE DoneIsOlder'
  OBVIOUS
<1> USE TurnAssumption
    DEF TurnAssumption, TypeOK, PollerStates, Poller, Live, NumberedInOrder,
    LivePollerTracked, DoneIsOlder, pollerVars, gatewayVars, doneVars, lifeVars, HandleSuspends
<1>1. CASE \E h \in Handler : OnText(h)
  BY <1>1 DEF OnText, LoopFree
<1>2. CASE \E h \in Handler : ReplacePoller(h)
  BY <1>2 DEF ReplacePoller
<1>3. CASE \E h \in Handler : HandleRaises(h)
  BY <1>3 DEF HandleRaises
<1>4. CASE \E p \in Poller : PollStart(p)
  BY <1>4 DEF PollStart, Runs, PollGap, Gap, Enter
<1>5. CASE \E p \in Poller : PollGuard(p)
  BY <1>5 DEF PollGuard, Runs, PollGap, Gap, Enter
<1>6. CASE \E p \in Poller : PollGrace(p)
  BY <1>6 DEF PollGrace, Runs, PollGap, Gap, Enter
<1>7. CASE \E p \in Poller : ListRaises(p)
  BY <1>7 DEF ListRaises, Runs, PollGap, Gap, Enter, Untrack
<1>8. CASE \E p \in Poller : EmitDone(p)
  <2> SUFFICES ASSUME NEW p \in Poller, EmitDone(p), ~HandleSuspends
               PROVE  /\ \A h \in Handler : hpc'[h] # "handling"
                      /\ \A q \in Poller : Live(q)' /\ ppc'[q] # "done"
                                          => q \in cancelled'
    BY <1>8 DEF EmitDone
  <2>1. \A h \in Handler : hpc'[h] # "handling"
    BY DEF EmitDone
  <2>2. tracked = p
    BY DEF EmitDone
  <2>3. \A q \in Poller \ {p} : Live(q) => q \in cancelled
    BY <2>2
  <2>4. ppc' = [ppc EXCEPT ![p] = "done"] /\ UNCHANGED cancelled
    BY DEF EmitDone, Enter
  <2>5. QED BY <2>1, <2>3, <2>4
<1>9. CASE \E p \in Poller : EndPoller(p)
  BY <1>9 DEF EndPoller, Enter, Untrack
<1>10. CASE \E p \in Poller : EndCancelled(p)
  BY <1>10 DEF EndCancelled, Enter, Untrack
<1>11. CASE Disconnect
  BY <1>11 DEF Disconnect, LoopFree
<1>12. CASE UNCHANGED <<hpc, asked, ppc, cancelled, doneAsked, suspends>>
  BY <1>12
<1>q. QED BY <1>1, <1>2, <1>3, <1>4, <1>5, <1>6, <1>7, <1>8, <1>9, <1>10,
  <1>11, <1>12
  DEF Next, HandlerStep, PollerStep, GatewayStep, vars, Register, Clear,
      FollowUp, NoTurn, Stopped, Connect, Enter, PollGap

(* The counts are numbers.                                                *)
LEMMA CountsAre ==
  TypeOK => /\ asked \in Nat /\ follows \in Nat /\ pending \in Nat /\ lag \in Nat
            /\ \A p \in Poller : polls[p] \in Nat
BY DEF TypeOK

(* Work is counted once: a text or a follow-up adds what is pending, and   *)
(* registering takes it away.                                              *)
LEMMA WorkCountedStep ==
  TypeOK /\ NumberedInOrder /\ WorkCounted /\ [Next]_vars => WorkCounted'
<1> SUFFICES ASSUME TypeOK, NumberedInOrder, WorkCounted, [Next]_vars
             PROVE  WorkCounted'
  OBVIOUS
<1>0. /\ asked \in Nat /\ follows \in Nat /\ pending \in Nat /\ Work \in Nat
      /\ \A p \in Poller : polls[p] + 1 \in Nat
  BY CountsAre DEF Work
<1> USE TurnAssumption
    DEF TurnAssumption, TypeOK, PollerStates, Poller, NumberedInOrder,
    WorkCounted, Work, pollerVars, gatewayVars, doneVars, lifeVars
<1>1. CASE \E h \in Handler : OnText(h)
  <2>1. /\ asked' = asked + 1 /\ pending' = pending + 1
        /\ UNCHANGED <<created, ppc, polls, guard, follows, lag>>
    BY <1>1 DEF OnText
  <2>2. Work' = Work + 1
    BY <1>0, <2>1
  <2>3. pending + 1 <= Work + 1 /\ (pending < Work => pending + 1 < Work + 1)
    BY <1>0
  <2>4. QED BY <2>1, <2>2, <2>3
<1>2. CASE \E h \in Handler : ReplacePoller(h)
  BY <1>2 DEF ReplacePoller
<1>3. ASSUME NEW p \in Poller, NEW s \in PollerStates, NEW n \in Nat,
             Enter(p, s, n), ppc[p] # "none", s = "guard" => guard,
             lag' \in Nat /\ lag' <= Lag,
             UNCHANGED <<asked, created, guard, pending, follows>>
      PROVE  WorkCounted'
  <2>1. p <= created
    BY <1>3
  <2>2. \A q \in Poller : q > created => polls'[q] = 0
    BY <1>3, <2>1 DEF Enter
  <2>3. \A q \in Poller : ppc'[q] = "guard" => pending < Work
    BY <1>3 DEF Enter
  <2>4. QED BY <1>3, <2>2, <2>3
<1>4. ASSUME PollGap PROVE lag' \in Nat /\ lag' <= Lag
  BY <1>4 DEF PollGap, Gap
<1>5. CASE \E p \in Poller : PollStart(p)
  <2> SUFFICES ASSUME NEW p \in Poller, PollStart(p) PROVE WorkCounted'
    BY <1>5
  <2>1. \E s \in {"guard", "start", "grace"}, n \in Nat :
          Enter(p, s, n) /\ (s = "guard" => guard)
    <3>1. polls[p] + 1 \in Nat /\ 0 \in Nat /\ 1 \in Nat
      BY <1>0
    <3>2. QED BY <3>1 DEF PollStart
  <2>2. ppc[p] # "none" /\ UNCHANGED <<asked, created, guard, pending, follows>>
    BY DEF PollStart
  <2>3. lag' \in Nat /\ lag' <= Lag
    BY <1>4 DEF PollStart
  <2>4. QED BY <1>3, <2>1, <2>2, <2>3
<1>6. CASE \E p \in Poller : PollGuard(p)
  <2> SUFFICES ASSUME NEW p \in Poller, PollGuard(p) PROVE WorkCounted'
    BY <1>6
  <2>1. Enter(p, "grace", 1)
    BY DEF PollGuard
  <2>2. ppc[p] # "none" /\ UNCHANGED <<asked, created, guard, pending, follows>>
    BY DEF PollGuard
  <2>3. lag' \in Nat /\ lag' <= Lag
    BY <1>4 DEF PollGuard
  <2>4. QED BY <1>3, <2>1, <2>2, <2>3
<1>7. CASE \E p \in Poller : PollGrace(p)
  <2> SUFFICES ASSUME NEW p \in Poller, PollGrace(p) PROVE WorkCounted'
    BY <1>7
  <2>1. \E s \in {"grace", "sessions"}, n \in Nat : Enter(p, s, n)
    <3>1. polls[p] + 1 \in Nat /\ 0 \in Nat
      BY <1>0
    <3>2. QED BY <3>1 DEF PollGrace
  <2>2. ppc[p] # "none" /\ UNCHANGED <<asked, created, guard, pending, follows>>
    BY DEF PollGrace
  <2>3. lag' \in Nat /\ lag' <= Lag
    BY <1>4 DEF PollGrace
  <2>4. QED BY <1>3, <2>1, <2>2, <2>3
<1>8. CASE \E p \in Poller : ListRaises(p)
  <2> SUFFICES ASSUME NEW p \in Poller, ListRaises(p) PROVE WorkCounted'
    BY <1>8
  <2>1. Enter(p, "ended", 0)
    BY DEF ListRaises
  <2>2. ppc[p] # "none" /\ UNCHANGED <<asked, created, guard, pending, follows>>
    BY DEF ListRaises
  <2>3. lag' \in Nat /\ lag' <= Lag
    BY <1>4 DEF ListRaises
  <2>4. QED BY <1>3, <2>1, <2>2, <2>3
<1>9. CASE \E p \in Poller : EmitDone(p) \/ EndPoller(p) \/ EndCancelled(p)
  <2> SUFFICES ASSUME NEW p \in Poller,
                      EmitDone(p) \/ EndPoller(p) \/ EndCancelled(p)
               PROVE  WorkCounted'
    BY <1>9
  <2>1. Enter(p, "done", 0) \/ Enter(p, "ended", 0)
    BY DEF EmitDone, EndPoller, EndCancelled
  <2>2. /\ ppc[p] # "none"
        /\ UNCHANGED <<asked, created, guard, pending, follows, lag>>
    BY DEF EmitDone, EndPoller, EndCancelled, Live
  <2>3. lag' \in Nat /\ lag' <= Lag
    BY <2>2
  <2>4. QED BY <1>3, <2>1, <2>2, <2>3
<1>10. CASE Register \/ NoTurn
  <2>1. /\ UNCHANGED <<asked, created, ppc, polls, follows>>
        /\ pending' = pending - 1 /\ pending' \in Nat /\ pending > 0
    BY <1>0, <1>10 DEF Register, NoTurn
  <2>2. lag' \in Nat /\ lag' <= Lag
    BY <1>10 DEF Register, NoTurn
  <2>3. Work' = Work /\ pending' < Work
    BY <1>0, <2>1
  <2>4. QED BY <1>0, <2>1, <2>2, <2>3
<1>11. CASE Clear
  BY <1>11 DEF Clear
<1>12. CASE FollowUp
  BY <1>12 DEF FollowUp
<1>14. CASE UNCHANGED <<asked, created, ppc, polls, gatewayVars>>
  BY <1>14
<1>q. QED BY <1>1, <1>2, <1>5, <1>6, <1>7, <1>8, <1>9, <1>10, <1>11, <1>12,
  <1>14
  DEF Next, HandlerStep, PollerStep, GatewayStep, vars, HandleRaises,
      Disconnect, Stopped, Connect

(* The budget is a number, it grows by Lag with the work consumed, and     *)
(* more work takes at least as long.                                       *)
LEMMA BudgetIs ==
  ASSUME NEW c \in Nat, NEW d \in Nat
  PROVE  /\ Lag * c \in Nat /\ Lag * (c + 1) = Lag * c + Lag
         /\ c <= d => Lag * c <= Lag * d
<1> Lag \in Nat
  BY TurnAssumption DEF TurnAssumption
<1>1. Lag * c \in Nat /\ Lag * (c + 1) = Lag * c + Lag
  OBVIOUS
<1>2. ASSUME c <= d PROVE Lag * c <= Lag * d
  <2>1. PICK e \in Nat : d = c + e
    <3>1. d - c \in Nat /\ d = c + (d - c)
      BY <1>2
    <3>2. QED BY <3>1
  <2>2. Lag * d = Lag * c + Lag * e /\ Lag * e \in Nat /\ Lag * c \in Nat
    BY <2>1
  <2>3. QED BY <2>2
<1>3. QED BY <1>1, <1>2

LEMMA BudgetCounts ==
  ASSUME TypeOK, WorkCounted
  PROVE  lag <= Lag /\ Work \in Nat /\ Consumed \in Nat /\ Budget \in Nat
<1>1. lag <= Lag /\ Work \in Nat /\ Consumed \in Nat
  BY CountsAre DEF WorkCounted, Work, Consumed
<1>2. QED BY <1>1, BudgetIs DEF Budget

(* Each poll with work pending uses the budget of the work before it.      *)
LEMMA PollsInBudgetStep ==
  ASSUME TypeOK, TypeOK', WorkCounted, WorkCounted', LivePollerTracked,
         LivePollerTracked', PollsInBudget, [Next]_vars
  PROVE  PollsInBudget'
<1> SUFFICES ASSUME Lag <= StartPolls, Quiet', NEW q \in Poller, Live(q)',
                    q \notin cancelled'
             PROVE  InBudget(q)'
  BY DEF PollsInBudget
<1> USE TurnAssumption DEF TurnAssumption, Poller, gatewayVars, doneVars, lifeVars, pollerVars
<1>0. /\ {Lag, StartPolls, GracePolls} \subseteq Nat
      /\ asked \in Nat /\ follows \in Nat /\ pending \in Nat /\ lag \in Nat
      /\ polls[q] \in Nat
      /\ lag <= Lag /\ Work \in Nat /\ Consumed \in Nat /\ Budget \in Nat
  BY CountsAre, BudgetCounts
(* What the poller's own polls have in common.                             *)
<1>1. ASSUME NEW p \in Poller, PollGap, p \notin cancelled, Live(p),
             UNCHANGED <<hpc, asked, cancelled, guard, pending, follows, fails,
                         suspends>>
      PROVE  /\ p \in Poller /\ Quiet /\ tracked = p /\ InBudget(p)
             /\ UNCHANGED <<Work, Budget, Settled>>
             /\ ~guard => Settled \/ (lag' = lag + 1 /\ lag < Lag)
             /\ lag' \in Nat
  <2>1. Quiet /\ tracked = p
    BY <1>1 DEF Quiet, HandleSuspends, LivePollerTracked
  <2>2. InBudget(p)
    BY <1>1, <2>1 DEF PollsInBudget
  <2>3. UNCHANGED <<Work, Budget, Settled>>
    BY <1>1 DEF Work, Budget, Consumed, Settled
  <2>4. ~guard => Settled \/ (lag' = lag + 1 /\ lag < Lag)
    <3>1. ~guard => Settled \/ Gap
      BY <1>0 DEF Gap, Settled
    <3>2. QED BY <1>1, <3>1 DEF PollGap
  <2>5. lag' \in Nat
    BY <1>0, <1>1 DEF PollGap
  <2>6. QED BY <2>1, <2>2, <2>3, <2>4, <2>5
(* Only the tracked poller runs: it is q.                                  *)
<1>2. ASSUME NEW p \in Poller, p \notin cancelled, Live(p), NEW s, NEW n,
             Enter(p, s, n), UNCHANGED cancelled, ppc \in [Poller -> PollerStates],
             polls \in [Poller -> Nat]
      PROVE  p = q /\ ppc'[q] = s /\ polls'[q] = n
  <2>1. q # p => Live(q) /\ q \notin cancelled
    BY <1>2 DEF Enter, Live
  <2>2. p = q
    BY <1>2, <2>1 DEF LivePollerTracked
  <2>3. QED BY <1>2, <2>2 DEF Enter
<1>3. ppc \in [Poller -> PollerStates] /\ polls \in [Poller -> Nat]
  BY DEF TypeOK
<1>4. CASE \E p \in Poller : PollStart(p)
  <2> PICK p \in Poller : PollStart(p)
    BY <1>4
  <2>1. /\ PollGap /\ p \notin cancelled /\ Live(p) /\ ppc[p] = "start"
        /\ UNCHANGED <<hpc, asked, cancelled, guard, pending, follows, fails,
                       suspends>>
    BY DEF PollStart, Runs, Live
  <2>2. /\ p \in Poller /\ Quiet /\ tracked = p /\ InBudget(p)
        /\ UNCHANGED <<Work, Budget, Settled>>
        /\ ~guard => Settled \/ (lag' = lag + 1 /\ lag < Lag)
        /\ lag' \in Nat
    BY <1>1, <2>1
  <2>3. CASE guard /\ Enter(p, "guard", 0)
    <3>1. ppc'[q] = "guard"
      BY <1>2, <1>3, <2>1, <2>3
    <3>2. QED BY <3>1 DEF InBudget
  <2>4. CASE ~guard /\ polls[p] < StartPolls /\ Enter(p, "start", polls[p] + 1)
    <3>1. p = q /\ ppc'[q] = "start" /\ polls'[q] = polls[q] + 1
      BY <1>2, <1>3, <2>1, <2>4
    <3>2. Settled \/ polls[q] <= Budget + lag
      BY <2>1, <2>2, <3>1 DEF InBudget
    <3>3. Settled' \/ polls'[q] <= Budget' + lag'
      BY <1>0, <2>2, <2>4, <3>1, <3>2
    <3>4. QED BY <3>1, <3>3 DEF InBudget
  <2>5. CASE ~guard /\ polls[p] = StartPolls /\ Enter(p, "grace", 1)
    <3>1. p = q /\ ppc'[q] = "grace" /\ polls'[q] = 1
      BY <1>2, <1>3, <2>1, <2>5
    <3>2. Settled \/ StartPolls <= Budget + lag
      BY <2>1, <2>2, <2>5, <3>1 DEF InBudget
    <3>3. Settled' \/ polls'[q] + Lag <= Budget' + lag'
      BY <1>0, <2>2, <2>5, <3>1, <3>2
    <3>4. QED BY <3>1, <3>3 DEF InBudget
  <2>6. QED BY <2>3, <2>4, <2>5 DEF PollStart
<1>5. CASE \E p \in Poller : PollGuard(p)
  <2> PICK p \in Poller : PollGuard(p)
    BY <1>5
  <2>1. /\ PollGap /\ p \notin cancelled /\ Live(p) /\ ppc[p] = "guard" /\ ~guard
        /\ UNCHANGED <<hpc, asked, cancelled, guard, pending, follows, fails,
                       suspends>>
    BY DEF PollGuard, Runs, Live
  <2>2. /\ UNCHANGED <<Work, Budget, Settled>>
        /\ ~guard => Settled \/ (lag' = lag + 1 /\ lag < Lag)
    BY <1>1, <2>1
  <2>3. p = q /\ ppc'[q] = "grace" /\ polls'[q] = 1
    BY <1>2, <1>3, <2>1 DEF PollGuard
  <2>4. Lag <= Budget
    <3>1. 1 <= Consumed
      BY <1>0, <2>1 DEF WorkCounted, Consumed
    <3>2. Lag * 1 <= Lag * Consumed
      BY <1>0, <3>1, BudgetIs
    <3>3. QED BY <1>0, <3>2 DEF Budget
  <2>5. Settled' \/ polls'[q] + Lag <= Budget' + lag'
    BY <1>0, <2>1, <2>2, <2>3, <2>4
  <2>6. QED BY <2>3, <2>5 DEF InBudget
<1>6. CASE \E p \in Poller : PollGrace(p)
  <2> PICK p \in Poller : PollGrace(p)
    BY <1>6
  <2>1. /\ PollGap /\ p \notin cancelled /\ Live(p) /\ ppc[p] = "grace" /\ ~guard
        /\ UNCHANGED <<hpc, asked, cancelled, guard, pending, follows, fails,
                       suspends>>
    BY DEF PollGrace, Runs, Live
  <2>2. /\ InBudget(p)
        /\ UNCHANGED <<Work, Budget, Settled>>
        /\ ~guard => Settled \/ (lag' = lag + 1 /\ lag < Lag)
    BY <1>1, <2>1
  <2>3. Settled \/ polls[p] + Lag <= Budget + lag
    BY <2>1, <2>2 DEF InBudget
  <2>4. CASE polls[p] < GracePolls /\ Enter(p, "grace", polls[p] + 1)
    <3>1. p = q /\ ppc'[q] = "grace" /\ polls'[q] = polls[q] + 1
      BY <1>2, <1>3, <2>1, <2>4
    <3>2. Settled' \/ polls'[q] + Lag <= Budget' + lag'
      BY <1>0, <2>1, <2>2, <2>3, <3>1
    <3>3. QED BY <3>1, <3>2 DEF InBudget
  <2>5. CASE polls[p] = GracePolls /\ Enter(p, "sessions", 0)
    <3>1. p = q /\ ppc'[q] = "sessions"
      BY <1>2, <1>3, <2>1, <2>5
    <3>2. ASSUME ~Settled, Lag * (Work - 1) <= GracePolls PROVE FALSE
      <4>1. GracePolls < Budget
        BY <1>0, <2>1, <2>2, <2>3, <2>5, <3>2
      <4>2. Consumed <= Work - 1 /\ Work - 1 \in Nat
        BY <1>0, <2>1, <3>2 DEF Settled, Consumed, WorkCounted
      <4>3. Budget <= Lag * (Work - 1) /\ Lag * (Work - 1) \in Nat
        BY <1>0, <4>2, BudgetIs DEF Budget
      <4>4. QED BY <1>0, <3>2, <4>1, <4>3
    <3>3. QED BY <2>2, <3>1, <3>2 DEF InBudget
  <2>6. QED BY <2>4, <2>5 DEF PollGrace
<1>7. CASE \E p \in Poller : EmitDone(p) \/ EndPoller(p)
  <2> PICK p \in Poller : EmitDone(p) \/ EndPoller(p)
    BY <1>7
  <2>1. /\ Enter(p, "done", 0) \/ Enter(p, "ended", 0)
        /\ p \notin cancelled /\ Live(p) /\ UNCHANGED cancelled
    BY DEF EmitDone, EndPoller, Live
  <2>2. ppc'[q] \in {"done", "ended"}
    BY <1>2, <1>3, <2>1
  <2>3. QED BY <2>2 DEF InBudget
<1>8. CASE \E p \in Poller : EndCancelled(p)
  <2> PICK p \in Poller : EndCancelled(p)
    BY <1>8
  <2>1. p # q /\ Enter(p, "ended", 0)
    BY DEF EndCancelled
  <2>2. ppc'[q] = ppc[q] /\ polls'[q] = polls[q]
    BY <1>3, <2>1 DEF Enter
  <2>3. /\ Quiet /\ Live(q) /\ q \notin cancelled
        /\ UNCHANGED <<Work, Budget, Settled, lag>>
    BY <2>2 DEF EndCancelled, Quiet, HandleSuspends, Live, Work, Budget, Consumed,
       Settled
  <2>4. QED BY <2>2, <2>3 DEF PollsInBudget, InBudget
<1>9. CASE \E h \in Handler : ReplacePoller(h)
  <2>1. /\ ppc' = [ppc EXCEPT ![created + 1] = "start"] /\ polls' = polls
        /\ tracked' = created + 1
    BY <1>9 DEF ReplacePoller
  <2>2. q = created + 1
    BY <2>1 DEF LivePollerTracked
  <2>3. ppc'[q] = "start" /\ polls'[q] = 0
    <3>1. q > created
      BY <2>2 DEF TypeOK
    <3>2. QED BY <1>3, <2>1, <2>2, <3>1 DEF WorkCounted
  <2>4. Budget' \in Nat /\ lag' \in Nat
    <3>1. UNCHANGED <<asked, follows, pending, lag>>
      BY <1>9 DEF ReplacePoller, gatewayVars
    <3>2. Budget' = Budget
      BY <3>1 DEF Budget, Consumed, Work
    <3>3. QED BY <1>0, <3>1, <3>2
  <2>5. polls'[q] <= Budget' + lag'
    <3>1. \A b, l \in Nat : 0 <= b + l
      OBVIOUS
    <3>2. QED BY ONLY <2>3, <2>4, <3>1
  <2>6. QED BY <2>3, <2>5, Zenon DEF InBudget
<1>10. CASE \/ \E h \in Handler : OnText(h) \/ HandleRaises(h)
            \/ \E p \in Poller : ListRaises(p)
  <2>1. CASE \E h \in Handler : OnText(h)
    BY <2>1 DEF OnText, Quiet, TypeOK
  <2>2. CASE (\E h \in Handler : HandleRaises(h)) \/ (\E p \in Poller : ListRaises(p))
    BY <2>2 DEF HandleRaises, ListRaises, Quiet, TypeOK
  <2>3. QED BY <1>10, <2>1, <2>2
(* The gateway's steps and the adapter's leave the pollers.                *)
<1>11. ASSUME UNCHANGED <<hpc, ppc, polls, fails, suspends>>,
              cancelled \subseteq cancelled'
       PROVE  InBudget(q) /\ ppc'[q] = ppc[q] /\ polls'[q] = polls[q]
  <2>1. Quiet /\ Live(q) /\ q \notin cancelled
    BY <1>11 DEF Quiet, HandleSuspends, Live
  <2>2. QED BY <1>11, <2>1 DEF PollsInBudget
<1>12. CASE Register \/ NoTurn
  <2>1. /\ InBudget(q) /\ ppc'[q] = ppc[q] /\ polls'[q] = polls[q]
    BY <1>11, <1>12 DEF Register, NoTurn
  <2>2. ~Settled /\ Work' = Work /\ Consumed' = Consumed + 1 /\ lag' \in Nat
    BY <1>0, <1>12 DEF Register, NoTurn, Settled, Work, Consumed
  <2>3. Budget' = Budget + Lag
    BY <1>0, <2>2, BudgetIs DEF Budget
  <2>4. QED BY <1>0, <2>1, <2>2, <2>3 DEF InBudget
<1>13. CASE FollowUp
  <2>1. /\ InBudget(q) /\ ppc'[q] = ppc[q] /\ polls'[q] = polls[q]
    BY <1>11, <1>13 DEF FollowUp
  <2>2. ~Settled /\ Work' = Work + 1 /\ Consumed' = Consumed /\ lag' = lag
    BY <1>0, <1>13 DEF FollowUp, Settled, Work, Consumed
  <2>3. Budget' = Budget
    BY <2>2 DEF Budget
  <2>4. /\ Lag * (Work - 1) <= Lag * (Work' - 1)
        /\ Lag * (Work - 1) \in Nat /\ Lag * (Work' - 1) \in Nat
    <3>1. Work - 1 \in Nat /\ Work' - 1 \in Nat /\ Work - 1 <= Work' - 1
      BY <1>0, <1>13, <2>2 DEF FollowUp, WorkCounted
    <3>2. QED BY <3>1, BudgetIs
  <2>5. QED BY <1>0, <2>1, <2>2, <2>3, <2>4 DEF InBudget
<1>14. CASE Clear \/ Disconnect \/ Stopped \/ Connect \/ UNCHANGED vars
  <2>1. /\ UNCHANGED <<hpc, ppc, polls, fails, suspends, asked, follows, pending, lag>>
        /\ cancelled \subseteq cancelled' /\ (guard' => guard)
    BY <1>14 DEF Clear, Disconnect, Stopped, Connect, vars
  <2>2. /\ InBudget(q) /\ ppc'[q] = ppc[q] /\ polls'[q] = polls[q]
    BY <1>11, <2>1
  <2>3. /\ UNCHANGED <<Work, Budget, lag>> /\ (Settled => Settled')
    BY <2>1 DEF Work, Budget, Consumed, Settled
  <2>4. QED BY <2>2, <2>3 DEF InBudget
<1>q. QED BY <1>4, <1>5, <1>6, <1>7, <1>8, <1>9, <1>10, <1>12, <1>13, <1>14
  DEF Next, HandlerStep, PollerStep, GatewayStep

(* The inductive invariant: the properties and what they rest on.         *)
IInv ==
  /\ TypeOK
  /\ NumberedInOrder
  /\ TrackedIsLast
  /\ LivePollerTracked
  /\ DisconnectSilencesOld
  /\ DoneIsOlder
  /\ WorkCounted
  /\ PollsInBudget

(* The invariant holds when the adapter is made.                           *)
LEMMA Initially == Init => IInv
<1> SUFFICES ASSUME Init PROVE IInv
  OBVIOUS
<1> USE TurnAssumption DEF TurnAssumption, Init
<1>1. /\ asked \in 0..MaxTexts /\ created \in 0..MaxTexts /\ tracked \in 0..created
      /\ doneBy \in 0..created /\ doneAsked \in 0..asked
      /\ follows \in 0..MaxFollows /\ fails \in 0..MaxFails
      /\ downs \in 0..MaxDowns /\ cut \in 0..created
  OBVIOUS
<1>2. TypeOK
  BY <1>1 DEF TypeOK, PollerStates, Poller
<1>3. WorkCounted /\ PollsInBudget
  BY DEF WorkCounted, Work, PollsInBudget, Live
<1>4. QED
  BY <1>2, <1>3 DEF IInv, NumberedInOrder, TrackedIsLast, LivePollerTracked, Live,
     DisconnectSilencesOld, DoneIsOlder, Poller

(* The inductive invariant holds in every reachable state.                 *)
THEOREM Inductive == Spec => []IInv
<1>1. Init => IInv
  BY Initially
<1>2. IInv /\ [Next]_vars => IInv'
  BY TypeOKStep, NumberedInOrderStep, TrackedIsLastStep, LivePollerTrackedStep,
     DisconnectSilencesOldStep, DoneIsOlderStep, WorkCountedStep, PollsInBudgetStep DEF IInv
<1>3. QED BY <1>1, <1>2, PTL DEF Spec

(* The state of the handlers, the pollers and the gateway is well-typed.   *)
THEOREM TypeCorrect == Spec => []TypeOK
<1>1. IInv => TypeOK
  BY DEF IInv
<1>2. QED BY <1>1, Inductive, PTL

(* At most one poller of a device can still send turn.done, and it is the  *)
(* one the next text or disconnect cancels (adapter.py, _poller_tasks).    *)
THEOREM LivePollerTrackedCorrect == Spec => []LivePollerTracked
<1>1. IInv => LivePollerTracked
  BY DEF IInv
<1>2. QED BY <1>1, Inductive, PTL

(* turn.done is sent by EmitDone, of a poller that was not cancelled.      *)
LEMMA DoneIsEmitted ==
  ASSUME TypeOK, [Next]_vars, NEW p \in Poller, ppc[p] = "sessions", ppc'[p] = "done"
  PROVE  EmitDone(p)
<1>1. CASE \E q \in Poller : EmitDone(q)
  BY <1>1 DEF EmitDone, Enter, TypeOK, Poller
<1>2. CASE UNCHANGED ppc
  BY <1>2
<1>3. CASE \E h \in Handler : ReplacePoller(h)
  BY <1>3 DEF ReplacePoller, TypeOK, Poller, PollerStates
<1>4. CASE \E q \in Poller : PollStart(q) \/ PollGuard(q) \/ PollGrace(q)
  BY <1>4 DEF PollStart, PollGuard, PollGrace, Enter, TypeOK, PollerStates
<1>5. CASE \E q \in Poller : ListRaises(q) \/ EndPoller(q) \/ EndCancelled(q)
  BY <1>5 DEF ListRaises, EndPoller, EndCancelled, Enter, TypeOK, PollerStates
<1>6. QED BY <1>1, <1>2, <1>3, <1>4, <1>5
  DEF Next, HandlerStep, PollerStep, GatewayStep, vars, pollerVars, OnText,
      HandleRaises, Register, Clear, FollowUp, NoTurn, Disconnect, Stopped, Connect

(* Only the poller of the last text handed over ever sends turn.done.      *)
THEOREM ReplacedPollerSilentCorrect == Spec => ReplacedPollerSilent
<1>1. ASSUME IInv, [Next]_vars, NEW p \in Poller,
             ppc[p] = "sessions", ppc'[p] = "done"
      PROVE  p = created
  <2>1. p \notin cancelled
    BY <1>1, DoneIsEmitted DEF EmitDone, IInv
  <2>2. tracked = p
    BY <1>1, <2>1 DEF IInv, LivePollerTracked, Live
  <2>3. QED BY <1>1, <2>2 DEF IInv, TrackedIsLast, Poller
<1>2. IInv /\ [Next]_vars =>
        [\A p \in Poller : ppc[p] = "sessions" /\ ppc'[p] = "done"
                            => p = created]_vars
  BY <1>1
<1>3. QED BY <1>2, Inductive, PTL DEF Spec, ReplacedPollerSilent

(* No poller of before a disconnect runs on after it has begun, whatever   *)
(* handlers are in the middle of (adapter.py, disconnect).                 *)
THEOREM DisconnectSilencesOldCorrect == Spec => []DisconnectSilencesOld
<1>1. IInv => DisconnectSilencesOld
  BY DEF IInv
<1>2. QED BY <1>1, Inductive, PTL

(* If handle_message does not suspend, turn.done is never repeated without *)
(* a new text in between.                                                  *)
THEOREM NoDuplicateDoneCorrect == Spec => NoDuplicateDone
<1>1. ASSUME IInv, [Next]_vars, doneBy' # doneBy, ~HandleSuspends
      PROVE  asked > doneAsked
  <2>1. PICK p \in Poller : EmitDone(p)
    BY <1>1 DEF Next, HandlerStep, PollerStep, GatewayStep, vars, doneVars, OnText,
       ReplacePoller, HandleRaises, PollStart, PollGuard, PollGrace, ListRaises,
       EndPoller, EndCancelled, Register, Clear, FollowUp, NoTurn, Disconnect,
       Stopped, Connect
  <2>2. QED BY <1>1, <2>1 DEF EmitDone, IInv, DoneIsOlder, Live
<1>2. IInv /\ [Next]_vars =>
        [doneBy' # doneBy /\ ~HandleSuspends => asked > doneAsked]_vars
  BY <1>1
<1>3. QED BY <1>2, Inductive, PTL DEF Spec, NoDuplicateDone

(* turn.done means that the turn is complete, however many texts, turns    *)
(* and follow-ups there are, as long as no gap between them outlasts the   *)
(* polls that wait for it.                                                 *)
THEOREM DoneWhenCompleteCorrect == Spec => DoneWhenComplete
<1>1. ASSUME IInv, [Next]_vars, NEW p \in Poller, ppc[p] = "sessions",
             ppc'[p] = "done", ~HandleSuspends, ChainInWindow
      PROVE  TurnComplete
  <2>1. EmitDone(p)
    BY <1>1, DoneIsEmitted DEF IInv
  <2>2. Quiet /\ p \notin cancelled /\ Live(p)
    BY <1>1, <2>1 DEF EmitDone, Quiet, ChainInWindow, Live
  <2>3. InBudget(p)
    BY <1>1, <2>2 DEF IInv, PollsInBudget, ChainInWindow
  <2>4. Settled
    <3>1. Lag * (Work - 1) <= GracePolls
      <4>1. Lag * (asked + follows - 1) <= GracePolls
        BY <1>1 DEF ChainInWindow
      <4>2. asked \in Nat /\ follows \in Nat
        BY <1>1, CountsAre DEF IInv
      <4>3. asked + follows - 1 = Work - 1
        BY <4>2 DEF Work
      <4>4. QED BY <4>1, <4>3
    <3>2. QED BY <1>1, <2>3, <3>1 DEF InBudget
  <2>5. QED BY <2>2, <2>4 DEF Settled, Quiet, TurnComplete
<1>2. IInv /\ [Next]_vars =>
        [\A p \in Poller :
           ppc[p] = "sessions" /\ ppc'[p] = "done" /\ ~HandleSuspends
             /\ ChainInWindow => TurnComplete]_vars
  BY <1>1
<1>3. QED BY <1>2, Inductive, PTL DEF Spec, DoneWhenComplete
=============================================================================
