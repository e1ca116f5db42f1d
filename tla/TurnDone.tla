------------------------------ MODULE TurnDone ------------------------------
(***************************************************************************)
(* How the bridge decides that a turn is over (adapter.py: on_text,        *)
(* _emit_done_when_idle, disconnect), for one device.  Pollers, handlers   *)
(* and the gateway's guard are keyed by the device's chat_id, so devices   *)
(* do not interact here.                                                   *)
(*                                                                         *)
(* Every text is handed to the gateway and followed by a poller task that  *)
(* watches the gateway's per-turn guard and, when it has stayed clear for  *)
(* a grace period, pushes the session list and turn.done.  Two connections *)
(* of a device can hand texts over at once: a reconnect does not end the   *)
(* handler of the old connection.  The gateway is external: what           *)
(* adapter.py relies on is that handle_message accepts work, that the      *)
(* guard is set while a turn runs, and that it clears between turns.       *)
(***************************************************************************)
EXTENDS Naturals

CONSTANTS
  Handler,         \* connection handlers of the device
  StartPolls,      \* polls that wait for the turn to register (50)
  GracePolls,      \* polls the guard must stay clear (3)
  Suspensions,     \* which calls may suspend: a set of subsets of Suspending
  Lag,             \* bound: polls before accepted work registers its guard
  MaxTexts,        \* bound: texts
  MaxFollows,      \* bound: follow-up turns the gateway chains by itself
  MaxFails,        \* bound: session-store and gateway exceptions
  MaxDowns         \* bound: disconnects

(* handle_message before it returns, and a socket write in its drain.      *)
Suspending == {"handle", "drain"}

ASSUME TurnAssumption ==
  /\ StartPolls \in Nat
  /\ GracePolls \in Nat \ {0}
  /\ Suspensions \subseteq SUBSET Suspending
  /\ {Lag, MaxTexts, MaxFollows, MaxFails, MaxDowns} \subseteq Nat

VARIABLES
  hpc,        \* hpc[h]: "idle", or "handling" inside handle_message
  asked,      \* texts received so far
  created,    \* pollers created so far; they are numbered in this order
  tracked,    \* the poller in _poller_tasks, 0 for none
  ppc,        \* ppc[p]: where poller p is suspended
  polls,      \* polls[p]: sleeps begun in the loop p is in
  cancelled,  \* pollers that were cancelled
  guard,      \* session_key in _active_sessions
  pending,    \* accepted work whose turn has not registered
  lag,        \* polls taken since work became ready to register
  doneBy,     \* history: the last poller that sent turn.done, 0 for none
  doneAsked,  \* history: asked when it did
  follows, fails, downs,   \* counted against their bounds
  phase,      \* of the adapter: "up", "stopping" inside disconnect, or "down"
  cut,        \* history: pollers created when the last disconnect began
  suspends    \* the calls that suspend in this behaviour, never changed

pollerVars  == <<created, tracked, ppc, polls, cancelled>>
gatewayVars == <<guard, pending, lag, follows>>
doneVars    == <<doneBy, doneAsked>>
lifeVars    == <<phase, cut, downs>>
vars == <<hpc, asked, pollerVars, gatewayVars, doneVars, fails, lifeVars, suspends>>

HandleSuspends == "handle" \in suspends
SendSuspends   == "drain" \in suspends

Poller == 1..MaxTexts
PollerStates == {"none", "start", "guard", "grace", "sessions", "done", "ended"}
Live(p) == ppc[p] \notin {"none", "ended"}

TypeOK ==
  /\ hpc \in [Handler -> {"idle", "handling"}]
  /\ asked \in 0..MaxTexts
  /\ created \in 0..MaxTexts
  /\ tracked \in 0..created
  /\ ppc \in [Poller -> PollerStates]
  /\ polls \in [Poller -> Nat]
  /\ cancelled \subseteq Poller
  /\ guard \in BOOLEAN
  /\ pending \in Nat
  /\ lag \in Nat
  /\ doneBy \in 0..created
  /\ doneAsked \in 0..asked
  /\ follows \in 0..MaxFollows
  /\ fails \in 0..MaxFails
  /\ downs \in 0..MaxDowns
  /\ phase \in {"up", "stopping", "down"}
  /\ cut \in 0..created
  /\ suspends \in Suspensions

Init ==
  /\ hpc = [h \in Handler |-> "idle"]
  /\ asked = 0 /\ created = 0 /\ tracked = 0
  /\ ppc = [p \in Poller |-> "none"]
  /\ polls = [p \in Poller |-> 0]
  /\ cancelled = {}
  /\ guard = FALSE /\ pending = 0 /\ lag = 0
  /\ doneBy = 0 /\ doneAsked = 0
  /\ follows = 0 /\ fails = 0 /\ downs = 0
  /\ phase = "up" /\ cut = 0
  /\ suspends \in Suspensions

(* Another task may run: nobody holds the event loop in a call that does   *)
(* not suspend.                                                            *)
LoopFree ==
  /\ HandleSuspends \/ \A h \in Handler : hpc[h] = "idle"
  /\ SendSuspends \/ \A p \in Poller : ppc[p] \notin {"sessions", "done"}
-----------------------------------------------------------------------------
(* The handler of a connection.                                            *)

(* on_text up to the suspension inside handle_message: the gateway has     *)
(* accepted the text.  The handlers go on with the frames they have while  *)
(* disconnect waits for the server to stop.                                *)
OnText(h) ==
  /\ LoopFree /\ phase # "down"
  /\ hpc[h] = "idle" /\ asked < MaxTexts
  /\ hpc' = [hpc EXCEPT ![h] = "handling"]
  /\ asked' = asked + 1
  /\ pending' = pending + 1
  /\ UNCHANGED <<pollerVars, guard, lag, follows, doneVars, fails, lifeVars,
                 suspends>>

KeepOldPoller(h) ==                   \* the old task is popped, not cancelled
  /\ hpc[h] = "handling" /\ created < MaxTexts
  /\ hpc' = [hpc EXCEPT ![h] = "idle"]
  /\ created' = created + 1
  /\ tracked' = created + 1
  /\ ppc' = [ppc EXCEPT ![created + 1] = "start"]
  /\ UNCHANGED <<asked, polls, cancelled, gatewayVars, doneVars, fails,
                 lifeVars, suspends>>

(* handle_message returned: the old poller is popped and cancelled and a   *)
(* new one created, with no suspension in between.  One poller per text,   *)
(* so the bound on texts bounds them too.                                  *)
ReplacePoller(h) ==
  /\ hpc[h] = "handling" /\ created < MaxTexts
  /\ hpc' = [hpc EXCEPT ![h] = "idle"]
  /\ created' = created + 1
  /\ tracked' = created + 1
  /\ ppc' = [ppc EXCEPT ![created + 1] = "start"]
  /\ cancelled' = IF tracked = 0 THEN cancelled ELSE cancelled \cup {tracked}
  /\ UNCHANGED <<asked, polls, gatewayVars, doneVars, fails, lifeVars,
                 suspends>>

(* handle_message raised: the server answers with an error frame, and the  *)
(* old poller is left alone.                                               *)
HandleRaises(h) ==
  /\ hpc[h] = "handling" /\ fails < MaxFails
  /\ hpc' = [hpc EXCEPT ![h] = "idle"]
  /\ fails' = fails + 1
  /\ UNCHANGED <<asked, pollerVars, gatewayVars, doneVars, lifeVars,
                 suspends>>
-----------------------------------------------------------------------------
(* The poller task.  A cancelled poller raises at its next resumption.     *)

Runs(p) == LoopFree /\ p \notin cancelled

(* The timing assumption on the gateway: work that is ready to register    *)
(* its guard does so before the pollers have taken Lag polls.              *)
Gap     == ~guard /\ pending > 0
PollGap == (Gap => lag < Lag) /\ lag' = IF Gap THEN lag + 1 ELSE lag

Enter(p, s, n) ==
  /\ ppc' = [ppc EXCEPT ![p] = s]
  /\ polls' = [polls EXCEPT ![p] = n]

StartForever(p) ==                    \* no limit on the wait for the turn
  /\ Runs(p) /\ ppc[p] = "start"
  /\ PollGap
  /\ \/ guard /\ Enter(p, "guard", 0)
     \/ ~guard /\ Enter(p, "start", 0)
  /\ UNCHANGED <<hpc, asked, created, tracked, cancelled, guard, pending,
                 follows, doneVars, fails, lifeVars, suspends>>

CountDown(p) ==                       \* the sleeps counted down from zero
  /\ Runs(p) /\ ppc[p] = "start"
  /\ PollGap
  /\ \/ guard /\ Enter(p, "guard", 0)
     \/ ~guard /\ Enter(p, "start", polls[p] - 1)
  /\ UNCHANGED <<hpc, asked, created, tracked, cancelled, guard, pending,
                 follows, doneVars, fails, lifeVars, suspends>>

(* Wait for the turn to register, up to StartPolls sleeps.                 *)
PollStart(p) ==
  /\ Runs(p) /\ ppc[p] = "start"
  /\ PollGap
  /\ \/ guard /\ Enter(p, "guard", 0)
     \/ ~guard /\ polls[p] < StartPolls /\ Enter(p, "start", polls[p] + 1)
     \/ ~guard /\ polls[p] = StartPolls /\ Enter(p, "grace", 1)
  /\ UNCHANGED <<hpc, asked, created, tracked, cancelled, guard, pending,
                 follows, doneVars, fails, lifeVars, suspends>>

(* Wait for the guard to clear.                                            *)
PollGuard(p) ==
  /\ Runs(p) /\ ppc[p] = "guard" /\ ~guard
  /\ PollGap
  /\ Enter(p, "grace", 1)
  /\ UNCHANGED <<hpc, asked, created, tracked, cancelled, guard, pending,
                 follows, doneVars, fails, lifeVars, suspends>>

GraceIgnoresGuard(p) ==               \* the grace loop only sleeps
  /\ Runs(p) /\ ppc[p] = "grace"
  /\ PollGap
  /\ \/ polls[p] < GracePolls /\ Enter(p, "grace", polls[p] + 1)
     \/ polls[p] = GracePolls /\ Enter(p, "sessions", 0)
  /\ UNCHANGED <<hpc, asked, created, tracked, cancelled, guard, pending,
                 follows, doneVars, fails, lifeVars, suspends>>

(* One of GracePolls grace sleeps is over.  If a chained turn holds the    *)
(* guard the inner loop waits for it to clear, then the grace loop goes on *)
(* with the sleeps that are left.  After the last one the session list is  *)
(* written.                                                                *)
PollGrace(p) ==
  /\ Runs(p) /\ ppc[p] = "grace" /\ ~guard
  /\ PollGap
  /\ \/ polls[p] < GracePolls /\ Enter(p, "grace", polls[p] + 1)
     \/ polls[p] = GracePolls /\ Enter(p, "sessions", 0)
  /\ UNCHANGED <<hpc, asked, created, tracked, cancelled, guard, pending,
                 follows, doneVars, fails, lifeVars, suspends>>

(* The finally block: only the task in the map removes itself.             *)
Untrack(p) == tracked' = IF tracked = p THEN 0 ELSE tracked

(* Building the session list raises: the task ends without a turn.done.    *)
ListRaises(p) ==
  /\ Runs(p) /\ ppc[p] = "grace" /\ ~guard /\ polls[p] = GracePolls
  /\ PollGap
  /\ fails < MaxFails /\ fails' = fails + 1
  /\ Enter(p, "ended", 0)
  /\ Untrack(p)
  /\ UNCHANGED <<hpc, asked, created, cancelled, guard, pending, follows,
                 doneVars, lifeVars, suspends>>

(* The session list is out of the drain: turn.done is written.             *)
EmitDone(p) ==
  /\ p \notin cancelled /\ ppc[p] = "sessions"
  /\ HandleSuspends \/ \A h \in Handler : hpc[h] = "idle"
  /\ Enter(p, "done", 0)
  /\ doneBy' = p
  /\ doneAsked' = asked
  /\ UNCHANGED <<hpc, asked, created, tracked, cancelled, gatewayVars, fails,
                 lifeVars, suspends>>

EndPoller(p) ==
  /\ p \notin cancelled /\ ppc[p] = "done"
  /\ HandleSuspends \/ \A h \in Handler : hpc[h] = "idle"
  /\ Enter(p, "ended", 0)
  /\ Untrack(p)
  /\ UNCHANGED <<hpc, asked, created, cancelled, gatewayVars, doneVars, fails,
                 lifeVars, suspends>>

EndCancelled(p) ==
  /\ LoopFree /\ p \in cancelled /\ Live(p)
  /\ Enter(p, "ended", 0)
  /\ Untrack(p)
  /\ UNCHANGED <<hpc, asked, created, cancelled, gatewayVars, doneVars, fails,
                 lifeVars, suspends>>
-----------------------------------------------------------------------------
(* The gateway: the guard of one turn, queued and chained follow-ups, and  *)
(* work that runs no turn of its own (a command, a merged text, a /stop).  *)

Register ==
  /\ LoopFree /\ ~guard /\ pending > 0
  /\ guard' = TRUE
  /\ pending' = pending - 1
  /\ lag' = 0
  /\ UNCHANGED <<hpc, asked, pollerVars, follows, doneVars, fails, lifeVars,
                 suspends>>

Clear ==
  /\ LoopFree /\ guard
  /\ guard' = FALSE
  /\ UNCHANGED <<hpc, asked, pollerVars, pending, lag, follows, doneVars,
                 fails, lifeVars, suspends>>

FollowUp ==
  /\ LoopFree /\ guard /\ follows < MaxFollows
  /\ follows' = follows + 1
  /\ pending' = pending + 1
  /\ UNCHANGED <<hpc, asked, pollerVars, guard, lag, doneVars, fails,
                 lifeVars, suspends>>

NoTurn ==
  /\ LoopFree /\ pending > 0
  /\ pending' = pending - 1
  /\ lag' = IF pending = 1 THEN 0 ELSE lag
  /\ UNCHANGED <<hpc, asked, pollerVars, guard, follows, doneVars, fails,
                 lifeVars, suspends>>

ForgetPollers ==                      \* the map is cleared, nobody cancelled
  /\ LoopFree /\ phase = "up" /\ downs < MaxDowns
  /\ phase' = "stopping"
  /\ cut' = created
  /\ downs' = downs + 1
  /\ tracked' = 0
  /\ UNCHANGED <<hpc, asked, created, ppc, polls, cancelled, gatewayVars,
                 doneVars, fails, suspends>>

(* disconnect cancels and forgets the pollers first ...                    *)
Disconnect ==
  /\ LoopFree /\ phase = "up" /\ downs < MaxDowns
  /\ phase' = "stopping"
  /\ cut' = created
  /\ downs' = downs + 1
  /\ cancelled' = IF tracked = 0 THEN cancelled ELSE cancelled \cup {tracked}
  /\ tracked' = 0
  /\ UNCHANGED <<hpc, asked, created, ppc, polls, gatewayVars, doneVars, fails,
                 suspends>>

(* ... and then waits for the server, which waits for every handler.  A    *)
(* text handled meanwhile leaves a poller that nobody cancels.             *)
Stopped ==
  /\ LoopFree /\ phase = "stopping"
  /\ \A h \in Handler : hpc[h] = "idle"
  /\ phase' = "down"
  /\ UNCHANGED <<hpc, asked, pollerVars, gatewayVars, doneVars, fails, cut,
                 downs, suspends>>

Connect ==
  /\ LoopFree /\ phase = "down"
  /\ phase' = "up"
  /\ UNCHANGED <<hpc, asked, pollerVars, gatewayVars, doneVars, fails, cut,
                 downs, suspends>>

HandlerStep(h) == OnText(h) \/ ReplacePoller(h) \/ HandleRaises(h)
PollerStep(p) ==
  \/ PollStart(p) \/ PollGuard(p) \/ PollGrace(p) \/ ListRaises(p)
  \/ EmitDone(p) \/ EndPoller(p) \/ EndCancelled(p)
GatewayStep == Register \/ Clear \/ FollowUp \/ NoTurn

Next ==
  \/ \E h \in Handler : HandlerStep(h)
  \/ \E p \in Poller : PollerStep(p)
  \/ GatewayStep
  \/ Disconnect \/ Stopped \/ Connect

Spec == Init /\ [][Next]_vars

(* The loop runs every task that is ready, handle_message returns or       *)
(* raises, and the gateway runs what it accepted and ends every turn.      *)
Fairness ==
  /\ \A h \in Handler : WF_vars(ReplacePoller(h) \/ HandleRaises(h))
  /\ \A p \in Poller : WF_vars(PollerStep(p))
  /\ WF_vars(Register)
  /\ WF_vars(Clear)

FairSpec == Spec /\ Fairness
-----------------------------------------------------------------------------
(* Properties.                                                             *)

(* However texts, disconnects and failures interleave, a poller that can   *)
(* still send turn.done is the one in _poller_tasks: so there is one, and  *)
(* the next text or disconnect cancels it.                                 *)
LivePollerTracked ==
  \A p \in Poller : Live(p) /\ p \notin cancelled => tracked = p

(* A poller that was replaced says nothing more.                           *)
ReplacedPollerSilent ==
  [][\A p \in Poller : ppc[p] = "sessions" /\ ppc'[p] = "done" => p = created]_vars

(* The turn is complete: no turn runs, none is about to, and no text is    *)
(* being handed to the gateway.                                            *)
TurnComplete == ~guard /\ pending = 0 /\ \A h \in Handler : hpc[h] = "idle"

(* turn.done means the turn is complete.                                   *)
NoPrematureDone ==
  [][\A p \in Poller : ppc[p] = "sessions" /\ ppc'[p] = "done" => TurnComplete]_vars

(* It does mean that when handle_message only schedules the turn and does  *)
(* not raise, when a turn registers while the first loop still waits for   *)
(* one, and when the work handed over so far, each registered within Lag   *)
(* polls of the one before, leaves no gap longer than the grace window.    *)
ChainInWindow ==
  /\ fails = 0
  /\ Lag <= StartPolls
  /\ Lag * (asked + follows - 1) <= GracePolls

DoneWhenComplete ==
  [][\A p \in Poller :
       ppc[p] = "sessions" /\ ppc'[p] = "done" /\ ~HandleSuspends /\ ChainInWindow
         => TurnComplete]_vars

(* One turn.done per settled burst of texts: when handle_message does not  *)
(* suspend, the bridge never says it twice without a new text in between.  *)
NoDuplicateDone ==
  [][doneBy' # doneBy /\ ~HandleSuspends => asked > doneAsked]_vars

(* A disconnect silences every poller there is when it begins, whatever    *)
(* handlers are in the middle of a text: after a reconnect the device gets *)
(* no turn.done of before.  A text handled while the server stops is a     *)
(* later one, and its poller does outlive the disconnect.                  *)
DisconnectSilencesOld ==
  \A p \in Poller : Live(p) /\ p <= cut => p \in cancelled

(* Every text handed over is followed by a turn.done, its own poller's or  *)
(* a later one's, unless a disconnect begins after it or the session list  *)
(* cannot be built.                                                        *)
TextAnswered ==
  \A p \in Poller :
    (created >= p) ~> (doneBy >= p \/ cut >= p \/ fails > 0)
=============================================================================
