------------------------------- MODULE Sidecar -------------------------------
(***************************************************************************)
(* The resident speech sidecar (asr/fluidaudio.py, FluidAudioBackend).     *)
(* Every transcription runs on an executor thread; a lock admits one at a  *)
(* time to the sidecar process, which is started on demand, killed when a  *)
(* request fails, and started again at most MaxRestarts times in a window. *)
(* The event loop calls close() when the active model changes, and blocks  *)
(* until it has the lock.  The process on the other end of the pipes is    *)
(* sidecar/Sources/g2-asr-sidecar/main.swift, or anything that took its    *)
(* place: it may fail to load, crash, answer late or stop reading.         *)
(***************************************************************************)
EXTENDS Naturals, Sequences

CONSTANTS
  Req,          \* calls of transcribe
  NoReq,
  Long,         \* those whose audio is more than the pipe can hold (64 KiB, 2 s)
  MaxRestarts,  \* _MAX_RESTARTS
  MaxSpawns,    \* bound: processes started
  MaxWindows,   \* bound: restart windows that pass
  MayStall      \* a process may stop reading its input without exiting

ASSUME SidecarAssumption ==
  /\ NoReq \notin Req
  /\ Long \subseteq Req
  /\ MaxRestarts \in Nat \ {0}
  /\ MaxSpawns \in Nat
  /\ MaxWindows \in Nat
  /\ MayStall \in BOOLEAN

VARIABLES
  rpc,       \* rpc[r]: where the thread of request r is
  result,    \* result[r]: "none", "text" or "unavailable" (ASRUnavailable)
  answerOf,  \* answerOf[r]: whose audio the text returned for r came from
  holder,    \* the request that holds _lock
  cpc,       \* close(): "idle", "waiting" for the lock, or "closed"
  proc,      \* _proc: the process the backend knows, 0 for None
  spawned,   \* processes started so far
  alive,     \* alive[p]: "none", "loading", "idle", "stalled", "dead"
  inq,       \* inq[p]: requests written to p's stdin
  outq,      \* outq[p]: frames on p's stdout
  restarts,  \* _restarts
  window,    \* _first_restart_at: "none", "open", "over" (more than 60 s ago)
  burst,     \* history: starts since the last window passed or clean answer
  windows    \* restart windows that passed

lockVars == <<holder, cpc>>
procVars == <<proc, spawned, alive, inq, outq>>
budget   == <<restarts, window, burst, windows>>
reqVars  == <<rpc, result, answerOf>>
vars == <<reqVars, lockVars, procVars, budget>>

Proc == 1..MaxSpawns
RpcStates == {"new", "queued", "lock", "check", "hello", "write", "read", "done"}
Frame == [kind : {"ready", "init failed", "text", "error"}, req : Req \cup {NoReq}]

TypeOK ==
  /\ rpc \in [Req -> RpcStates]
  /\ result \in [Req -> {"none", "text", "unavailable"}]
  /\ answerOf \in [Req -> Req \cup {NoReq}]
  /\ holder \in Req \cup {NoReq}
  /\ cpc \in {"idle", "waiting", "closed"}
  /\ spawned \in 0..MaxSpawns
  /\ proc \in 0..spawned
  /\ alive \in [Proc -> {"none", "loading", "idle", "stalled", "dead"}]
  /\ inq \in [Proc -> Seq(Req)]
  /\ outq \in [Proc -> Seq(Frame)]
  /\ restarts \in 0..MaxRestarts
  /\ window \in {"none", "open", "over"}
  /\ burst \in Nat
  /\ windows \in 0..MaxWindows

Init ==
  /\ rpc = [r \in Req |-> "new"]
  /\ result = [r \in Req |-> "none"]
  /\ answerOf = [r \in Req |-> NoReq]
  /\ holder = NoReq /\ cpc = "idle"
  /\ proc = 0 /\ spawned = 0
  /\ alive = [p \in Proc |-> "none"]
  /\ inq = [p \in Proc |-> <<>>]
  /\ outq = [p \in Proc |-> <<>>]
  /\ restarts = 0 /\ window = "none" /\ burst = 0 /\ windows = 0

Running(p) == p # 0 /\ alive[p] \in {"loading", "idle", "stalled"}
-----------------------------------------------------------------------------
(* Pieces of transcribe.                                                   *)

At(r, s) == rpc[r] = s /\ holder = r
Goto(r, s) == rpc' = [rpc EXCEPT ![r] = s] /\ UNCHANGED <<result, answerOf>>

Forget ==                             \* _proc is dropped, not killed
  /\ proc' = 0
  /\ UNCHANGED <<spawned, alive, inq, outq>>

NoKill == UNCHANGED <<proc, spawned, alive, inq, outq>>

Kill ==
  /\ proc' = 0
  /\ alive' = [p \in Proc |-> IF p = proc THEN "dead" ELSE alive[p]]
  /\ UNCHANGED <<spawned, inq, outq>>

Return(r, how, whose) ==
  /\ rpc' = [rpc EXCEPT ![r] = "done"]
  /\ result' = [result EXCEPT ![r] = how]
  /\ answerOf' = [answerOf EXCEPT ![r] = whose]
  /\ holder' = NoReq
  /\ UNCHANGED cpc

FailKeepsLock(r) ==                   \* raised past an unreleased lock
  /\ Kill
  /\ rpc' = [rpc EXCEPT ![r] = "done"]
  /\ result' = [result EXCEPT ![r] = "unavailable"]
  /\ UNCHANGED <<answerOf, holder, cpc>>

(* ASRUnavailable or any other exception inside the try: kill and raise.   *)
Fail(r) == Kill /\ Return(r, "unavailable", NoReq)

(* The restarts that count: none once the window is over.                  *)
Used == IF window = "open" THEN restarts ELSE 0
-----------------------------------------------------------------------------
(* A request.                                                              *)

(* on_audio hands the call to the executor; a loop stuck in close() cannot *)
(* and after close() the adapter uses another backend.                     *)
Submit(r) ==
  /\ rpc[r] = "new" /\ cpc = "idle"
  /\ Goto(r, "queued")
  /\ UNCHANGED <<lockVars, procVars, budget>>

Begin(r) ==
  /\ rpc[r] = "queued"
  /\ Goto(r, "lock")
  /\ UNCHANGED <<lockVars, procVars, budget>>

Acquire(r) ==
  /\ rpc[r] = "lock" /\ holder = NoReq
  /\ Goto(r, "check")
  /\ holder' = r
  /\ UNCHANGED <<cpc, procVars, budget>>

UseRunning(r) ==
  /\ At(r, "check") /\ Running(proc)
  /\ Goto(r, "write")
  /\ UNCHANGED <<lockVars, procVars, budget>>

RestartLimit(r) ==
  /\ At(r, "check") /\ ~Running(proc) /\ Used >= MaxRestarts
  /\ Fail(r)
  /\ UNCHANGED budget

CountRestart ==
  /\ restarts' = Used + 1
  /\ window' = "open"

SpawnOneMore(r) ==                    \* > for >=
  /\ At(r, "check") /\ ~Running(proc) /\ Used <= MaxRestarts
  /\ spawned < MaxSpawns
  /\ Goto(r, "hello")
  /\ CountRestart
  /\ burst' = burst + 1
  /\ spawned' = spawned + 1
  /\ proc' = spawned + 1
  /\ alive' = [alive EXCEPT ![spawned + 1] = "loading"]
  /\ UNCHANGED <<lockVars, inq, outq, windows>>

Spawn(r) ==
  /\ At(r, "check") /\ ~Running(proc) /\ Used < MaxRestarts
  /\ spawned < MaxSpawns
  /\ Goto(r, "hello")
  /\ CountRestart
  /\ burst' = burst + 1
  /\ spawned' = spawned + 1
  /\ proc' = spawned + 1
  /\ alive' = [alive EXCEPT ![spawned + 1] = "loading"]
  /\ UNCHANGED <<lockVars, inq, outq, windows>>

(* No binary, or the operating system refuses the process.                 *)
SpawnFails(r) ==
  /\ At(r, "check") /\ ~Running(proc) /\ Used < MaxRestarts
  /\ CountRestart
  /\ Fail(r)
  /\ UNCHANGED <<burst, windows>>

Handshake(r) ==
  /\ At(r, "hello") /\ outq[proc] # <<>> /\ Head(outq[proc]).kind = "ready"
  /\ outq' = [outq EXCEPT ![proc] = Tail(@)]
  /\ Goto(r, "write")
  /\ UNCHANGED <<lockVars, proc, spawned, alive, inq, budget>>

(* Not ready, end of file, or no frame in time.                            *)
HandshakeFails(r) ==
  /\ At(r, "hello")
  /\ outq[proc] # <<>> => Head(outq[proc]).kind # "ready"
  /\ Fail(r)
  /\ UNCHANGED budget

(* The pipe takes a frame that fits, and any frame while somebody reads    *)
(* it.  The write has no timeout.                                          *)
Write(r) ==
  /\ At(r, "write")
  /\ alive[proc] = "idle" \/ (alive[proc] = "stalled" /\ r \notin Long)
  /\ inq' = [inq EXCEPT ![proc] = Append(@, r)]
  /\ Goto(r, "read")
  /\ UNCHANGED <<lockVars, proc, spawned, alive, outq, budget>>

BrokenPipe(r) ==
  /\ At(r, "write") /\ alive[proc] = "dead"
  /\ Fail(r)
  /\ UNCHANGED budget

ReadText(r) ==
  /\ At(r, "read") /\ outq[proc] # <<>> /\ Head(outq[proc]).kind = "text"
  /\ outq' = [outq EXCEPT ![proc] = Tail(@)]
  /\ Return(r, "text", Head(outq[proc]).req)
  /\ restarts' = 0 /\ window' = "none" /\ burst' = 0
  /\ UNCHANGED <<proc, spawned, alive, inq, windows>>

(* A per-request error keeps the process and the counters.                 *)
ReadError(r) ==
  /\ At(r, "read") /\ outq[proc] # <<>> /\ Head(outq[proc]).kind = "error"
  /\ outq' = [outq EXCEPT ![proc] = Tail(@)]
  /\ Return(r, "unavailable", NoReq)
  /\ UNCHANGED <<proc, spawned, alive, inq, budget>>

TimeoutKeepsProcess(r) ==             \* the late answer stays in the pipe
  /\ At(r, "read") /\ outq[proc] = <<>>
  /\ NoKill
  /\ Return(r, "unavailable", NoReq)
  /\ UNCHANGED budget

(* End of file, or the watchdog's timeout with the answer still to come.   *)
ReadFails(r) ==
  /\ At(r, "read") /\ outq[proc] = <<>>
  /\ Fail(r)
  /\ UNCHANGED budget
-----------------------------------------------------------------------------
(* close() on the event loop.                                              *)

CloseCall ==
  /\ cpc = "idle"
  /\ cpc' = "waiting"
  /\ UNCHANGED <<reqVars, holder, procVars, budget>>

Close ==
  /\ cpc = "waiting" /\ holder = NoReq
  /\ cpc' = "closed"
  /\ Kill
  /\ UNCHANGED <<reqVars, holder, budget>>
-----------------------------------------------------------------------------
(* The process and the clock.                                              *)

Load(p) ==
  /\ alive[p] = "loading"
  /\ \/ /\ alive' = [alive EXCEPT ![p] = "idle"]
        /\ outq' = [outq EXCEPT ![p] = Append(@, [kind |-> "ready", req |-> NoReq])]
     \/ /\ alive' = [alive EXCEPT ![p] = "dead"]
        /\ outq' = [outq EXCEPT ![p] =
                      Append(@, [kind |-> "init failed", req |-> NoReq])]
  /\ UNCHANGED <<reqVars, lockVars, proc, spawned, inq, budget>>

Answer(p) ==
  /\ alive[p] = "idle" /\ inq[p] # <<>>
  /\ inq' = [inq EXCEPT ![p] = Tail(@)]
  /\ \E kind \in {"text", "error"} :
       outq' = [outq EXCEPT ![p] = Append(@, [kind |-> kind, req |-> Head(inq[p])])]
  /\ UNCHANGED <<reqVars, lockVars, proc, spawned, alive, budget>>

Crash(p) ==
  /\ Running(p)
  /\ alive' = [alive EXCEPT ![p] = "dead"]
  /\ UNCHANGED <<reqVars, lockVars, proc, spawned, inq, outq, budget>>

Stall(p) ==
  /\ MayStall /\ alive[p] = "idle"
  /\ alive' = [alive EXCEPT ![p] = "stalled"]
  /\ UNCHANGED <<reqVars, lockVars, proc, spawned, inq, outq, budget>>

WindowPasses ==
  /\ window = "open" /\ windows < MaxWindows
  /\ window' = "over"
  /\ windows' = windows + 1
  /\ burst' = 0
  /\ UNCHANGED <<reqVars, lockVars, procVars, restarts>>

ThreadStep(r) ==
  \/ Begin(r) \/ UseRunning(r) \/ RestartLimit(r) \/ Spawn(r) \/ SpawnFails(r)
  \/ Handshake(r) \/ HandshakeFails(r) \/ Write(r) \/ BrokenPipe(r)
  \/ ReadText(r) \/ ReadError(r) \/ ReadFails(r)

ProcStep(p) == Load(p) \/ Answer(p) \/ Crash(p) \/ Stall(p)

Next ==
  \/ \E r \in Req : Submit(r) \/ Acquire(r) \/ ThreadStep(r)
  \/ \E p \in Proc : ProcStep(p)
  \/ CloseCall \/ Close \/ WindowPasses

Spec == Init /\ [][Next]_vars

(* Threads run, timeouts expire, and a lock that stays free is taken.      *)
(* Nothing is assumed of the process.                                      *)
Fairness ==
  /\ \A r \in Req : WF_vars(ThreadStep(r)) /\ WF_vars(Acquire(r))
  /\ WF_vars(Close)

FairSpec == Spec /\ Fairness
-----------------------------------------------------------------------------
(* Properties.                                                             *)

(* The text a call returns is of its own audio: an answer that came too    *)
(* late for one request is never read by the next.                         *)
AnswerIsOwn ==
  \A r \in Req : result[r] = "text" => answerOf[r] = r

(* A sidecar that keeps failing is started at most MaxRestarts times until *)
(* a window has passed or it has answered cleanly.                         *)
RestartBudget == burst <= MaxRestarts

(* No process runs that the backend has lost hold of and so cannot kill.   *)
ProcessIsCurrent ==
  \A p \in Proc : Running(p) => p = proc

(* Every call ends, with a text or with ASRUnavailable, on which the voice *)
(* command falls back to whisper, and close() gets the lock, so the event  *)
(* loop is not stuck in it.                                                *)
EveryCallEnds ==
  /\ \A r \in Req : (rpc[r] = "queued") ~> (rpc[r] = "done")
  /\ (cpc = "waiting") ~> (cpc = "closed")
=============================================================================
