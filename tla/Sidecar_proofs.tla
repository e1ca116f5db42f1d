---------------------------- MODULE Sidecar_proofs ----------------------------
(***************************************************************************)
(* Proofs about the speech sidecar: about Sidecar for any number of calls, *)
(* starts and windows, and about SidecarInstall, which puts the binary in  *)
(* its place, for any number of calls, blocks and files.                   *)
(***************************************************************************)
EXTENDS Sidecar, SidecarInstall, TLAPS

Inside == {"check", "hello", "write", "read"}

(* The lock is held by the call that is between acquire and return.        *)
HolderInside == \A r \in Req : rpc[r] \in Inside <=> holder = r

(* A process that was not started is nothing yet.                          *)
UnusedProcess ==
  \A p \in Proc : p > spawned =>
    alive[p] = "none" /\ inq[p] = <<>> /\ outq[p] = <<>>

(* A process is only loading while a call waits for its first frame.       *)
LoadingIsAwaited ==
  \A p \in Proc : alive[p] = "loading" =>
    /\ p = proc /\ outq[p] = <<>>
    /\ \E r \in Req : rpc[r] = "hello"

(* What is in the pipes is what the holder of the lock waits for.          *)
Quiet == inq[proc] = <<>> /\ outq[proc] = <<>>

AwaitsReady ==
  /\ inq[proc] = <<>>
  /\ \E f \in Frame : outq[proc] = <<f>> /\ f.kind \in {"ready", "init failed"}

AwaitsAnswer(r) ==
  \/ inq[proc] = <<r>> /\ outq[proc] = <<>>
  \/ /\ inq[proc] = <<>>
     /\ \E f \in Frame :
          outq[proc] = <<f>> /\ f.kind \in {"text", "error"} /\ f.req = r

PipesAwaited ==
  /\ proc # 0 /\ (\A r \in Req : rpc[r] \notin {"hello", "read"}) => Quiet
  /\ \A r \in Req : rpc[r] \in {"hello", "write", "read"} => proc # 0
  /\ \A r \in Req : rpc[r] = "hello" => Quiet \/ AwaitsReady
  /\ \A r \in Req : rpc[r] = "read" => AwaitsAnswer(r)

(* Every start counts as a restart of the open window.                     *)
StartsCounted == burst <= Used

(* The inductive invariant.                                                *)
IInv ==
  /\ TypeOK /\ HolderInside /\ UnusedProcess /\ LoadingIsAwaited
  /\ PipesAwaited /\ StartsCounted /\ ProcessIsCurrent /\ AnswerIsOwn

LEMMA OneElement ==
  ASSUME NEW x
  PROVE  /\ Append(<<>>, x) = <<x>> /\ <<x>> # <<>>
         /\ Head(<<x>>) = x /\ Tail(<<x>>) = <<>>
OBVIOUS

LEMMA FrameType ==
  ASSUME NEW r \in Req \cup {NoReq},
         NEW k \in {"ready", "init failed", "text", "error"}
  PROVE  [kind |-> k, req |-> r] \in Frame
BY DEF Frame

LEMMA FrameRead ==
  ASSUME NEW s \in Seq(Frame), s # <<>>
  PROVE  Tail(s) \in Seq(Frame) /\ Head(s).req \in Req \cup {NoReq}
<1>1. Tail(s) \in Seq(Frame) /\ Head(s) \in Frame
  OBVIOUS
<1>2. QED BY <1>1 DEF Frame

LEMMA Initially == Init => IInv
<1> SUFFICES ASSUME Init PROVE IInv
  OBVIOUS
<1> USE SidecarAssumption DEF SidecarAssumption, Init
<1>1. TypeOK
  <2>1. inq \in [Proc -> Seq(Req)] /\ outq \in [Proc -> Seq(Frame)]
    OBVIOUS
  <2>2. QED BY <2>1 DEF TypeOK, RpcStates
<1>2. HolderInside /\ UnusedProcess /\ LoadingIsAwaited /\ PipesAwaited
  BY DEF HolderInside, UnusedProcess, LoadingIsAwaited, PipesAwaited, Inside,
     Proc
<1>3. StartsCounted /\ ProcessIsCurrent /\ AnswerIsOwn
  BY DEF StartsCounted, Used, ProcessIsCurrent, Running, AnswerIsOwn
<1>4. QED BY <1>1, <1>2, <1>3 DEF IInv

(* Every step keeps the types.                                             *)
LEMMA TypeOKStep == TypeOK /\ HolderInside /\ PipesAwaited /\ [Next]_vars => TypeOK'
<1> SUFFICES ASSUME TypeOK, HolderInside, PipesAwaited, [Next]_vars PROVE TypeOK'
  OBVIOUS
<1> USE SidecarAssumption DEF SidecarAssumption, TypeOK, RpcStates, Proc
<1>1. CASE UNCHANGED vars
  BY <1>1 DEF vars, reqVars, lockVars, procVars, budget
<1>2. ASSUME NEW r \in Req,
             Submit(r) \/ Acquire(r) \/ Begin(r) \/ UseRunning(r)
      PROVE  TypeOK'
  BY <1>2 DEF Submit, Acquire, Begin, UseRunning, Goto, lockVars, procVars, budget
<1>3. ASSUME NEW r \in Req,
             \/ RestartLimit(r) \/ SpawnFails(r) \/ HandshakeFails(r)
             \/ BrokenPipe(r) \/ ReadFails(r)
      PROVE  TypeOK'
  <2>1. restarts' \in 0..MaxRestarts /\ window' \in {"none", "open", "over"}
        /\ UNCHANGED <<burst, windows>>
    BY <1>3 DEF RestartLimit, SpawnFails, HandshakeFails, BrokenPipe, ReadFails,
       CountRestart, Used, budget
  <2>2. Fail(r)
    BY <1>3 DEF RestartLimit, SpawnFails, HandshakeFails, BrokenPipe, ReadFails
  <2>3. QED BY <2>1, <2>2 DEF Fail, Kill, Return
<1>4. ASSUME NEW r \in Req, Spawn(r) PROVE TypeOK'
  BY <1>4 DEF Spawn, CountRestart, Used, Goto, lockVars
<1>5. ASSUME NEW r \in Req, Handshake(r) \/ ReadText(r) \/ ReadError(r)
      PROVE  TypeOK'
  <2>1. proc \in Proc /\ outq[proc] \in Seq(Frame) /\ outq[proc] # <<>>
    <3>1. rpc[r] \in {"hello", "read"} /\ outq[proc] # <<>>
      BY <1>5 DEF Handshake, ReadText, ReadError, At
    <3>2. proc # 0
      BY <3>1 DEF PipesAwaited
    <3>3. QED BY <3>1, <3>2
  <2>2. /\ Tail(outq[proc]) \in Seq(Frame)
        /\ Head(outq[proc]).req \in Req \cup {NoReq}
    BY <2>1, FrameRead
  <2>3. CASE Handshake(r)
    BY <2>3, <2>2 DEF Handshake, Goto, lockVars, budget
  <2>4. CASE ReadText(r)
    <3>1. answerOf' \in [Req -> Req \cup {NoReq}]
      BY <2>4, <2>2 DEF ReadText, Return
    <3>2. rpc' \in [Req -> RpcStates] /\ result' \in [Req -> {"none", "text", "unavailable"}]
          /\ holder' = NoReq /\ UNCHANGED cpc
      BY <2>4 DEF ReadText, Return
    <3>3. outq' \in [Proc -> Seq(Frame)]
      BY <2>4, <2>2 DEF ReadText
    <3>4. /\ restarts' = 0 /\ window' = "none" /\ burst' = 0
          /\ UNCHANGED <<proc, spawned, alive, inq, windows>>
      BY <2>4 DEF ReadText
    <3>5. QED BY <3>1, <3>2, <3>3, <3>4
  <2>5. CASE ReadError(r)
    BY <2>5, <2>2 DEF ReadError, Return, budget
  <2>6. QED BY <1>5, <2>3, <2>4, <2>5
<1>6. ASSUME NEW r \in Req, Write(r) PROVE TypeOK'
  <2>1. \A p \in Proc : Append(inq[p], r) \in Seq(Req)
    OBVIOUS
  <2>2. inq' \in [Proc -> Seq(Req)]
    BY <1>6, <2>1 DEF Write
  <2>3. QED BY <1>6, <2>2 DEF Write, Goto, lockVars, budget
<1>7. ASSUME NEW p \in Proc, Load(p) PROVE TypeOK'
  <2>1. \A kind \in {"ready", "init failed"} :
          Append(outq[p], [kind |-> kind, req |-> NoReq]) \in Seq(Frame)
    <3>1. \A kind \in {"ready", "init failed"} :
            [kind |-> kind, req |-> NoReq] \in Frame
      BY FrameType
    <3>2. \A f \in Frame : Append(outq[p], f) \in Seq(Frame)
      OBVIOUS
    <3>3. QED BY <3>1, <3>2
  <2>2. alive' \in [Proc -> {"none", "loading", "idle", "stalled", "dead"}]
    BY <1>7 DEF Load
  <2>3. outq' \in [Proc -> Seq(Frame)]
    BY <1>7, <2>1 DEF Load
  <2>4. QED BY <1>7, <2>2, <2>3 DEF Load, reqVars, lockVars, budget
<1>8. ASSUME NEW p \in Proc, Answer(p) PROVE TypeOK'
  <2>1. inq[p] \in Seq(Req) /\ inq[p] # <<>>
    BY <1>8 DEF Answer
  <2>2. Tail(inq[p]) \in Seq(Req) /\ Head(inq[p]) \in Req
    BY <2>1
  <2>3. \A kind \in {"text", "error"} :
          Append(outq[p], [kind |-> kind, req |-> Head(inq[p])]) \in Seq(Frame)
    <3>1. \A kind \in {"text", "error"} :
            [kind |-> kind, req |-> Head(inq[p])] \in Frame
      BY <2>2, FrameType
    <3>2. \A f \in Frame : Append(outq[p], f) \in Seq(Frame)
      OBVIOUS
    <3>3. QED BY <3>1, <3>2
  <2>4. QED BY <1>8, <2>2, <2>3 DEF Answer, reqVars, lockVars, budget
<1>9. ASSUME NEW p \in Proc, Crash(p) \/ Stall(p) PROVE TypeOK'
  BY <1>9 DEF Crash, Stall, reqVars, lockVars, budget
<1>10. CASE CloseCall \/ Close \/ WindowPasses
  BY <1>10 DEF CloseCall, Close, WindowPasses, Kill, reqVars, lockVars, procVars,
     budget
<1>q. QED BY <1>1, <1>2, <1>3, <1>4, <1>5, <1>6, <1>7, <1>8, <1>9, <1>10
      DEF Next, ThreadStep, ProcStep

(* Only one call is between acquire and return.                            *)
LEMMA HolderInsideStep == TypeOK /\ HolderInside /\ [Next]_vars => HolderInside'
<1> SUFFICES ASSUME TypeOK, HolderInside, [Next]_vars PROVE HolderInside'
  OBVIOUS
<1> USE SidecarAssumption DEF SidecarAssumption, TypeOK, HolderInside, Inside
<1>1. ASSUME UNCHANGED <<rpc, holder>> PROVE HolderInside'
  BY <1>1
<1>2. ASSUME NEW r \in Req, Submit(r) \/ Begin(r) PROVE HolderInside'
  BY <1>2 DEF Submit, Begin, Goto, lockVars
<1>3. ASSUME NEW r \in Req, Acquire(r) PROVE HolderInside'
  BY <1>3 DEF Acquire, Goto
<1>4. ASSUME NEW r \in Req,
             UseRunning(r) \/ Spawn(r) \/ Handshake(r) \/ Write(r)
      PROVE  HolderInside'
  BY <1>4 DEF UseRunning, Spawn, Handshake, Write, Goto, At, lockVars
<1>5. ASSUME NEW r \in Req, holder = r,
             Fail(r) \/ \E how, whose : Return(r, how, whose)
      PROVE  HolderInside'
  BY <1>5 DEF Fail, Return
<1>6. ASSUME NEW r \in Req,
             \/ RestartLimit(r) \/ SpawnFails(r) \/ HandshakeFails(r)
             \/ BrokenPipe(r) \/ ReadFails(r) \/ ReadText(r) \/ ReadError(r)
      PROVE  HolderInside'
  BY <1>5, <1>6 DEF RestartLimit, SpawnFails, HandshakeFails, BrokenPipe,
     ReadFails, ReadText, ReadError, At
<1>7. ASSUME \/ UNCHANGED vars \/ CloseCall \/ Close \/ WindowPasses
             \/ \E p \in Proc : ProcStep(p)
      PROVE  HolderInside'
  BY <1>1, <1>7 DEF vars, CloseCall, Close, WindowPasses, ProcStep, Load, Answer,
     Crash, Stall, reqVars, lockVars
<1>q. QED BY <1>2, <1>3, <1>4, <1>6, <1>7 DEF Next, ThreadStep

(* A request is answered with the frame the process wrote for it.          *)
LEMMA AnswerIsOwnStep ==
  TypeOK /\ PipesAwaited /\ AnswerIsOwn /\ [Next]_vars => AnswerIsOwn'
<1> SUFFICES ASSUME TypeOK, PipesAwaited, AnswerIsOwn, [Next]_vars
             PROVE  AnswerIsOwn'
  OBVIOUS
<1> USE DEF AnswerIsOwn, TypeOK
<1>1. ASSUME UNCHANGED <<result, answerOf>> PROVE AnswerIsOwn'
  BY <1>1
<1>2. ASSUME NEW r \in Req, NEW whose, Return(r, "unavailable", whose)
      PROVE  AnswerIsOwn'
  BY <1>2 DEF Return
<1>3. ASSUME NEW r \in Req, ReadText(r) PROVE AnswerIsOwn'
  <2>1. Head(outq[proc]).req = r
    <3>1. rpc[r] = "read" /\ outq[proc] # <<>>
      BY <1>3 DEF ReadText, At
    <3>2. PICK f \in Frame : outq[proc] = <<f>> /\ f.req = r
      BY <3>1 DEF PipesAwaited, AwaitsAnswer
    <3>3. QED BY <3>2, OneElement
  <2>2. QED BY <1>3, <2>1 DEF ReadText, Return
<1>4. ASSUME NEW r \in Req,
             \/ RestartLimit(r) \/ SpawnFails(r) \/ HandshakeFails(r)
             \/ BrokenPipe(r) \/ ReadFails(r) \/ ReadError(r)
      PROVE  AnswerIsOwn'
  BY <1>2, <1>4 DEF RestartLimit, SpawnFails, HandshakeFails, BrokenPipe,
     ReadFails, ReadError, Fail
<1>5. ASSUME NEW r \in Req,
             \/ Submit(r) \/ Acquire(r) \/ Begin(r) \/ UseRunning(r)
             \/ Spawn(r) \/ Handshake(r) \/ Write(r)
      PROVE  AnswerIsOwn'
  BY <1>1, <1>5 DEF Submit, Acquire, Begin, UseRunning, Spawn, Handshake, Write,
     Goto
<1>6. ASSUME \/ UNCHANGED vars \/ CloseCall \/ Close \/ WindowPasses
             \/ \E p \in Proc : ProcStep(p)
      PROVE  AnswerIsOwn'
  BY <1>1, <1>6 DEF vars, CloseCall, Close, WindowPasses, ProcStep, Load, Answer,
     Crash, Stall, reqVars
<1>q. QED BY <1>3, <1>4, <1>5, <1>6 DEF Next, ThreadStep

(* Every start uses up a restart, and what resets the one resets the other.*)
LEMMA StartsCountedStep ==
  TypeOK /\ StartsCounted /\ [Next]_vars => StartsCounted'
<1> SUFFICES ASSUME TypeOK, StartsCounted, [Next]_vars PROVE StartsCounted'
  OBVIOUS
<1> USE DEF StartsCounted, Used, TypeOK
<1>1. ASSUME UNCHANGED <<burst, restarts, window>> PROVE StartsCounted'
  BY <1>1
<1>2. ASSUME NEW r \in Req, Spawn(r) \/ SpawnFails(r) PROVE StartsCounted'
  BY <1>2 DEF Spawn, SpawnFails, CountRestart
<1>3. ASSUME NEW r \in Req, ReadText(r) PROVE StartsCounted'
  BY <1>3 DEF ReadText
<1>4. CASE WindowPasses
  BY <1>4 DEF WindowPasses
<1>5. ASSUME NEW r \in Req,
             \/ Submit(r) \/ Acquire(r) \/ Begin(r) \/ UseRunning(r)
             \/ RestartLimit(r) \/ Handshake(r) \/ HandshakeFails(r) \/ Write(r)
             \/ BrokenPipe(r) \/ ReadError(r) \/ ReadFails(r)
      PROVE  StartsCounted'
  BY <1>1, <1>5 DEF Submit, Acquire, Begin, UseRunning, RestartLimit, Handshake,
     HandshakeFails, Write, BrokenPipe, ReadError, ReadFails, budget
<1>6. ASSUME \/ UNCHANGED vars \/ CloseCall \/ Close
             \/ \E p \in Proc : ProcStep(p)
      PROVE  StartsCounted'
  BY <1>1, <1>6 DEF vars, CloseCall, Close, ProcStep, Load, Answer, Crash, Stall,
     budget
<1>q. QED BY <1>2, <1>3, <1>4, <1>5, <1>6 DEF Next, ThreadStep
-----------------------------------------------------------------------------
(* The processes.                                                          *)

(* A call that fails leaves no process running and nothing awaited.        *)
LEMMA FailClears ==
  ASSUME TypeOK, HolderInside, ProcessIsCurrent, NEW r \in Req, holder = r, Fail(r)
  PROVE  /\ proc' = 0 /\ holder' = NoReq
         /\ \A q \in Req : rpc'[q] \notin Inside
         /\ \A p \in Proc : alive'[p] \in {"none", "dead"}
         /\ \A p \in Proc : p > spawned => alive'[p] = alive[p]
         /\ UNCHANGED <<spawned, inq, outq>>
<1> USE SidecarAssumption DEF SidecarAssumption, TypeOK, Proc
<1>1. \A q \in Req : q # r => rpc[q] \notin Inside
  BY DEF HolderInside
<1>2. \A q \in Req : rpc'[q] \notin Inside
  BY <1>1 DEF Fail, Return, Inside
<1>3. \A p \in Proc : alive'[p] \in {"none", "dead"}
  BY DEF Fail, Kill, ProcessIsCurrent, Running
<1>4. QED BY <1>2, <1>3 DEF Fail, Kill, Return

Failing(r) ==
  RestartLimit(r) \/ SpawnFails(r) \/ HandshakeFails(r) \/ BrokenPipe(r) \/ ReadFails(r)

LEMMA FailingFails ==
  ASSUME NEW r \in Req, Failing(r) PROVE holder = r /\ Fail(r)
BY DEF Failing, RestartLimit, SpawnFails, HandshakeFails, BrokenPipe, ReadFails, At

LEMMA CloseClears ==
  ASSUME TypeOK, HolderInside, ProcessIsCurrent, Close
  PROVE  /\ proc' = 0
         /\ \A q \in Req : rpc'[q] \notin Inside
         /\ \A p \in Proc : alive'[p] \in {"none", "dead"}
         /\ \A p \in Proc : p > spawned => alive'[p] = alive[p]
         /\ UNCHANGED <<spawned, inq, outq>>
<1> USE SidecarAssumption DEF SidecarAssumption, TypeOK, Proc
<1>1. \A q \in Req : rpc[q] \notin Inside
  BY DEF HolderInside, Close
<1>2. \A p \in Proc : alive'[p] \in {"none", "dead"}
  BY DEF Close, Kill, ProcessIsCurrent, Running
<1>3. QED BY <1>1, <1>2 DEF Close, Kill, reqVars

(* A process starts only when none is running.                             *)
LEMMA ProcessIsCurrentStep ==
  TypeOK /\ HolderInside /\ ProcessIsCurrent /\ [Next]_vars => ProcessIsCurrent'
<1> SUFFICES ASSUME TypeOK, HolderInside, ProcessIsCurrent, [Next]_vars
             PROVE  ProcessIsCurrent'
  OBVIOUS
<1> USE SidecarAssumption DEF SidecarAssumption, TypeOK, ProcessIsCurrent, Running, Proc
<1>1. ASSUME UNCHANGED <<proc, alive>> PROVE ProcessIsCurrent'
  BY <1>1
<1>2. ASSUME NEW r \in Req, Failing(r) PROVE ProcessIsCurrent'
  BY <1>2, FailingFails, FailClears
<1>3. CASE Close
  BY <1>3, CloseClears
<1>4. ASSUME NEW r \in Req, Spawn(r) PROVE ProcessIsCurrent'
  BY <1>4 DEF Spawn
<1>5. ASSUME NEW p \in Proc, ProcStep(p) PROVE ProcessIsCurrent'
  BY <1>5 DEF ProcStep, Load, Answer, Crash, Stall
<1>6. ASSUME NEW r \in Req,
             \/ Submit(r) \/ Acquire(r) \/ Begin(r) \/ UseRunning(r)
             \/ Handshake(r) \/ Write(r) \/ ReadText(r) \/ ReadError(r)
      PROVE  ProcessIsCurrent'
  BY <1>1, <1>6 DEF Submit, Acquire, Begin, UseRunning, Handshake, Write,
     ReadText, ReadError, procVars
<1>7. CASE UNCHANGED vars \/ CloseCall \/ WindowPasses
  BY <1>1, <1>7 DEF vars, CloseCall, WindowPasses, procVars
<1>q. QED BY <1>2, <1>3, <1>4, <1>5, <1>6, <1>7 DEF Next, ThreadStep, Failing

(* Nothing touches a process before it starts.                             *)
LEMMA UnusedProcessStep ==
  /\ TypeOK /\ HolderInside /\ ProcessIsCurrent /\ PipesAwaited /\ UnusedProcess
  /\ [Next]_vars
  => UnusedProcess'
<1> SUFFICES ASSUME TypeOK, HolderInside, ProcessIsCurrent, PipesAwaited,
                    UnusedProcess, [Next]_vars
             PROVE  UnusedProcess'
  OBVIOUS
<1> USE SidecarAssumption DEF SidecarAssumption, TypeOK, UnusedProcess, Proc
<1>1. ASSUME UNCHANGED <<spawned, alive, inq, outq>> PROVE UnusedProcess'
  BY <1>1
<1>2. ASSUME NEW r \in Req, Failing(r) PROVE UnusedProcess'
  BY <1>2, FailingFails, FailClears
<1>3. CASE Close
  BY <1>3, CloseClears
<1>4. ASSUME NEW r \in Req, Spawn(r) PROVE UnusedProcess'
  <2>1. /\ spawned' = spawned + 1 /\ UNCHANGED <<inq, outq>>
        /\ alive' = [alive EXCEPT ![spawned + 1] = "loading"]
    BY <1>4 DEF Spawn
  <2>2. ASSUME NEW p \in Proc, p > spawned'
        PROVE  alive'[p] = alive[p] /\ p > spawned
    BY <2>1, <2>2
  <2>3. QED BY <2>1, <2>2
<1>5. ASSUME NEW r \in Req,
             Handshake(r) \/ Write(r) \/ ReadText(r) \/ ReadError(r)
      PROVE  UnusedProcess'
  BY <1>5 DEF Handshake, Write, ReadText, ReadError
<1>6. ASSUME NEW p \in Proc, ProcStep(p) PROVE UnusedProcess'
  <2>1. p <= spawned /\ UNCHANGED spawned
    <3>1. alive[p] # "none"
      BY <1>6 DEF ProcStep, Load, Answer, Crash, Stall, Running
    <3>2. UNCHANGED spawned
      BY <1>6 DEF ProcStep, Load, Answer, Crash, Stall
    <3>3. ~(p > spawned)
      <4>1. p \in Proc /\ (p > spawned => alive[p] = "none")
        BY Zenon DEF UnusedProcess
      <4>2. QED BY <3>1, <4>1
    <3>4. p \in Nat /\ spawned \in Nat
      OBVIOUS
    <3>5. QED BY <3>2, <3>3, <3>4
  <2>2. \A q \in Proc : q > spawned =>
          alive'[q] = alive[q] /\ inq'[q] = inq[q] /\ outq'[q] = outq[q]
    <3>1. \A q \in Proc : q > spawned => q # p
      BY <2>1
    <3>2. CASE Load(p)
      BY <3>1, <3>2 DEF Load
    <3>3. CASE Answer(p)
      BY <3>1, <3>3 DEF Answer
    <3>4. CASE Crash(p) \/ Stall(p)
      BY <3>1, <3>4 DEF Crash, Stall
    <3>5. QED BY <1>6, <3>2, <3>3, <3>4 DEF ProcStep
  <2>3. QED BY <2>1, <2>2
<1>7. ASSUME NEW r \in Req,
             Submit(r) \/ Acquire(r) \/ Begin(r) \/ UseRunning(r)
      PROVE  UnusedProcess'
  BY <1>1, <1>7 DEF Submit, Acquire, Begin, UseRunning, procVars
<1>8. CASE UNCHANGED vars \/ CloseCall \/ WindowPasses
  BY <1>1, <1>8 DEF vars, CloseCall, WindowPasses, procVars
<1>q. QED BY <1>2, <1>3, <1>4, <1>5, <1>6, <1>7, <1>8
      DEF Next, ThreadStep, Failing
LEMMA OneInside ==
  ASSUME HolderInside, NEW r \in Req, rpc[r] \in Inside
  PROVE  holder = r /\ \A q \in Req : q # r => rpc[q] \notin Inside
BY DEF HolderInside

(* Whoever starts a process waits for its first frame.                     *)
LEMMA LoadingIsAwaitedStep ==
  /\ TypeOK /\ HolderInside /\ ProcessIsCurrent /\ PipesAwaited /\ UnusedProcess
  /\ LoadingIsAwaited /\ [Next]_vars
  => LoadingIsAwaited'
<1> SUFFICES ASSUME TypeOK, HolderInside, ProcessIsCurrent, PipesAwaited,
                    UnusedProcess, LoadingIsAwaited, [Next]_vars
             PROVE  LoadingIsAwaited'
  OBVIOUS
<1> USE SidecarAssumption DEF SidecarAssumption, Proc
<1>0. ASSUME \A p \in Proc : alive'[p] # "loading" PROVE LoadingIsAwaited'
  BY <1>0 DEF LoadingIsAwaited
<1>1. ASSUME UNCHANGED <<proc, alive, outq>>,
             \A r \in Req : rpc[r] = "hello" => rpc'[r] = "hello"
      PROVE  LoadingIsAwaited'
  BY <1>1 DEF LoadingIsAwaited
<1>2. ASSUME NEW r \in Req, Failing(r) PROVE LoadingIsAwaited'
  BY <1>0, <1>2, FailingFails, FailClears
<1>3. CASE Close
  BY <1>0, <1>3, CloseClears
<1>4. ASSUME NEW r \in Req, Spawn(r) PROVE LoadingIsAwaited'
  <2>1. spawned + 1 \in Proc /\ spawned + 1 > spawned
    BY <1>4 DEF Spawn, TypeOK
  <2>2. outq[spawned + 1] = <<>>
    BY <2>1 DEF UnusedProcess
  <2>3. \A p \in Proc : alive[p] # "loading"
    BY <1>4 DEF Spawn, ProcessIsCurrent, Running
  <2>4. rpc'[r] = "hello" /\ proc' = spawned + 1 /\ outq' = outq
        /\ alive' = [alive EXCEPT ![spawned + 1] = "loading"]
    BY <1>4 DEF Spawn, Goto, TypeOK
  <2>5. ASSUME NEW p \in Proc, alive'[p] = "loading" PROVE p = spawned + 1
    BY <2>3, <2>4, <2>5 DEF TypeOK
  <2>6. QED BY <2>2, <2>4, <2>5 DEF LoadingIsAwaited
<1>5. ASSUME NEW r \in Req,
             Handshake(r) \/ ReadText(r) \/ ReadError(r)
      PROVE  LoadingIsAwaited'
  <2>1. rpc[r] \in {"hello", "read"} /\ outq[proc] # <<>> /\ UNCHANGED alive
    BY <1>5 DEF Handshake, ReadText, ReadError, At
  <2>2. \A p \in Proc : alive[p] # "loading"
    BY <2>1 DEF LoadingIsAwaited
  <2>3. QED BY <1>0, <2>1, <2>2
<1>6. ASSUME NEW r \in Req,
             \/ Submit(r) \/ Acquire(r) \/ Begin(r) \/ UseRunning(r) \/ Write(r)
      PROVE  LoadingIsAwaited'
  <2>1. rpc[r] # "hello" /\ UNCHANGED <<proc, alive, outq>>
    BY <1>6 DEF Submit, Acquire, Begin, UseRunning, Write, At, procVars
  <2>2. \A q \in Req : q # r => rpc'[q] = rpc[q]
    BY <1>6 DEF Submit, Acquire, Begin, UseRunning, Write, Goto, TypeOK
  <2>3. QED BY <1>1, <2>1, <2>2
<1>7. ASSUME NEW p \in Proc, Load(p) PROVE LoadingIsAwaited'
  <2>1. \A q \in Proc : q # p => alive[q] # "loading"
    BY <1>7 DEF Load, LoadingIsAwaited
  <2>2. \A q \in Proc : alive'[q] # "loading"
    BY <1>7, <2>1 DEF Load, TypeOK
  <2>3. QED BY <1>0, <2>2
<1>8. ASSUME NEW p \in Proc, Answer(p) \/ Stall(p) \/ Crash(p) PROVE LoadingIsAwaited'
  <2>1. p = proc
    BY <1>8 DEF Answer, Stall, Crash, ProcessIsCurrent, Running
  <2>2. CASE Crash(p)
    BY <2>2, <2>1 DEF Crash, LoadingIsAwaited, TypeOK, reqVars
  <2>3. CASE Answer(p) \/ Stall(p)
    <3>1. \A q \in Proc : alive[q] # "loading"
      BY <2>1, <2>3 DEF LoadingIsAwaited, Answer, Stall
    <3>2. \A q \in Proc : alive'[q] # "loading"
      BY <3>1, <2>3 DEF Answer, Stall, TypeOK
    <3>3. QED BY <1>0, <3>2
  <2>4. QED BY <1>8, <2>2, <2>3
<1>9. CASE UNCHANGED vars \/ CloseCall \/ WindowPasses
  BY <1>1, <1>9 DEF vars, CloseCall, WindowPasses, reqVars, procVars
<1>q. QED BY <1>2, <1>3, <1>4, <1>5, <1>6, <1>7, <1>8, <1>9
      DEF Next, ThreadStep, ProcStep, Failing
(* What the pipes hold after a step that leaves at most r inside.          *)
LEMMA PipesOf ==
  ASSUME NEW r \in Req, \A q \in Req : q # r => rpc'[q] \notin Inside,
         rpc'[r] \in {"hello", "write", "read"} => proc' # 0,
         rpc'[r] \notin {"hello", "read"} => Quiet',
         rpc'[r] = "hello" => Quiet' \/ AwaitsReady',
         rpc'[r] = "read" => AwaitsAnswer(r)'
  PROVE  PipesAwaited'
BY DEF PipesAwaited, Inside

(* The pipes hold what the holder of the lock waits for, and nothing else. *)
LEMMA PipesAwaitedStep ==
  /\ TypeOK /\ HolderInside /\ ProcessIsCurrent /\ UnusedProcess
  /\ LoadingIsAwaited /\ PipesAwaited /\ [Next]_vars
  => PipesAwaited'
<1> SUFFICES ASSUME TypeOK, HolderInside, ProcessIsCurrent, UnusedProcess,
                    LoadingIsAwaited, PipesAwaited, [Next]_vars
             PROVE  PipesAwaited'
  OBVIOUS
<1> USE SidecarAssumption DEF SidecarAssumption, Proc
<1>0. ASSUME proc' = 0, \A q \in Req : rpc'[q] \notin Inside PROVE PipesAwaited'
  BY <1>0 DEF PipesAwaited, Inside
<1>1. ASSUME UNCHANGED <<proc, inq, outq>>,
             \A q \in Req : rpc'[q] = rpc[q] \/ {rpc[q], rpc'[q]} \cap
                             {"hello", "write", "read"} = {}
      PROVE  PipesAwaited'
  <2>1. UNCHANGED Quiet /\ UNCHANGED AwaitsReady
        /\ \A q \in Req : UNCHANGED AwaitsAnswer(q)
    BY <1>1 DEF Quiet, AwaitsReady, AwaitsAnswer
  <2>2. \A q \in Req : \A s \in {"hello", "write", "read"} :
          rpc'[q] = s <=> rpc[q] = s
    BY <1>1
  <2>3. QED BY <1>1, <2>1, <2>2 DEF PipesAwaited
<1>2. ASSUME NEW r \in Req, Failing(r) PROVE PipesAwaited'
  BY <1>0, <1>2, FailingFails, FailClears
<1>3. CASE Close
  BY <1>0, <1>3, CloseClears
<1>4. ASSUME NEW r \in Req, rpc[r] \in Inside
      PROVE  \A q \in Req : q # r => rpc[q] \notin Inside
  BY <1>4, OneInside
<1>5. ASSUME NEW r \in Req, Spawn(r) PROVE PipesAwaited'
  <2>1. spawned + 1 \in Proc /\ spawned + 1 > spawned /\ spawned + 1 # 0
    BY <1>5 DEF Spawn, TypeOK
  <2>2. rpc[r] \in Inside /\ rpc' = [rpc EXCEPT ![r] = "hello"]
        /\ proc' = spawned + 1 /\ UNCHANGED <<inq, outq>>
    BY <1>5 DEF Spawn, At, Goto, Inside
  <2>3. Quiet'
    BY <2>1, <2>2 DEF Quiet, UnusedProcess
  <2>4. rpc'[r] = "hello" /\ \A q \in Req : q # r => rpc'[q] \notin Inside
    BY <1>4, <2>2 DEF TypeOK
  <2>5. QED BY <2>1, <2>2, <2>3, <2>4, PipesOf
<1>6. ASSUME NEW r \in Req, UseRunning(r) PROVE PipesAwaited'
  <2>1. rpc[r] = "check" /\ rpc' = [rpc EXCEPT ![r] = "write"] /\ proc # 0
        /\ UNCHANGED <<proc, inq, outq>>
    BY <1>6 DEF UseRunning, At, Goto, procVars, Running
  <2>2. \A q \in Req : q # r => rpc[q] \notin Inside
    BY <1>4, <2>1 DEF Inside
  <2>3. Quiet
    BY <2>1, <2>2 DEF PipesAwaited, Inside
  <2>4. rpc'[r] = "write" /\ \A q \in Req : q # r => rpc'[q] \notin Inside
    BY <2>1, <2>2 DEF TypeOK
  <2>5. QED BY <2>1, <2>3, <2>4, PipesOf DEF Quiet
<1>7. ASSUME NEW r \in Req, Handshake(r) PROVE PipesAwaited'
  <2>1. rpc[r] = "hello" /\ rpc' = [rpc EXCEPT ![r] = "write"]
        /\ outq[proc] # <<>> /\ outq' = [outq EXCEPT ![proc] = Tail(@)]
        /\ UNCHANGED <<proc, inq>>
    BY <1>7 DEF Handshake, At, Goto
  <2>2. proc \in Proc
    BY <2>1 DEF PipesAwaited, TypeOK
  <2>3. inq[proc] = <<>> /\ \E f \in Frame : outq[proc] = <<f>>
    BY <2>1 DEF PipesAwaited, Quiet, AwaitsReady
  <2>4. Tail(outq[proc]) = <<>>
    BY <2>3, OneElement
  <2>5. Quiet'
    BY <2>1, <2>2, <2>3, <2>4 DEF Quiet, TypeOK
  <2>6. rpc'[r] = "write" /\ \A q \in Req : q # r => rpc'[q] \notin Inside
    BY <1>4, <2>1 DEF TypeOK, Inside
  <2>7. proc' # 0
    BY <2>1, <2>2
  <2>8. QED BY <2>5, <2>6, <2>7, PipesOf
<1>8. ASSUME NEW r \in Req, Write(r) PROVE PipesAwaited'
  <2>1. rpc[r] = "write" /\ rpc' = [rpc EXCEPT ![r] = "read"]
        /\ inq' = [inq EXCEPT ![proc] = Append(@, r)] /\ UNCHANGED <<proc, outq>>
    BY <1>8 DEF Write, At, Goto
  <2>2. proc \in Proc
    BY <2>1 DEF PipesAwaited, TypeOK
  <2>3. \A q \in Req : q # r => rpc[q] \notin Inside
    BY <1>4, <2>1 DEF Inside
  <2>4. Quiet
    BY <2>1, <2>2, <2>3 DEF PipesAwaited, Inside
  <2>5. inq'[proc] = <<r>>
    BY <2>1, <2>2, <2>4, OneElement DEF Quiet, TypeOK
  <2>6. AwaitsAnswer(r)'
    BY <2>1, <2>4, <2>5 DEF AwaitsAnswer, Quiet
  <2>7. rpc'[r] = "read" /\ \A q \in Req : q # r => rpc'[q] \notin Inside
    BY <2>1, <2>3 DEF TypeOK
  <2>8. proc' # 0
    BY <2>1, <2>2
  <2>9. QED BY <2>6, <2>7, <2>8, PipesOf
<1>9. ASSUME NEW r \in Req, ReadText(r) \/ ReadError(r) PROVE PipesAwaited'
  <2>1. rpc[r] = "read" /\ rpc' = [rpc EXCEPT ![r] = "done"]
        /\ outq[proc] # <<>> /\ outq' = [outq EXCEPT ![proc] = Tail(@)]
        /\ UNCHANGED <<proc, inq>>
    BY <1>9 DEF ReadText, ReadError, At, Return
  <2>2. proc \in Proc
    BY <2>1 DEF PipesAwaited, TypeOK
  <2>3. inq[proc] = <<>> /\ \E f \in Frame : outq[proc] = <<f>>
    BY <2>1 DEF PipesAwaited, AwaitsAnswer
  <2>4. Tail(outq[proc]) = <<>>
    BY <2>3, OneElement
  <2>5. Quiet'
    BY <2>1, <2>2, <2>3, <2>4 DEF Quiet, TypeOK
  <2>6. rpc'[r] = "done" /\ \A q \in Req : q # r => rpc'[q] \notin Inside
    BY <1>4, <2>1 DEF TypeOK, Inside
  <2>7. QED BY <2>5, <2>6, PipesOf
<1>10. ASSUME NEW r \in Req, Submit(r) \/ Begin(r) \/ Acquire(r)
       PROVE  PipesAwaited'
  <2>1. UNCHANGED <<proc, inq, outq>>
    BY <1>10 DEF Submit, Begin, Acquire, procVars
  <2>2. /\ rpc[r] \in {"new", "queued", "lock"}
        /\ rpc'[r] \in {"queued", "lock", "check"}
        /\ \A q \in Req : q # r => rpc'[q] = rpc[q]
    BY <1>10 DEF Submit, Begin, Acquire, Goto, TypeOK
  <2>3. QED BY <1>1, <2>1, <2>2
<1>11. ASSUME NEW p \in Proc, Load(p) PROVE PipesAwaited'
  <2>1. p = proc /\ outq[proc] = <<>> /\ UNCHANGED <<rpc, proc, inq>>
    BY <1>11 DEF Load, LoadingIsAwaited, reqVars
  <2>2. PICK r \in Req : rpc[r] = "hello"
    BY <1>11 DEF Load, LoadingIsAwaited
  <2>3. inq[proc] = <<>>
    BY <2>2 DEF PipesAwaited, Quiet, AwaitsReady
  <2>4. PICK k \in {"ready", "init failed"} :
          outq' = [outq EXCEPT ![p] = Append(@, [kind |-> k, req |-> NoReq])]
    BY <1>11 DEF Load
  <2>5. outq'[proc] = <<[kind |-> k, req |-> NoReq]>>
    BY <2>1, <2>4, OneElement DEF TypeOK
  <2>6. [kind |-> k, req |-> NoReq] \in Frame
    BY FrameType
  <2>7. AwaitsReady'
    BY <2>1, <2>3, <2>5, <2>6 DEF AwaitsReady
  <2>8. \A q \in Req : q # r => rpc'[q] \notin Inside
    BY <1>4, <2>1, <2>2 DEF Inside
  <2>9. QED BY <2>1, <2>2, <2>7, <2>8, PipesOf DEF PipesAwaited
<1>12. ASSUME NEW p \in Proc, Answer(p) PROVE PipesAwaited'
  <2>1. p = proc /\ inq[proc] # <<>> /\ UNCHANGED <<rpc, proc>>
        /\ inq' = [inq EXCEPT ![p] = Tail(@)]
    BY <1>12 DEF Answer, ProcessIsCurrent, Running, reqVars
  <2>2. PICK r \in Req : rpc[r] = "read"
    <3>1. proc # 0 /\ ~Quiet
      BY <2>1 DEF Quiet
    <3>2. \A q \in Req : rpc[q] # "hello"
      BY <2>1 DEF PipesAwaited, Quiet, AwaitsReady
    <3>3. QED BY <3>1, <3>2 DEF PipesAwaited
  <2>3. inq[proc] = <<r>> /\ outq[proc] = <<>>
    BY <2>1, <2>2 DEF PipesAwaited, AwaitsAnswer
  <2>4. Tail(inq[proc]) = <<>> /\ Head(inq[proc]) = r
    BY <2>3, OneElement
  <2>5. PICK k \in {"text", "error"} :
          outq' = [outq EXCEPT ![p] = Append(@, [kind |-> k, req |-> r])]
    BY <1>12, <2>1, <2>4 DEF Answer
  <2>6. outq'[proc] = <<[kind |-> k, req |-> r]>> /\ inq'[proc] = <<>>
    BY <2>1, <2>3, <2>4, <2>5, OneElement DEF TypeOK
  <2>7. [kind |-> k, req |-> r] \in Frame
    BY FrameType
  <2>8. AwaitsAnswer(r)'
    BY <2>1, <2>6, <2>7 DEF AwaitsAnswer
  <2>9. \A q \in Req : q # r => rpc'[q] \notin Inside
    BY <1>4, <2>1, <2>2 DEF Inside
  <2>10. QED BY <2>1, <2>2, <2>8, <2>9, PipesOf DEF PipesAwaited
<1>13. ASSUME \/ UNCHANGED vars \/ CloseCall \/ WindowPasses
              \/ \E p \in Proc : Crash(p) \/ Stall(p)
       PROVE  PipesAwaited'
  <2>1. UNCHANGED <<rpc, proc, inq, outq>>
    BY <1>13 DEF vars, CloseCall, WindowPasses, Crash, Stall, reqVars, procVars
  <2>2. QED BY <1>1, <2>1
<1>q. QED BY <1>2, <1>3, <1>5, <1>6, <1>7, <1>8, <1>9, <1>10, <1>11, <1>12, <1>13
      DEF Next, ThreadStep, ProcStep, Failing
-----------------------------------------------------------------------------
(* The theorems.                                                           *)

(* The inductive invariant holds in every reachable state.                 *)
THEOREM Inductive == Spec => []IInv
<1>1. Init => IInv
  BY Initially
<1>2. IInv /\ [Next]_vars => IInv'
  BY TypeOKStep, HolderInsideStep, UnusedProcessStep, LoadingIsAwaitedStep,
     PipesAwaitedStep, StartsCountedStep, ProcessIsCurrentStep, AnswerIsOwnStep
     DEF IInv
<1>3. QED BY <1>1, <1>2, PTL DEF Spec

(* The state of calls, processes and pipes is well-typed.                  *)
THEOREM TypeCorrect == Spec => []TypeOK
<1>1. IInv => TypeOK
  BY DEF IInv
<1>2. QED BY <1>1, Inductive, PTL

(* For any number of calls, and a process that answers late, crashes or    *)
(* stalls, a call only gets the text of its own audio (transcribe).        *)
THEOREM AnswerIsOwnCorrect == Spec => []AnswerIsOwn
<1>1. IInv => AnswerIsOwn
  BY DEF IInv
<1>2. QED BY <1>1, Inductive, PTL

(* A sidecar that keeps failing is started at most MaxRestarts times in a  *)
(* window, whoever calls and whenever it is closed.                        *)
THEOREM RestartBudgetCorrect == Spec => []RestartBudget
<1>1. IInv => RestartBudget
  BY SidecarAssumption DEF SidecarAssumption, IInv, StartsCounted, Used,
     RestartBudget, TypeOK
<1>2. QED BY <1>1, Inductive, PTL

(* The backend never loses hold of a process that runs (_kill, _start).    *)
THEOREM ProcessIsCurrentCorrect == Spec => []ProcessIsCurrent
<1>1. IInv => ProcessIsCurrent
  BY DEF IInv
<1>2. QED BY <1>1, Inductive, PTL
-----------------------------------------------------------------------------
(* The installer.                                                          *)


(* At most one call has the temporary file.                                *)
OneOpen ==
  ~overlap => \A i, j \in Installer : Open(i) /\ Open(j) => i = j

(* The path names the file of that call, or nothing any more; it is not    *)
(* the installed one.                                                      *)
OwnTemp ==
  ~overlap =>
    /\ \A i \in Installer : Open(i) =>
         fd[i] # 0 /\ fd[i] # dest /\ tmp \in {0, fd[i]}
    /\ tmp # 0 => tmp # dest

(* The file of that call holds what it has received.                       *)
FileIsReceived ==
  ~overlap => \A i \in Installer : Open(i) /\ whole[i] =>
    \A b \in Block : b < next[i] => content[fd[i]][b] = "release"

(* A call past a check has passed it.                                      *)
ChecksPassed ==
  /\ \A i \in Installer : ipc[i] \in {"chmod", "verify", "replace"} => DigestOk(i)
  /\ \A i \in Installer : ipc[i] = "replace" => (pinned => official)
  /\ ~overlap => \A i \in Installer :
       ipc[i] \in {"verify", "replace"} /\ tmp # 0 => tmp \in executable

(* The inductive invariant.                                                *)
InstallInv ==
  InstallTypeOK /\ OneOpen /\ OwnTemp /\ FileIsReceived /\ ChecksPassed
         /\ InstalledIsVerified

LEMMA InstallInitially == InstallInit => InstallInv
<1> SUFFICES ASSUME InstallInit PROVE InstallInv
  OBVIOUS
<1>1. InstallTypeOK
  <2> USE InstallAssumption DEF InstallAssumption, InstallInit
  <2>1. made \in 0..MaxFiles /\ tmp \in 0..made /\ dest \in 0..made
    OBVIOUS
  <2>2. fd \in [Installer -> 0..made] /\ next \in [Installer -> 1..(Blocks + 1)]
    OBVIOUS
  <2>3. content \in [File -> [Block -> {"release", "other", "missing"}]]
    OBVIOUS
  <2>4. QED BY <2>1, <2>2, <2>3 DEF InstallTypeOK, Steps
<1>2. \A i \in Installer : ~Open(i) /\ ipc[i] = "new"
  BY DEF InstallInit, Open
<1>3. dest = 0 /\ tmp = 0
  BY DEF InstallInit
<1>4. QED BY <1>1, <1>2, <1>3 DEF InstallInv, OneOpen, OwnTemp, FileIsReceived,
  ChecksPassed, InstalledIsVerified

(* Every step keeps the types.                                             *)
LEMMA InstallTypeStep == InstallTypeOK /\ [InstallNext]_installVars => InstallTypeOK'
<1> SUFFICES ASSUME InstallTypeOK, [InstallNext]_installVars PROVE InstallTypeOK'
  OBVIOUS
<1> USE InstallAssumption DEF InstallAssumption, InstallTypeOK, Steps, File, Block
<1>1. CASE UNCHANGED installVars
  BY <1>1 DEF installVars, calls, files, settings
<1>2. ASSUME NEW i \in Installer, Ask(i) \/ Present(i) \/ FetchChecksum(i)
        \/ NoChecksum(i) PROVE InstallTypeOK'
  BY <1>2 DEF Ask, Present, FetchChecksum, NoChecksum, StepTo, End, files,
     settings
<1>3. ASSUME NEW i \in Installer, OpenTemp(i) PROVE InstallTypeOK'
  <2> DEFINE n == IF tmp = 0 THEN made + 1 ELSE tmp
  <2>1. n \in File /\ made' \in 0..MaxFiles /\ made <= made' /\ n <= made'
    BY <1>3 DEF OpenTemp
  <2>2. tmp' = n /\ fd' = [fd EXCEPT ![i] = n]
        /\ content' = [content EXCEPT ![n] = [b \in Block |-> "missing"]]
    BY <1>3 DEF OpenTemp
  <2>3. tmp' \in 0..made' /\ dest \in 0..made' /\ fd' \in [Installer -> 0..made']
    BY <2>1, <2>2
  <2>4. content' \in [File -> [Block -> {"release", "other", "missing"}]]
    BY <2>2
  <2>5. /\ ipc' \in [Installer -> Steps] /\ overlap' \in BOOLEAN
        /\ next' \in [Installer -> 1..(Blocks + 1)]
        /\ whole' \in [Installer -> BOOLEAN]
    BY <1>3 DEF OpenTemp, StepTo
  <2>6. QED BY <1>3, <2>1, <2>3, <2>4, <2>5 DEF OpenTemp, settings
<1>4. ASSUME NEW i \in Installer, WriteBlock(i) PROVE InstallTypeOK'
  <2>1. PICK b \in {"release", "other"} :
          /\ whole' = [whole EXCEPT ![i] = @ /\ b = "release"]
          /\ content' = [content EXCEPT ![fd[i]][next[i]] = b]
    BY <1>4 DEF WriteBlock
  <2>2. whole' \in [Installer -> BOOLEAN]
    BY <2>1
  <2>3. content' \in [File -> [Block -> {"release", "other", "missing"}]]
    <3>1. CASE fd[i] \in File
      BY <2>1, <3>1
    <3>2. CASE fd[i] \notin File
      BY <2>1, <3>2
    <3>3. QED BY <3>1, <3>2
  <2>4. next' \in [Installer -> 1..(Blocks + 1)]
    BY <1>4 DEF WriteBlock
  <2>5. QED BY <1>4, <2>2, <2>3, <2>4 DEF WriteBlock, settings
<1>5. ASSUME NEW i \in Installer, Matches(i) \/ Verified(i) PROVE InstallTypeOK'
  BY <1>5 DEF Matches, Verified, StepTo, files, settings
<1>6. ASSUME NEW i \in Installer, GiveUp(i) PROVE InstallTypeOK'
  BY <1>6 DEF GiveUp, End, StepTo, settings
<1>7. ASSUME NEW i \in Installer, Chmod(i) PROVE InstallTypeOK'
  BY <1>7 DEF Chmod, StepTo, settings
<1>8. ASSUME NEW i \in Installer, Replace(i) PROVE InstallTypeOK'
  BY <1>8 DEF Replace, End, StepTo, settings
<1>9. ASSUME NEW i \in Installer, CallDies(i) PROVE InstallTypeOK'
  BY <1>9 DEF CallDies, StepTo, files, settings
<1>q. QED BY <1>1, <1>2, <1>3, <1>4, <1>5, <1>6, <1>7, <1>8, <1>9
  DEF InstallNext, CallStep, Mismatch, Rejected, Raises

(* Only opening the file makes a call have it.                             *)
LEMMA OneOpenStep == InstallTypeOK /\ OneOpen /\ [InstallNext]_installVars => OneOpen'
<1> SUFFICES ASSUME InstallTypeOK, OneOpen, [InstallNext]_installVars PROVE OneOpen'
  OBVIOUS
<1> USE DEF InstallTypeOK, OneOpen, Open
<1>1. CASE UNCHANGED installVars
  BY <1>1 DEF installVars, calls
<1>2. ASSUME NEW i \in Installer, OpenTemp(i) PROVE OneOpen'
  BY <1>2 DEF OpenTemp, StepTo
<1>3. ASSUME NEW i \in Installer, CallStep(i) \/ CallDies(i), ~OpenTemp(i)
      PROVE  OneOpen'
  <2>1. /\ UNCHANGED overlap
        /\ \A j \in Installer : Open(j)' => Open(j)
    BY <1>3 DEF CallStep, CallDies, Ask, Present, FetchChecksum, NoChecksum,
       WriteBlock, Matches, Mismatch, Chmod, Verified, Rejected, Replace,
       Raises, GiveUp, StepTo, End
  <2>2. QED BY <2>1
<1>q. QED BY <1>1, <1>2, <1>3 DEF InstallNext

(* The path changes only by opening, renaming and unlinking.               *)
LEMMA OwnTempStep ==
  InstallTypeOK /\ OneOpen /\ OwnTemp /\ [InstallNext]_installVars => OwnTemp'
<1> SUFFICES ASSUME InstallTypeOK, OneOpen, OwnTemp, [InstallNext]_installVars
             PROVE  OwnTemp'
  OBVIOUS
<1> USE DEF InstallTypeOK, OneOpen, OwnTemp, Open
<1>1. CASE UNCHANGED installVars
  BY <1>1 DEF installVars, calls, files
<1>2. ASSUME NEW i \in Installer, OpenTemp(i) PROVE OwnTemp'
  <2> SUFFICES ASSUME ~overlap' PROVE OwnTemp'
    OBVIOUS
  <2>1. ~overlap /\ \A j \in Installer : ~Open(j)
    BY <1>2 DEF OpenTemp
  <2>2. tmp' # 0 /\ tmp' # dest /\ fd'[i] = tmp' /\ dest' = dest
    BY <1>2, <2>1 DEF OpenTemp
  <2>3. \A j \in Installer : Open(j)' => j = i
    BY <1>2, <2>1 DEF OpenTemp, StepTo
  <2>4. QED BY <2>2, <2>3
<1>3. ASSUME NEW i \in Installer, Replace(i) PROVE OwnTemp'
  <2> SUFFICES ASSUME ~overlap PROVE OwnTemp'
    BY <1>3 DEF Replace
  <2>1. \A j \in Installer : ~Open(j)'
    BY <1>3 DEF Replace, End, StepTo
  <2>2. QED BY <1>3, <2>1 DEF Replace
<1>4. ASSUME NEW i \in Installer, CallStep(i) \/ CallDies(i), ~OpenTemp(i),
             ~Replace(i)
      PROVE  OwnTemp'
  <2>1. /\ UNCHANGED <<overlap, dest, fd>> /\ tmp' \in {0, tmp}
        /\ \A j \in Installer : Open(j)' => Open(j)
    BY <1>4 DEF CallStep, CallDies, Ask, Present, FetchChecksum, NoChecksum,
       WriteBlock, Matches, Mismatch, Chmod, Verified, Rejected, Raises,
       GiveUp, StepTo, End, files
  <2>2. QED BY <2>1
<1>q. QED BY <1>1, <1>2, <1>3, <1>4 DEF InstallNext

(* Only the one call that has the file writes to it.                       *)
LEMMA FileIsReceivedStep ==
  InstallTypeOK /\ OneOpen /\ OwnTemp /\ FileIsReceived /\ [InstallNext]_installVars
    => FileIsReceived'
<1> SUFFICES ASSUME InstallTypeOK, OneOpen, OwnTemp, FileIsReceived,
                    [InstallNext]_installVars
             PROVE  FileIsReceived'
  OBVIOUS
<1> USE InstallAssumption DEF InstallAssumption, InstallTypeOK, FileIsReceived, Open
<1>1. CASE UNCHANGED installVars
  BY <1>1 DEF installVars, calls, files, settings, Block
<1>2. ASSUME NEW i \in Installer, OpenTemp(i) PROVE FileIsReceived'
  <2> SUFFICES ASSUME ~overlap', NEW j \in Installer, Open(j)', whole'[j],
                      NEW b \in Block, b < next'[j]
               PROVE  content'[fd'[j]][b] = "release"
    BY DEF Block
  <2>1. j = i
    BY <1>2 DEF OpenTemp, StepTo
  <2>2. next'[i] = 1
    BY <1>2 DEF OpenTemp
  <2>3. QED BY <2>1, <2>2 DEF Block
<1>3. ASSUME NEW i \in Installer, WriteBlock(i) PROVE FileIsReceived'
  <2> SUFFICES ASSUME ~overlap', NEW j \in Installer, Open(j)', whole'[j],
                      NEW b \in Block, b < next'[j]
               PROVE  content'[fd'[j]][b] = "release"
    BY DEF Block
  <2>1. ~overlap /\ Open(j) /\ Open(i) /\ fd' = fd
    BY <1>3 DEF WriteBlock
  <2>2. j = i
    BY <2>1 DEF OneOpen
  <2>3. PICK c \in {"release", "other"} :
          /\ whole' = [whole EXCEPT ![i] = @ /\ c = "release"]
          /\ content' = [content EXCEPT ![fd[i]][next[i]] = c]
    BY <1>3 DEF WriteBlock
  <2>4. whole[i] /\ c = "release"
    BY <2>2, <2>3
  <2>5. fd[i] \in File
    BY <2>1 DEF OwnTemp, File
  <2>6. next'[i] = next[i] + 1
    BY <1>3 DEF WriteBlock
  <2>7. CASE b = next[i]
    BY <2>1, <2>2, <2>3, <2>4, <2>5, <2>7
  <2>8. CASE b < next[i]
    <3>1. content[fd[i]][b] = "release"
      BY <2>1, <2>4, <2>8
    <3>2. QED BY <2>1, <2>2, <2>3, <2>5, <2>8, <3>1 DEF Block
  <2>9. QED BY <2>2, <2>6, <2>7, <2>8 DEF Block
<1>4. ASSUME NEW i \in Installer, CallStep(i) \/ CallDies(i), ~OpenTemp(i),
             ~WriteBlock(i)
      PROVE  FileIsReceived'
  <2>1. /\ UNCHANGED <<overlap, fd, content, whole, next>>
        /\ \A j \in Installer : Open(j)' => Open(j)
    BY <1>4 DEF CallStep, CallDies, Ask, Present, FetchChecksum, NoChecksum,
       Matches, Mismatch, Chmod, Verified, Rejected, Raises, Replace,
       GiveUp, StepTo, End, files
  <2>2. QED BY <2>1 DEF Block
<1>q. QED BY <1>1, <1>2, <1>3, <1>4 DEF InstallNext

(* The checks are passed in this order, and nothing undoes them while      *)
(* nobody else has the file.                                               *)
LEMMA ChecksPassedStep ==
  InstallTypeOK /\ OneOpen /\ OwnTemp /\ ChecksPassed /\ [InstallNext]_installVars
    => ChecksPassed'
<1> SUFFICES ASSUME InstallTypeOK, OneOpen, OwnTemp, ChecksPassed,
                    [InstallNext]_installVars
             PROVE  ChecksPassed'
  OBVIOUS
<1> USE InstallAssumption DEF InstallAssumption, InstallTypeOK, ChecksPassed, DigestOk
<1>1. CASE UNCHANGED installVars
  BY <1>1 DEF installVars, calls, files, settings
<1>2. ASSUME NEW i \in Installer, OpenTemp(i) PROVE ChecksPassed'
  <2>1. \A j \in Installer : j # i => UNCHANGED <<ipc[j], next[j], whole[j]>>
    BY <1>2 DEF OpenTemp, StepTo
  <2>2. ipc'[i] = "write" /\ UNCHANGED <<pinned, official>>
    BY <1>2 DEF OpenTemp, StepTo, settings
  <2>3. ~overlap' => ~overlap /\ \A j \in Installer : ~Open(j)
    BY <1>2 DEF OpenTemp
  <2>4. QED BY <2>1, <2>2, <2>3 DEF Open
<1>3. ASSUME NEW i \in Installer, WriteBlock(i) PROVE ChecksPassed'
  BY <1>3 DEF WriteBlock, settings
<1>4. ASSUME NEW i \in Installer, Matches(i) PROVE ChecksPassed'
  BY <1>4 DEF Matches, StepTo, files, settings
<1>5. ASSUME NEW i \in Installer, Chmod(i) PROVE ChecksPassed'
  BY <1>5 DEF Chmod, StepTo, settings
<1>6. ASSUME NEW i \in Installer, Verified(i) PROVE ChecksPassed'
  BY <1>6 DEF Verified, SignatureOk, StepTo, files, settings
<1>7. ASSUME NEW i \in Installer, Replace(i) PROVE ChecksPassed'
  BY <1>7 DEF Replace, End, StepTo, settings
<1>8. ASSUME NEW i \in Installer, GiveUp(i) PROVE ChecksPassed'
  BY <1>8 DEF GiveUp, End, StepTo, settings
<1>9. ASSUME NEW i \in Installer, Ask(i) \/ Present(i) \/ FetchChecksum(i)
        \/ NoChecksum(i) \/ CallDies(i) PROVE ChecksPassed'
  BY <1>9 DEF Ask, Present, FetchChecksum, NoChecksum, CallDies, StepTo, End, files,
     settings
<1>q. QED BY <1>1, <1>2, <1>3, <1>4, <1>5, <1>6, <1>7, <1>8, <1>9
  DEF InstallNext, CallStep, Mismatch, Rejected, Raises

(* What a call alone renames over the binary has passed every check, and   *)
(* nobody writes to what is installed.                                     *)
LEMMA InstalledStep ==
  InstallInv /\ [InstallNext]_installVars => InstalledIsVerified' /\
    (dest # 0 /\ ~overlap' => dest' # 0 /\ Intact(dest)')
<1> SUFFICES ASSUME InstallInv, [InstallNext]_installVars, ~overlap'
             PROVE  /\ InstalledIsVerified'
                    /\ dest # 0 => dest' # 0 /\ Intact(dest)'
  BY DEF InstalledIsVerified
<1> USE InstallAssumption
    DEF InstallAssumption, InstallInv, InstallTypeOK, InstalledIsVerified, Intact
<1>1. CASE UNCHANGED installVars
  BY <1>1 DEF installVars, files, settings
<1>2. ASSUME NEW i \in Installer, OpenTemp(i)
      PROVE  /\ InstalledIsVerified'
             /\ dest # 0 => dest' # 0 /\ Intact(dest)'
  <2> DEFINE n == IF tmp = 0 THEN made + 1 ELSE tmp
  <2>1. ~overlap /\ dest' = dest /\ executable' = executable
        /\ UNCHANGED <<pinned, official>>
        /\ content' = [content EXCEPT ![n] = [b \in Block |-> "missing"]]
    BY <1>2 DEF OpenTemp, settings
  <2>2. n # dest
    BY <2>1 DEF OwnTemp
  <2>3. dest # 0 => content'[dest] = content[dest]
    BY <2>1, <2>2
  <2>4. QED BY <2>1, <2>3
<1>3. ASSUME NEW i \in Installer, WriteBlock(i)
      PROVE  /\ InstalledIsVerified'
             /\ dest # 0 => dest' # 0 /\ Intact(dest)'
  <2>1. ~overlap /\ dest' = dest /\ executable' = executable
        /\ UNCHANGED <<pinned, official>>
    BY <1>3 DEF WriteBlock, settings
  <2>2. fd[i] # dest
    BY <1>3, <2>1 DEF OwnTemp, Open, WriteBlock
  <2>3. dest # 0 => content'[dest] = content[dest]
    BY <1>3, <2>2 DEF WriteBlock
  <2>4. QED BY <2>1, <2>3
<1>4. ASSUME NEW i \in Installer, Replace(i)
      PROVE  /\ InstalledIsVerified'
             /\ dest # 0 => dest' # 0 /\ Intact(dest)'
  <2>1. ~overlap /\ dest' = tmp /\ tmp # 0 /\ ipc[i] = "replace"
        /\ UNCHANGED <<pinned, official, executable, content>>
    BY <1>4 DEF Replace, settings
  <2>2. tmp = fd[i] /\ Open(i)
    BY <2>1 DEF OwnTemp, Open
  <2>3. whole[i] /\ next[i] = Blocks + 1
    BY <2>1 DEF ChecksPassed, DigestOk
  <2>4. \A b \in Block : b < next[i]
    BY <2>3 DEF Block
  <2>5. Intact(tmp)
    BY <2>1, <2>2, <2>3, <2>4 DEF FileIsReceived
  <2>6. tmp \in executable /\ (pinned => official)
    BY <2>1 DEF ChecksPassed
  <2>7. Intact(dest)'
    <3>1. CASE dest = dest'
      BY <2>1, <2>5, <3>1
    <3>2. QED BY <2>1, <2>5
  <2>8. QED BY <2>1, <2>5, <2>6, <2>7
<1>5. ASSUME NEW i \in Installer, Chmod(i)
      PROVE  /\ InstalledIsVerified'
             /\ dest # 0 => dest' # 0 /\ Intact(dest)'
  BY <1>5 DEF Chmod, settings
<1>6. ASSUME NEW i \in Installer, CallStep(i) \/ CallDies(i), ~OpenTemp(i),
             ~WriteBlock(i), ~Replace(i), ~Chmod(i)
      PROVE  /\ InstalledIsVerified'
             /\ dest # 0 => dest' # 0 /\ Intact(dest)'
  <2>1. UNCHANGED <<overlap, dest, content, executable, pinned, official>>
    BY <1>6 DEF CallStep, CallDies, Ask, Present, FetchChecksum, NoChecksum,
       Matches, Mismatch, Verified, Rejected, Raises, GiveUp, StepTo, End, files,
       settings
  <2>2. QED BY <2>1
<1>q. QED BY <1>1, <1>2, <1>3, <1>4, <1>5, <1>6 DEF InstallNext

(* The inductive invariant holds in every reachable state.                 *)
THEOREM InstallInductive == InstallSpec => []InstallInv
<1>1. InstallInit => InstallInv
  BY InstallInitially
<1>2. InstallInv /\ [InstallNext]_installVars => InstallInv'
  BY InstallTypeStep, OneOpenStep, OwnTempStep, FileIsReceivedStep,
     ChecksPassedStep, InstalledStep DEF InstallInv
<1>3. QED BY <1>1, <1>2, PTL DEF InstallSpec

(* The state of the calls and the files is well-typed.                     *)
THEOREM InstallTypeCorrect == InstallSpec => []InstallTypeOK
<1>1. InstallInv => InstallTypeOK
  BY DEF InstallInv
<1>2. QED BY <1>1, InstallInductive, PTL

(* For any number of calls, retries and crashes that do not have the       *)
(* temporary file at once, what is installed is the whole, executable and  *)
(* verified release (sidecar_install.py, ensure_sidecar_binary).           *)
THEOREM InstalledIsVerifiedCorrect == InstallSpec => []InstalledIsVerified
<1>1. InstallInv => InstalledIsVerified
  BY DEF InstallInv
<1>2. QED BY <1>1, InstallInductive, PTL

(* Once there is a binary, no call takes it away or spoils it, under the   *)
(* same condition.                                                         *)
THEOREM BinaryStaysCorrect == InstallSpec => BinaryStays
<1>1. InstallInv /\ [InstallNext]_installVars =>
        [dest # 0 /\ ~overlap' => dest' # 0 /\ Intact(dest)']_installVars
  BY InstalledStep
<1>2. QED BY <1>1, InstallInductive, PTL DEF InstallSpec, BinaryStays

(* Whoever stops having the file without dying has unlinked or renamed it. *)
LEMMA NoTempLeftStep ==
  InstallTypeOK /\ NoTempLeft /\ [InstallNext]_installVars => NoTempLeft'
<1> SUFFICES ASSUME InstallTypeOK, NoTempLeft, [InstallNext]_installVars
             PROVE  NoTempLeft'
  OBVIOUS
<1>1. CASE UNCHANGED installVars
  BY <1>1 DEF installVars, calls, files, NoTempLeft, Open
<1>2. ASSUME NEW i \in Installer, OpenTemp(i) \/ WriteBlock(i) \/ Matches(i)
                                  \/ Chmod(i) \/ Verified(i)
      PROVE  NoTempLeft'
  <2>1. ipc'[i] \in {"write", "chmod", "verify", "replace"}
    BY <1>2 DEF OpenTemp, WriteBlock, Matches, Chmod, Verified, StepTo, InstallTypeOK
  <2>2. QED BY <2>1 DEF NoTempLeft, Open
<1>3. ASSUME NEW i \in Installer,
             Mismatch(i) \/ Rejected(i) \/ Replace(i) \/ Raises(i)
      PROVE  NoTempLeft'
  BY <1>3 DEF Mismatch, Rejected, Replace, Raises, GiveUp, NoTempLeft
<1>4. ASSUME NEW i \in Installer,
             \/ Ask(i) \/ Present(i) \/ FetchChecksum(i) \/ NoChecksum(i)
             \/ CallDies(i) /\ ~Open(i)
      PROVE  NoTempLeft'
  <2>1. UNCHANGED tmp /\ ~Open(i)
        /\ \A j \in Installer : j # i => ipc'[j] = ipc[j]
    BY <1>4 DEF Ask, Present, FetchChecksum, NoChecksum, CallDies, StepTo, End, files,
       Open, InstallTypeOK
  <2>2. abandoned => abandoned'
    BY <1>4 DEF Ask, Present, FetchChecksum, NoChecksum, CallDies, End
  <2>3. QED BY <2>1, <2>2 DEF NoTempLeft, Open
<1>5. ASSUME NEW i \in Installer, CallDies(i), Open(i) PROVE NoTempLeft'
  BY <1>5 DEF CallDies, NoTempLeft
<1>q. QED BY <1>1, <1>2, <1>3, <1>4, <1>5 DEF InstallNext, CallStep

(* However many calls overlap, fail and unlink each other's file, the last *)
(* to end leaves none, unless a process died with it.                      *)
THEOREM NoTempLeftCorrect == InstallSpec => []NoTempLeft
<1>1. InstallInit => NoTempLeft
  BY DEF InstallInit, NoTempLeft
<1>2. InstallInit => InstallTypeOK
  BY InstallInitially DEF InstallInv
<1>3. QED BY <1>1, <1>2, InstallTypeStep, NoTempLeftStep, PTL DEF InstallSpec
=============================================================================
