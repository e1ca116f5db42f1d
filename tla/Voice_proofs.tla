----------------------------- MODULE Voice_proofs -----------------------------
(***************************************************************************)
(* Proofs about Voice for any number of handlers, models, commands and     *)
(* transcribers.                                                           *)
(***************************************************************************)
EXTENDS Voice, TLAPS

Building(h) == hpc[h] \in {"close", "load"}

(* One handler at a time is inside _get_transcriber, and a transcriber can *)
(* still be built.                                                         *)
OneBuilder ==
  /\ \A g, h \in Handler : Building(g) /\ Building(h) => g = h
  /\ \A h \in Handler : Building(h) => cur < MaxBuilds
  /\ \A h \in Handler : hpc[h] = "close" => cur # 0

(* A thread works for the handler that waits for it, with a transcriber    *)
(* that was built.                                                         *)
ThreadIsAwaited ==
  /\ \A h \in Handler : hpc[h] = "waiting" <=> tpc[h] # "none"
  /\ \A h \in Handler : tpc[h] # "none" => by[h] \in 1..cur
  /\ closed \subseteq 1..cur

(* The buffer has all the chunks since audio.start.                        *)
BufferIsSaid == \A h \in Handler : pcm[h] # NoAudio => pcm[h] = said[h]

(* The name that is remembered is that of the transcriber, and the name    *)
(* that was resolved is still the one in force, unless the state file      *)
(* decides and was written meanwhile.                                      *)
FileRaced == raced /\ forced = NoModel

NameIsModels ==
  /\ \A h \in Handler : Building(h) => FileRaced \/ want = Resolved
  /\ cur # 0 /\ LoopIsFree => FileRaced \/ model[cur] = name

(* A thread inside the sidecar backend has its lock, and if the            *)
(* transcriber is closed it came later.                                    *)
Inside(h) == tpc[h] \in {"check", "use"} /\ Locked(h)

LockIsHeld ==
  /\ \A h \in Handler : Inside(h) => lock[by[h]] = h
  /\ \A h \in Handler : Inside(h) /\ by[h] \in closed => by[h] \in after

(* Whisper's model is there while it is used, unless it was closed.        *)
FallbackIsReady ==
  \A h \in Handler :
    tpc[h] = "use" /\ stage[h] = "fallback" =>
      "fallback" \in ready[by[h]] \/ by[h] \in closed

(* The inductive invariant.                                                *)
IInv ==
  /\ TypeOK /\ OneBuilder /\ ThreadIsAwaited /\ BufferIsSaid /\ NameIsModels
  /\ LockIsHeld /\ FallbackIsReady
  /\ TextUnlessClosed /\ MicSettles /\ ClosedHasNoProcess

LEMMA Bounds ==
  /\ MaxPcm \in Nat /\ MaxStops \in Nat /\ MaxSets \in Nat
  /\ MaxBuilds \in Nat /\ MaxFaults \in Nat /\ MaxFails \in Nat
  /\ Default \in Model /\ NoHandler \notin Handler
  /\ NoModel \notin Model /\ Unknown \notin Model /\ NoAudio \notin Nat
BY VoiceAssumption DEF VoiceAssumption

LEMMA Initially == Init => IInv
<1> SUFFICES ASSUME Init PROVE IInv
  OBVIOUS
<1> USE Bounds DEF Init
<1>1. TypeOK
  <2>1. pcm \in [Handler -> 0..MaxPcm \cup {NoAudio}]
        /\ said \in [Handler -> 0..MaxPcm + 1]
        /\ audio \in [Handler -> 0..MaxPcm] /\ by \in [Handler -> 0..MaxBuilds]
    OBVIOUS
  <2>2. /\ cur \in 0..MaxBuilds /\ stops \in 0..MaxStops /\ sets \in 0..MaxSets
        /\ faults \in 0..MaxFaults /\ fails \in 0..MaxFails
    OBVIOUS
  <2>3. /\ model \in [Transcriber -> Model \cup {NoModel}]
        /\ ready \in [Transcriber -> SUBSET Stages]
        /\ lock \in [Transcriber -> Handler \cup {NoHandler}]
    OBVIOUS
  <2>4. QED BY <2>1, <2>2, <2>3 DEF TypeOK, Stages
<1>2. OneBuilder /\ ThreadIsAwaited /\ BufferIsSaid /\ NameIsModels
  BY DEF OneBuilder, Building, ThreadIsAwaited, BufferIsSaid, NameIsModels
<1>3. LockIsHeld /\ FallbackIsReady
  BY DEF LockIsHeld, Inside, FallbackIsReady
<1>4. TextUnlessClosed /\ MicSettles /\ ClosedHasNoProcess
  BY DEF TextUnlessClosed, MicSettles, ClosedHasNoProcess
<1>5. QED BY <1>1, <1>2, <1>3, <1>4 DEF IInv
-----------------------------------------------------------------------------
(* What the steps change.                                                  *)

(* The frames of a recording.                                              *)
Recording(h) ==
  \/ AudioStart(h) \/ AudioChunk(h) \/ Overflow(h) \/ Reconnect(h)

(* Writes of the state file.                                               *)
Setting == (\E m \in Model : BeginSet(m)) \/ EndSet

LEMMA Steps ==
  ASSUME [Next]_vars
  PROVE  \/ UNCHANGED vars
         \/ Setting
         \/ \E h \in Handler :
              \/ Recording(h) \/ AudioStop(h) \/ StopUnrecorded(h)
              \/ CloseOld(h) \/ Load(h) \/ LoadUnrecorded(h) \/ Finish(h)
              \/ ThreadStep(h)
BY DEF Next, LoopStep, Recording, Setting

LEMMA RecordingFrame ==
  ASSUME NEW h \in Handler, Recording(h)
  PROVE  UNCHANGED BufferOnly
BY DEF Recording, AudioStart, AudioChunk, Overflow, Reconnect

LEMMA SettingFrame ==
  ASSUME Setting
  PROVE  /\ UNCHANGED <<bufferVars, hpc, audio, mic, forced, cur, name, want,
                        model, closed, threadVars, stops, faults>>
         /\ raced' = (raced \/ \E h \in Handler : Building(h))
BY DEF Setting, BeginSet, EndSet, Building

LEMMA ThreadFrame ==
  ASSUME TypeOK, NEW h \in Handler, ThreadStep(h)
  PROVE  /\ UNCHANGED Elsewhere /\ UNCHANGED by
         /\ tpc[h] \in {"queued", "check", "use"}
         /\ tpc'[h] \in {"check", "use", "text", "error"}
         /\ tpc' = [tpc EXCEPT ![h] = tpc'[h]]
         /\ stage' = [stage EXCEPT ![h] = stage'[h]]
         /\ tpc[h] # "queued" => lock' = Unlock(h) \/ (tpc'[h] = "use" /\ lock' = lock)
<1> USE DEF TypeOK
<1>1. CASE Empty(h) \/ Begin(h) \/ Check(h)
  BY <1>1 DEF Empty, Begin, Check
<1>2. CASE Use(h)
  BY <1>2 DEF Use, Return
<1>3. CASE UseClosed(h) \/ SidecarFails(h) \/ WhisperFails(h)
  BY <1>3 DEF UseClosed, SidecarFails, WhisperFails, RaiseIn
<1>4. QED BY <1>1, <1>2, <1>3 DEF ThreadStep
-----------------------------------------------------------------------------
(* Every step keeps the types.                                             *)
LEMMA TypeOKStep ==
  TypeOK /\ BufferIsSaid /\ OneBuilder /\ ThreadIsAwaited /\ [Next]_vars
    => TypeOK'
<1> SUFFICES ASSUME TypeOK, BufferIsSaid, OneBuilder, ThreadIsAwaited, [Next]_vars
             PROVE  TypeOK'
  OBVIOUS
<1> USE Bounds DEF TypeOK, Transcriber, Stages, Names
<1>0. Resolved \in Model
  BY DEF Resolved, Known
<1>1. CASE UNCHANGED vars
  BY <1>1 DEF vars, bufferVars, fileVars, modelVars, threadVars
<1>2. CASE Setting
  <2>1. file' \in Names /\ writing' \in Model \cup {NoModel} /\ sets' \in 0..MaxSets
    BY <1>2 DEF Setting, BeginSet, EndSet
  <2>2. raced' \in BOOLEAN
    <3>1. raced' = (raced \/ \E h \in Handler : Building(h))
      BY <1>2, SettingFrame
    <3>2. QED BY ONLY <3>1
  <2>3. UNCHANGED <<bufferVars, hpc, audio, mic, forced, cur, name, want,
                    model, closed, threadVars, stops, faults>>
    BY <1>2, SettingFrame
  <2>4. QED BY <2>1, <2>2, <2>3 DEF bufferVars, threadVars
<1>3. ASSUME NEW h \in Handler, Recording(h) PROVE TypeOK'
  <2>1. UNCHANGED BufferOnly
    BY <1>3, RecordingFrame
  <2>2. pcm' \in [Handler -> 0..MaxPcm \cup {NoAudio}]
        /\ said' \in [Handler -> 0..MaxPcm + 1]
    <3>1. CASE AudioStart(h) \/ Overflow(h) \/ Reconnect(h)
      <4>1. /\ pcm' = [pcm EXCEPT ![h] = 0] \/ pcm' = [pcm EXCEPT ![h] = NoAudio]
            /\ \/ said' = [said EXCEPT ![h] = 0]
               \/ said' = [said EXCEPT ![h] = MaxPcm + 1]
        BY <3>1 DEF AudioStart, Overflow, Reconnect
      <4>2. 0 \in 0..MaxPcm /\ {0, MaxPcm + 1} \subseteq 0..MaxPcm + 1
        OBVIOUS
      <4>3. said' \in [Handler -> 0..MaxPcm + 1]
        BY <4>1, <4>2
      <4>4. pcm' \in [Handler -> 0..MaxPcm \cup {NoAudio}]
        BY <4>1, <4>2
      <4>5. QED BY <4>3, <4>4
    <3>2. CASE AudioChunk(h)
      <4>1. pcm[h] \in 0..MaxPcm /\ pcm[h] < MaxPcm
            /\ pcm' = [pcm EXCEPT ![h] = pcm[h] + 1]
            /\ said' = [said EXCEPT ![h] = said[h] + 1]
        BY <3>2 DEF AudioChunk
      <4>2. pcm[h] + 1 \in 0..MaxPcm
        BY <4>1
      <4>3. said[h] + 1 \in 0..MaxPcm + 1
        <5>1. pcm[h] # NoAudio
          BY <4>1
        <5>2. said[h] = pcm[h]
          BY <5>1 DEF BufferIsSaid
        <5>3. QED BY <4>1, <5>2
      <4>4. QED BY <4>1, <4>2, <4>3
    <3>3. QED BY <1>3, <3>1, <3>2 DEF Recording
  <2>3. QED BY <2>1, <2>2 DEF BufferOnly, fileVars, modelVars, threadVars
<1>4. ASSUME NEW h \in Handler, AudioStop(h) PROVE TypeOK'
  <2>1. pcm' \in [Handler -> 0..MaxPcm \cup {NoAudio}]
        /\ said' \in [Handler -> 0..MaxPcm + 1]
        /\ audio' \in [Handler -> 0..MaxPcm]
        /\ mic' = "transcribing" /\ stops' \in 0..MaxStops
        /\ UNCHANGED <<fileVars, faults>>
    BY <1>4 DEF AudioStop, Snapshot, Chunks
  <2>2. CASE UpToDate /\ Submit(h, cur) /\ UNCHANGED modelVars
    BY <2>1, <2>2 DEF Submit, modelVars, fileVars
  <2>3. CASE /\ ~UpToDate /\ cur < MaxBuilds
             /\ want' = Resolved /\ raced' = FALSE
             /\ hpc' = [hpc EXCEPT ![h] = IF cur = 0 THEN "load" ELSE "close"]
             /\ UNCHANGED <<cur, name, model, closed, threadVars>>
    BY <1>0, <2>1, <2>3 DEF threadVars, fileVars
  <2>4. QED BY <1>4, <2>2, <2>3 DEF AudioStop
<1>5. ASSUME NEW h \in Handler, StopUnrecorded(h) PROVE TypeOK'
  <2>1. pcm' = [pcm EXCEPT ![h] = NoAudio] /\ said' = [said EXCEPT ![h] = 0]
        /\ stops' \in 0..MaxStops /\ faults' \in 0..MaxFaults
        /\ UNCHANGED <<hpc, audio, mic, fileVars, modelVars, threadVars>>
    BY <1>5 DEF StopUnrecorded
  <2>2. 0 \in 0..MaxPcm + 1
    OBVIOUS
  <2>3. pcm' \in [Handler -> 0..MaxPcm \cup {NoAudio}]
        /\ said' \in [Handler -> 0..MaxPcm + 1]
    BY <2>1, <2>2
  <2>4. QED BY <2>1, <2>3 DEF fileVars, modelVars, threadVars
<1>6. ASSUME NEW h \in Handler, CloseOld(h) PROVE TypeOK'
  <2>1. cur \in Transcriber
    BY <1>6 DEF CloseOld, OneBuilder
  <2>2. ready' \in [Transcriber -> SUBSET Stages]
    BY <1>6, <2>1 DEF CloseOld, LeftByClose
  <2>3. QED BY <1>6, <2>1, <2>2 DEF CloseOld, bufferVars, fileVars
<1>7. ASSUME NEW h \in Handler, Load(h) \/ LoadUnrecorded(h) PROVE TypeOK'
  <2>1. cur < MaxBuilds
    BY <1>7 DEF Load, LoadUnrecorded, OneBuilder, Building
  <2>2. /\ cur' \in 0..MaxBuilds /\ model' \in [Transcriber -> Model \cup {NoModel}]
        /\ name' \in Model \cup {NoModel} /\ want' = NoModel
        /\ UNCHANGED <<closed, raced>>
    <3>1. /\ cur' = cur + 1 /\ model' = [model EXCEPT ![cur'] = Resolved]
          /\ name' = want /\ want' = NoModel /\ UNCHANGED <<closed, raced>>
      BY <1>7 DEF Load, LoadUnrecorded, Build
    <3>2. cur' \in 0..MaxBuilds
      BY <2>1, <3>1
    <3>3. model' \in [Transcriber -> Model \cup {NoModel}]
      BY <1>0, <3>1
    <3>4. QED BY <3>1, <3>2, <3>3
  <2>3. CASE Load(h)
    BY <2>2, <2>3 DEF Load, Submit, bufferVars, fileVars
  <2>4. CASE LoadUnrecorded(h)
    <3>1. 0 \in 0..MaxPcm
      OBVIOUS
    <3>2. /\ hpc' = [hpc EXCEPT ![h] = "loop"] /\ audio' = [audio EXCEPT ![h] = 0]
          /\ mic' \in {"idle", mic} /\ faults' \in 0..MaxFaults
          /\ UNCHANGED <<bufferVars, fileVars, threadVars, stops>>
      BY <2>4 DEF LoadUnrecorded
    <3>3. audio' \in [Handler -> 0..MaxPcm]
      BY <3>1, <3>2
    <3>4. QED BY <2>2, <3>2, <3>3 DEF bufferVars, fileVars, threadVars
  <2>5. QED BY <1>7, <2>3, <2>4
<1>8. ASSUME NEW h \in Handler, Finish(h) PROVE TypeOK'
  <2>1. /\ hpc' = [hpc EXCEPT ![h] = "loop"] /\ tpc' = [tpc EXCEPT ![h] = "none"]
        /\ stage' = [stage EXCEPT ![h] = "primary"] /\ by' = [by EXCEPT ![h] = 0]
        /\ audio' = [audio EXCEPT ![h] = 0]
        /\ UNCHANGED <<bufferVars, fileVars, modelVars, ready, lock, after,
                       fails, stops>>
    BY <1>8 DEF Finish
  <2>2. mic' \in {"idle", mic} /\ faults' \in 0..MaxFaults
    BY <1>8 DEF Finish, MicAfter
  <2>3. 0 \in 0..MaxPcm /\ 0 \in 0..MaxBuilds
    OBVIOUS
  <2>4. audio' \in [Handler -> 0..MaxPcm] /\ by' \in [Handler -> 0..MaxBuilds]
    BY <2>1, <2>3
  <2>5. QED BY <2>1, <2>2, <2>4 DEF bufferVars, fileVars, modelVars
<1>9. ASSUME NEW h \in Handler, ThreadStep(h) PROVE TypeOK'
  <2>1. /\ UNCHANGED Elsewhere /\ UNCHANGED by
        /\ tpc[h] # "none" /\ tpc'[h] \in {"check", "use", "text", "error"}
        /\ tpc' = [tpc EXCEPT ![h] = tpc'[h]]
    BY <1>9, ThreadFrame
  <2>2. by[h] \in Transcriber
    BY <2>1 DEF ThreadIsAwaited
  <2>3. \/ UNCHANGED <<lock, stage>>
        \/ lock' = [lock EXCEPT ![by[h]] = h] /\ UNCHANGED stage
        \/ lock' = Unlock(h) /\ stage' \in {stage, [stage EXCEPT ![h] = "fallback"]}
    BY <1>9 DEF ThreadStep, Empty, Begin, Check, Use, UseClosed,
       SidecarFails, WhisperFails, Return, RaiseIn
  <2>4. \/ UNCHANGED ready
        \/ ready' = [ready EXCEPT ![by[h]] = @ \cup {stage[h]}]
        \/ ready' = [ready EXCEPT ![by[h]] = @ \ {"primary"}]
    BY <1>9 DEF ThreadStep, Empty, Begin, Check, Use, UseClosed,
       SidecarFails, WhisperFails
  <2>5. after' \subseteq Transcriber /\ fails' \in 0..MaxFails
    <3>1. after' = after \/ after' = after \cup {by[h]}
      BY <1>9 DEF ThreadStep, Empty, Begin, Check, Use, UseClosed,
         SidecarFails, WhisperFails
    <3>2. fails' = fails \/ (fails < MaxFails /\ fails' = fails + 1)
      BY <1>9 DEF ThreadStep, Empty, Begin, Check, Use, UseClosed,
         SidecarFails, WhisperFails
    <3>3. after' \subseteq Transcriber
      BY <2>2, <3>1
    <3>4. fails' \in 0..MaxFails
      BY <3>2
    <3>5. QED BY <3>3, <3>4
  <2>6. lock' \in [Transcriber -> Handler \cup {NoHandler}] /\ stage' \in [Handler -> Stages]
    <3>1. Unlock(h) \in [Transcriber -> Handler \cup {NoHandler}]
          /\ [lock EXCEPT ![by[h]] = h] \in [Transcriber -> Handler \cup {NoHandler}]
      BY <2>2 DEF Unlock
    <3>2. [stage EXCEPT ![h] = "fallback"] \in [Handler -> Stages]
      BY <2>2
    <3>3. QED BY <2>2, <2>3, <3>1, <3>2
  <2>7. ready' \in [Transcriber -> SUBSET Stages]
    <3>1. ready[by[h]] \subseteq Stages /\ stage[h] \in Stages
      BY <2>2
    <3>2. ready[by[h]] \cup {stage[h]} \in SUBSET Stages
          /\ ready[by[h]] \ {"primary"} \in SUBSET Stages
      BY <3>1
    <3>3. \A S \in SUBSET Stages :
            [ready EXCEPT ![by[h]] = S] \in [Transcriber -> SUBSET Stages]
      OBVIOUS
    <3>4. CASE UNCHANGED ready
      BY <3>4
    <3>5. CASE ready' = [ready EXCEPT ![by[h]] = @ \cup {stage[h]}]
      BY <3>2, <3>3, <3>5
    <3>6. CASE ready' = [ready EXCEPT ![by[h]] = @ \ {"primary"}]
      BY <3>2, <3>3, <3>6
    <3>7. QED BY <2>4, <3>4, <3>5, <3>6
  <2>8. tpc' \in [Handler -> {"none", "queued", "check", "use", "text", "error"}]
    BY <2>1
  <2>9. QED BY <2>1, <2>5, <2>6, <2>7, <2>8
        DEF Elsewhere, bufferVars, fileVars, modelVars
<1>q. QED BY <1>1, <1>2, <1>3, <1>4, <1>5, <1>6, <1>7, <1>8, <1>9, Steps

LEMMA OneBuilderStep ==
  TypeOK /\ OneBuilder /\ ThreadIsAwaited /\ [Next]_vars => OneBuilder'
<1> SUFFICES ASSUME TypeOK, OneBuilder, ThreadIsAwaited, [Next]_vars
             PROVE  OneBuilder'
  OBVIOUS
<1> USE Bounds
<1>0. hpc \in [Handler -> {"loop", "close", "load", "waiting"}] /\ cur \in 0..MaxBuilds
  BY DEF TypeOK
<1>1. CASE UNCHANGED <<hpc, cur>>
  BY <1>1 DEF OneBuilder, Building
<1>2. ASSUME NEW h \in Handler, AudioStop(h) PROVE OneBuilder'
  <2>1. \A g \in Handler : ~Building(g)
    BY <1>2 DEF AudioStop, InLoop, LoopIsFree, Building
  <2>2. cur' = cur
    BY <1>2 DEF AudioStop, modelVars
  <2>3. CASE Submit(h, cur)
    BY <1>0, <2>1, <2>2, <2>3 DEF Submit, OneBuilder, Building
  <2>4. CASE /\ cur < MaxBuilds
             /\ hpc' = [hpc EXCEPT ![h] = IF cur = 0 THEN "load" ELSE "close"]
    BY <1>0, <2>1, <2>2, <2>4 DEF OneBuilder, Building
  <2>5. QED BY <1>2, <2>3, <2>4 DEF AudioStop
<1>3. ASSUME NEW h \in Handler, CloseOld(h) PROVE OneBuilder'
  <2>1. /\ hpc[h] = "close" /\ hpc' = [hpc EXCEPT ![h] = "load"] /\ cur' = cur
    BY <1>3 DEF CloseOld
  <2>2. QED BY <1>0, <2>1 DEF OneBuilder, Building
<1>4. ASSUME NEW h \in Handler, Load(h) \/ LoadUnrecorded(h) PROVE OneBuilder'
  <2>1. /\ hpc[h] = "load"
        /\ \E s \in {"waiting", "loop"} : hpc' = [hpc EXCEPT ![h] = s]
    BY <1>4 DEF Load, LoadUnrecorded, Submit
  <2>2. \A g \in Handler : ~Building(g)'
    BY <1>0, <2>1 DEF OneBuilder, Building
  <2>3. QED BY <2>2 DEF OneBuilder, Building
<1>5. ASSUME NEW h \in Handler, Finish(h) PROVE OneBuilder'
  <2>1. /\ \A g \in Handler : ~Building(g)
        /\ hpc' = [hpc EXCEPT ![h] = "loop"]
    BY <1>5 DEF Finish, LoopIsFree, Building
  <2>2. \A g \in Handler : ~Building(g)'
    BY <1>0, <2>1 DEF Building
  <2>3. QED BY <2>2 DEF OneBuilder, Building
<1>6. ASSUME NEW h \in Handler, Recording(h) \/ StopUnrecorded(h) \/ ThreadStep(h)
      PROVE  OneBuilder'
  <2>1. UNCHANGED <<hpc, cur>>
    BY <1>6, RecordingFrame, ThreadFrame
       DEF BufferOnly, StopUnrecorded, Elsewhere, modelVars
  <2>2. QED BY <1>1, <2>1
<1>7. CASE UNCHANGED vars \/ Setting
  <2>1. UNCHANGED <<hpc, cur>>
    BY <1>7, SettingFrame DEF vars, modelVars
  <2>2. QED BY <1>1, <2>1
<1>q. QED BY <1>2, <1>3, <1>4, <1>5, <1>6, <1>7, Steps

LEMMA ThreadIsAwaitedStep ==
  TypeOK /\ OneBuilder /\ ThreadIsAwaited /\ [Next]_vars => ThreadIsAwaited'
<1> SUFFICES ASSUME TypeOK, OneBuilder, ThreadIsAwaited, [Next]_vars
             PROVE  ThreadIsAwaited'
  OBVIOUS
<1> USE Bounds
<1>0. /\ hpc \in [Handler -> {"loop", "close", "load", "waiting"}]
      /\ tpc \in [Handler -> {"none", "queued", "check", "use", "text", "error"}]
      /\ by \in [Handler -> 0..MaxBuilds] /\ cur \in 0..MaxBuilds
  BY DEF TypeOK
<1>1. CASE UNCHANGED <<hpc, tpc, by, cur, closed>>
  BY <1>1 DEF ThreadIsAwaited
<1>2. ASSUME NEW h \in Handler, AudioStop(h) PROVE ThreadIsAwaited'
  <2>1. hpc[h] = "loop" /\ UNCHANGED <<cur, closed>>
    BY <1>2 DEF AudioStop, InLoop, modelVars
  <2>2. CASE UpToDate /\ Submit(h, cur)
    BY <1>0, <2>1, <2>2 DEF Submit, UpToDate, ThreadIsAwaited
  <2>3. CASE /\ hpc' = [hpc EXCEPT ![h] = IF cur = 0 THEN "load" ELSE "close"]
             /\ UNCHANGED threadVars
    BY <1>0, <2>1, <2>3 DEF threadVars, ThreadIsAwaited
  <2>4. QED BY <1>2, <2>2, <2>3 DEF AudioStop
<1>3. ASSUME NEW h \in Handler, CloseOld(h) PROVE ThreadIsAwaited'
  <2>1. /\ hpc[h] = "close" /\ hpc' = [hpc EXCEPT ![h] = "load"]
        /\ closed' = closed \cup {cur} /\ UNCHANGED <<cur, tpc, by>>
    BY <1>3 DEF CloseOld
  <2>2. cur \in 1..cur
    BY <1>0, <2>1 DEF OneBuilder
  <2>3. QED BY <1>0, <2>1, <2>2 DEF ThreadIsAwaited
<1>4. ASSUME NEW h \in Handler, Load(h) \/ LoadUnrecorded(h) PROVE ThreadIsAwaited'
  <2>1. hpc[h] = "load" /\ tpc[h] = "none" /\ cur' = cur + 1 /\ closed' = closed
    BY <1>0, <1>4 DEF Load, LoadUnrecorded, Build, ThreadIsAwaited
  <2>2. 1..cur \subseteq 1..cur' /\ cur' \in 1..cur'
    BY <1>0, <2>1
  <2>3. \/ hpc' = [hpc EXCEPT ![h] = "loop"] /\ UNCHANGED <<tpc, by>>
        \/ /\ hpc' = [hpc EXCEPT ![h] = "waiting"]
           /\ tpc' = [tpc EXCEPT ![h] = "queued"] /\ by' = [by EXCEPT ![h] = cur']
    BY <1>4 DEF Load, LoadUnrecorded, Submit, threadVars
  <2>4. \A g \in Handler : hpc'[g] = "waiting" <=> tpc'[g] # "none"
    BY <1>0, <2>1, <2>3 DEF ThreadIsAwaited
  <2>5. \A g \in Handler : tpc'[g] # "none" => by'[g] \in 1..cur'
    BY <1>0, <2>1, <2>2, <2>3 DEF ThreadIsAwaited
  <2>6. closed' \subseteq 1..cur'
    BY <2>1, <2>2 DEF ThreadIsAwaited
  <2>7. QED BY <2>4, <2>5, <2>6 DEF ThreadIsAwaited
<1>5. ASSUME NEW h \in Handler, Finish(h) PROVE ThreadIsAwaited'
  <2>1. /\ hpc' = [hpc EXCEPT ![h] = "loop"] /\ tpc' = [tpc EXCEPT ![h] = "none"]
        /\ by' = [by EXCEPT ![h] = 0] /\ UNCHANGED <<cur, closed>>
    BY <1>5 DEF Finish, modelVars
  <2>2. QED BY <1>0, <2>1 DEF ThreadIsAwaited
<1>6. ASSUME NEW h \in Handler, ThreadStep(h) PROVE ThreadIsAwaited'
  <2>1. /\ UNCHANGED <<hpc, by, cur, closed>> /\ tpc[h] # "none" /\ tpc'[h] # "none"
        /\ tpc' = [tpc EXCEPT ![h] = tpc'[h]]
    BY <1>6, ThreadFrame DEF Elsewhere, modelVars
  <2>2. QED BY <1>0, <2>1 DEF ThreadIsAwaited
<1>7. ASSUME NEW h \in Handler, Recording(h) \/ StopUnrecorded(h)
      PROVE  ThreadIsAwaited'
  <2>1. UNCHANGED <<hpc, tpc, by, cur, closed>>
    BY <1>7, RecordingFrame DEF BufferOnly, StopUnrecorded, modelVars, threadVars
  <2>2. QED BY <1>1, <2>1
<1>8. CASE UNCHANGED vars \/ Setting
  <2>1. UNCHANGED <<hpc, tpc, by, cur, closed>>
    BY <1>8, SettingFrame DEF vars, modelVars, threadVars
  <2>2. QED BY <1>1, <2>1
<1>q. QED BY <1>2, <1>3, <1>4, <1>5, <1>6, <1>7, <1>8, Steps

LEMMA BufferIsSaidStep ==
  TypeOK /\ BufferIsSaid /\ [Next]_vars => BufferIsSaid'
<1> SUFFICES ASSUME TypeOK, BufferIsSaid, [Next]_vars PROVE BufferIsSaid'
  OBVIOUS
<1>0. /\ pcm \in [Handler -> 0..MaxPcm \cup {NoAudio}]
      /\ said \in [Handler -> 0..MaxPcm + 1]
  BY DEF TypeOK
<1>1. CASE UNCHANGED <<pcm, said>>
  BY <1>1 DEF BufferIsSaid
<1>2. ASSUME NEW h \in Handler, Recording(h) PROVE BufferIsSaid'
  BY <1>0, <1>2, Bounds DEF BufferIsSaid, Recording, AudioStart, AudioChunk,
     Overflow, Reconnect
<1>3. ASSUME NEW h \in Handler, AudioStop(h) \/ StopUnrecorded(h)
      PROVE  BufferIsSaid'
  <2>1. pcm' = [pcm EXCEPT ![h] = NoAudio] /\ said' = [said EXCEPT ![h] = 0]
    BY <1>3 DEF AudioStop, StopUnrecorded, Snapshot
  <2>2. QED BY <1>0, <2>1 DEF BufferIsSaid
<1>4. ASSUME NEW h \in Handler,
             \/ CloseOld(h) \/ Load(h) \/ LoadUnrecorded(h) \/ Finish(h)
             \/ ThreadStep(h)
      PROVE  BufferIsSaid'
  <2>1. UNCHANGED <<pcm, said>>
    BY <1>4, ThreadFrame DEF CloseOld, Load, LoadUnrecorded, Finish, Elsewhere,
       bufferVars
  <2>2. QED BY <1>1, <2>1
<1>5. CASE UNCHANGED vars \/ Setting
  <2>1. UNCHANGED <<pcm, said>>
    BY <1>5, SettingFrame DEF vars, bufferVars
  <2>2. QED BY <1>1, <2>1
<1>q. QED BY <1>2, <1>3, <1>4, <1>5, Steps

LEMMA NameIsModelsStep ==
  TypeOK /\ OneBuilder /\ NameIsModels /\ [Next]_vars => NameIsModels'
<1> SUFFICES ASSUME TypeOK, OneBuilder, NameIsModels, [Next]_vars
             PROVE  NameIsModels'
  OBVIOUS
<1> USE Bounds
<1>0. /\ hpc \in [Handler -> {"loop", "close", "load", "waiting"}]
      /\ model \in [Transcriber -> Model \cup {NoModel}] /\ cur \in 0..MaxBuilds
  BY DEF TypeOK
<1>1. CASE UNCHANGED <<hpc, cur, name, want, model, raced, forced, file, writing>>
  BY <1>1 DEF NameIsModels, FileRaced, Building, LoopIsFree, Resolved, Active
<1>2. ASSUME NEW h \in Handler, AudioStop(h) PROVE NameIsModels'
  <2>1. LoopIsFree /\ Resolved' = Resolved /\ forced' = forced
    BY <1>2 DEF AudioStop, InLoop, fileVars, Resolved, Active
  <2>2. CASE Submit(h, cur) /\ UNCHANGED modelVars
    <3>1. hpc' = [hpc EXCEPT ![h] = "waiting"]
      BY <2>2 DEF Submit
    <3>2. \A g \in Handler : ~Building(g)'
      BY <1>0, <2>1, <3>1 DEF LoopIsFree, Building
    <3>3. QED BY <2>1, <2>2, <3>2 DEF NameIsModels, FileRaced, modelVars
  <2>3. CASE /\ want' = Resolved
             /\ hpc' = [hpc EXCEPT ![h] = IF cur = 0 THEN "load" ELSE "close"]
    <3>1. hpc'[h] \in {"close", "load"}
      BY <1>0, <2>3
    <3>2. ~LoopIsFree'
      BY <3>1 DEF LoopIsFree
    <3>3. QED BY <2>1, <2>3, <3>2 DEF NameIsModels, FileRaced
  <2>4. QED BY <1>2, <2>2, <2>3 DEF AudioStop
<1>3. ASSUME NEW h \in Handler, CloseOld(h) PROVE NameIsModels'
  <2>1. /\ hpc[h] = "close" /\ hpc' = [hpc EXCEPT ![h] = "load"]
        /\ UNCHANGED <<fileVars, cur, name, want, model, raced>>
    BY <1>3 DEF CloseOld
  <2>2. \A g \in Handler : Building(g)' <=> Building(g)
    BY <1>0, <2>1 DEF Building
  <2>3. ~LoopIsFree'
    BY <1>0, <2>1 DEF LoopIsFree
  <2>4. Resolved' = Resolved
    BY <2>1 DEF Resolved, Active, fileVars
  <2>5. QED BY <2>1, <2>2, <2>3, <2>4 DEF NameIsModels, FileRaced, fileVars
<1>4. ASSUME NEW h \in Handler, Load(h) \/ LoadUnrecorded(h) PROVE NameIsModels'
  <2>1. /\ hpc[h] = "load"
        /\ \E s \in {"waiting", "loop"} : hpc' = [hpc EXCEPT ![h] = s]
    BY <1>4 DEF Load, LoadUnrecorded, Submit
  <2>2. \A g \in Handler : ~Building(g)'
    BY <1>0, <2>1 DEF OneBuilder, Building
  <2>3. /\ cur' = cur + 1 /\ model' = [model EXCEPT ![cur'] = Resolved]
        /\ name' = want /\ raced' = raced /\ forced' = forced
    BY <1>4 DEF Load, LoadUnrecorded, Build, fileVars
  <2>4. cur' \in Transcriber
    BY <1>0, <2>1, <2>3 DEF OneBuilder, Building, Transcriber
  <2>5. model'[cur'] = Resolved
    BY <1>0, <2>3, <2>4
  <2>6. FileRaced \/ want = Resolved
    BY <2>1 DEF NameIsModels, Building
  <2>7. QED BY <2>2, <2>3, <2>5, <2>6 DEF NameIsModels, FileRaced
<1>5. ASSUME NEW h \in Handler, Finish(h) PROVE NameIsModels'
  <2>1. /\ LoopIsFree /\ hpc' = [hpc EXCEPT ![h] = "loop"] /\ UNCHANGED <<modelVars, forced>>
    BY <1>5 DEF Finish, fileVars
  <2>2. \A g \in Handler : ~Building(g)'
    BY <1>0, <2>1 DEF LoopIsFree, Building
  <2>3. QED BY <2>1, <2>2 DEF NameIsModels, FileRaced, modelVars
<1>6. CASE Setting
  <2>1. UNCHANGED <<hpc, forced, cur, name, want, model>>
    BY <1>6, SettingFrame
  <2>2. raced' = (raced \/ \E h \in Handler : Building(h))
    BY <1>6, SettingFrame
  <2>3. \A h \in Handler : Building(h)' => raced'
    BY <2>1, <2>2 DEF Building
  <2>4. forced # NoModel => Resolved' = Resolved
    BY <2>1 DEF Resolved
  <2>5. \A h \in Handler : Building(h)' => FileRaced' \/ want' = Resolved'
    BY <2>1, <2>3, <2>4 DEF NameIsModels, FileRaced, Building
  <2>6. cur' # 0 /\ LoopIsFree' => FileRaced' \/ model'[cur'] = name'
    BY <2>1, <2>2 DEF NameIsModels, FileRaced, LoopIsFree
  <2>7. QED BY <2>5, <2>6 DEF NameIsModels
<1>7. ASSUME NEW h \in Handler, Recording(h) \/ StopUnrecorded(h) \/ ThreadStep(h)
      PROVE  NameIsModels'
  <2>1. UNCHANGED <<hpc, cur, name, want, model, raced, forced, file, writing>>
    BY <1>7, RecordingFrame, ThreadFrame
       DEF BufferOnly, StopUnrecorded, Elsewhere, modelVars, fileVars
  <2>2. QED BY <1>1, <2>1
<1>8. CASE UNCHANGED vars
  BY <1>1, <1>8 DEF vars, modelVars, fileVars
<1>q. QED BY <1>2, <1>3, <1>4, <1>5, <1>6, <1>7, <1>8, Steps

LEMMA MicSettlesStep ==
  TypeOK /\ MicSettles /\ [Next]_vars => MicSettles'
<1> SUFFICES ASSUME TypeOK, MicSettles, [Next]_vars PROVE MicSettles'
  OBVIOUS
<1>0. hpc \in [Handler -> {"loop", "close", "load", "waiting"}]
      /\ faults \in Nat
  BY Bounds DEF TypeOK
<1>1. CASE UNCHANGED <<hpc, mic>> /\ faults' \in {faults, faults + 1}
  BY <1>0, <1>1 DEF MicSettles
<1>2. ASSUME NEW h \in Handler,
             AudioStop(h) \/ CloseOld(h) \/ Load(h)
      PROVE  MicSettles'
  <2>1. \E s \in {"close", "load", "waiting"} : hpc' = [hpc EXCEPT ![h] = s]
    BY <1>2 DEF AudioStop, CloseOld, Load, Submit
  <2>2. hpc'[h] # "loop"
    BY <1>0, <2>1
  <2>3. QED BY <2>2 DEF MicSettles
<1>3. ASSUME NEW h \in Handler, LoadUnrecorded(h) \/ Finish(h) PROVE MicSettles'
  <2>1. mic' = "idle" \/ faults' = faults + 1
    BY <1>3 DEF LoadUnrecorded, Finish, MicAfter
  <2>2. QED BY <1>0, <2>1 DEF MicSettles
<1>4. ASSUME NEW h \in Handler, Recording(h) \/ StopUnrecorded(h) \/ ThreadStep(h)
      PROVE  MicSettles'
  <2>1. UNCHANGED <<hpc, mic>> /\ faults' \in {faults, faults + 1}
    BY <1>4, RecordingFrame, ThreadFrame DEF BufferOnly, StopUnrecorded, Elsewhere
  <2>2. QED BY <1>1, <2>1
<1>5. CASE UNCHANGED vars \/ Setting
  <2>1. UNCHANGED <<hpc, mic, faults>>
    BY <1>5, SettingFrame DEF vars
  <2>2. QED BY <1>1, <2>1
<1>q. QED BY <1>2, <1>3, <1>4, <1>5, Steps
-----------------------------------------------------------------------------
(* The steps that hand a recording over, give it back or build a           *)
(* transcriber change no thread that is at work.                           *)

(* Threads at work, and what they rest on, are unaffected.                 *)
WorkersKept ==
  /\ \A h \in Handler : tpc'[h] \in {"check", "use", "error"} =>
       /\ tpc[h] = tpc'[h] /\ stage[h] = stage'[h]
       /\ by[h] = by'[h] /\ by'[h] \in 1..cur
  /\ \A t \in 1..cur : model'[t] = model[t]
  /\ closed' = closed /\ ready' = ready /\ lock' = lock /\ after' = after
  /\ fails' = fails /\ closed \subseteq 1..cur

LEMMA LoopKeepsWorkers ==
  ASSUME TypeOK, OneBuilder, ThreadIsAwaited, NEW h \in Handler,
         \/ Recording(h) \/ AudioStop(h) \/ StopUnrecorded(h)
         \/ Load(h) \/ LoadUnrecorded(h) \/ Finish(h)
  PROVE  WorkersKept
<1> USE Bounds
<1>0. /\ tpc \in [Handler -> {"none", "queued", "check", "use", "text", "error"}]
      /\ by \in [Handler -> 0..MaxBuilds] /\ cur \in 0..MaxBuilds
      /\ stage \in [Handler -> Stages]
      /\ model \in [Transcriber -> Model \cup {NoModel}]
  BY DEF TypeOK
<1>1. \A g \in Handler : tpc[g] \in {"check", "use", "error"} => by[g] \in 1..cur
      /\ closed \subseteq 1..cur
  BY DEF ThreadIsAwaited
<1>2. CASE UNCHANGED <<tpc, stage, by, ready, lock, after, fails, model, closed>>
  BY <1>1, <1>2 DEF WorkersKept, ThreadIsAwaited
<1>3. CASE Recording(h) \/ StopUnrecorded(h)
  <2>1. UNCHANGED <<tpc, stage, by, ready, lock, after, fails, model, closed>>
    BY <1>3, RecordingFrame DEF BufferOnly, StopUnrecorded, threadVars, modelVars
  <2>2. QED BY <1>2, <2>1
<1>4. CASE AudioStop(h)
  <2>1. \/ UNCHANGED <<tpc, by>>
        \/ \E t \in Nat : tpc' = [tpc EXCEPT ![h] = "queued"] /\ by' = [by EXCEPT ![h] = t]
    BY <1>0, <1>4 DEF AudioStop, Submit, threadVars
  <2>2. UNCHANGED <<stage, ready, lock, after, fails, model, closed>>
    BY <1>4 DEF AudioStop, Submit, threadVars, modelVars
  <2>3. QED BY <1>0, <1>1, <2>1, <2>2 DEF WorkersKept, ThreadIsAwaited
<1>5. CASE Load(h) \/ LoadUnrecorded(h)
  <2>1. \/ UNCHANGED <<tpc, by>>
        \/ \E t \in Nat : tpc' = [tpc EXCEPT ![h] = "queued"] /\ by' = [by EXCEPT ![h] = t]
    BY <1>0, <1>5 DEF Load, LoadUnrecorded, Build, Submit, threadVars
  <2>2. /\ UNCHANGED <<stage, ready, lock, after, fails, closed>>
        /\ cur' = cur + 1 /\ model' = [model EXCEPT ![cur'] = Resolved]
    BY <1>5 DEF Load, LoadUnrecorded, Build, Submit, threadVars
  <2>3. \A t \in 1..cur : model'[t] = model[t]
    BY <1>0, <2>2 DEF Transcriber
  <2>4. QED BY <1>0, <1>1, <2>1, <2>2, <2>3 DEF WorkersKept, ThreadIsAwaited
<1>6. CASE Finish(h)
  <2>1. /\ tpc' = [tpc EXCEPT ![h] = "none"] /\ stage' = [stage EXCEPT ![h] = "primary"]
        /\ by' = [by EXCEPT ![h] = 0]
        /\ UNCHANGED <<ready, lock, after, fails, model, closed>>
    BY <1>6 DEF Finish, modelVars
  <2>2. QED BY <1>0, <1>1, <2>1 DEF WorkersKept, ThreadIsAwaited
<1>7. QED BY <1>3, <1>4, <1>5, <1>6

LEMMA WorkerSteps ==
  ASSUME TypeOK, OneBuilder, ThreadIsAwaited, [Next]_vars
  PROVE  WorkersKept \/ \E h \in Handler : CloseOld(h) \/ ThreadStep(h)
<1>1. CASE UNCHANGED vars \/ Setting
  <2>1. UNCHANGED <<tpc, stage, by, ready, lock, after, fails, model, closed>>
    BY <1>1, SettingFrame DEF vars, threadVars, modelVars
  <2>2. QED BY <2>1 DEF WorkersKept, ThreadIsAwaited
<1>2. QED BY <1>1, LoopKeepsWorkers, Steps

LEMMA LockIsHeldStep ==
  TypeOK /\ OneBuilder /\ ThreadIsAwaited /\ LockIsHeld /\ [Next]_vars
    => LockIsHeld'
<1> SUFFICES ASSUME TypeOK, OneBuilder, ThreadIsAwaited, LockIsHeld, [Next]_vars
             PROVE  LockIsHeld'
  OBVIOUS
<1> USE Bounds
<1>0. /\ tpc \in [Handler -> {"none", "queued", "check", "use", "text", "error"}]
      /\ lock \in [Transcriber -> Handler \cup {NoHandler}]
      /\ stage \in [Handler -> Stages] /\ cur \in 0..MaxBuilds
  BY DEF TypeOK
<1>1. \A g \in Handler : tpc[g] # "none" => by[g] \in Transcriber
  BY <1>0 DEF ThreadIsAwaited, Transcriber
<1>2. CASE WorkersKept
  <2>1. \A g \in Handler : Inside(g)' => Inside(g) /\ by'[g] = by[g]
    BY <1>2 DEF WorkersKept, Inside, Locked
  <2>2. QED BY <1>2, <2>1 DEF WorkersKept, LockIsHeld
<1>3. ASSUME NEW h \in Handler, CloseOld(h) PROVE LockIsHeld'
  <2>1. /\ lock[cur] = NoHandler /\ closed' = closed \cup {cur}
        /\ UNCHANGED <<tpc, stage, by, model, lock, after>>
    BY <1>3 DEF CloseOld
  <2>2. \A g \in Handler : Inside(g)' <=> Inside(g)
    BY <2>1 DEF Inside, Locked
  <2>3. \A g \in Handler : Inside(g) => by[g] # cur
    BY <2>1 DEF LockIsHeld
  <2>4. QED BY <2>1, <2>2, <2>3 DEF LockIsHeld
<1>4. ASSUME NEW h \in Handler, ThreadStep(h) PROVE LockIsHeld'
  <2>1. /\ UNCHANGED <<model, closed, by>> /\ tpc[h] \in {"queued", "check", "use"}
        /\ tpc' = [tpc EXCEPT ![h] = tpc'[h]]
        /\ stage' = [stage EXCEPT ![h] = stage'[h]]
    BY <1>4, ThreadFrame DEF Elsewhere, modelVars
  <2>2. \A g \in Handler : g # h => (Inside(g)' <=> Inside(g))
    BY <1>0, <2>1 DEF Inside, Locked
  <2>3. CASE Begin(h)
    <3>1. /\ Locked(h) => lock[by[h]] = NoHandler
          /\ lock' = IF Locked(h) THEN [lock EXCEPT ![by[h]] = h] ELSE lock
          /\ after' = IF by[h] \in closed THEN after \cup {by[h]} ELSE after
          /\ stage' = stage
      BY <2>3 DEF Begin
    <3>2. \A g \in Handler : g # h /\ Inside(g)' =>
            lock'[by'[g]] = g /\ (by'[g] \in closed' => by'[g] \in after')
      BY <1>0, <1>1, <2>1, <2>2, <3>1 DEF LockIsHeld
    <3>3. Inside(h)' => lock'[by'[h]] = h /\ (by'[h] \in closed' => by'[h] \in after')
      BY <1>0, <1>1, <2>1, <3>1 DEF Inside, Locked
    <3>4. QED BY <3>2, <3>3 DEF LockIsHeld
  <2>4. CASE Check(h)
    <3>1. UNCHANGED <<lock, after, stage>> /\ tpc[h] = "check"
      BY <2>4 DEF Check
    <3>2. Inside(h)' => Inside(h)
      BY <2>1, <3>1 DEF Inside, Locked
    <3>3. QED BY <2>1, <2>2, <3>1, <3>2 DEF LockIsHeld
  <2>5. CASE Empty(h)
    <3>1. UNCHANGED <<lock, after, stage>> /\ tpc'[h] = "text"
      BY <1>0, <2>5 DEF Empty
    <3>2. QED BY <2>1, <2>2, <3>1 DEF LockIsHeld, Inside
  <2>6. CASE Use(h) \/ UseClosed(h) \/ SidecarFails(h) \/ WhisperFails(h)
    <3>1. lock' = Unlock(h) /\ after' = after /\ tpc[h] \in {"check", "use"}
      BY <2>6 DEF Use, Return, UseClosed, SidecarFails, WhisperFails, RaiseIn
    <3>2. tpc'[h] \in {"text", "error"} \/ stage'[h] = "fallback"
      BY <1>0, <2>6 DEF Use, Return, UseClosed, SidecarFails, WhisperFails, RaiseIn
    <3>3. ~Inside(h)'
      BY <3>2 DEF Inside, Locked
    <3>4. ASSUME NEW g \in Handler, g # h, Inside(g) PROVE lock'[by[g]] = g
      <4>1. lock[by[g]] = g
        BY <3>4 DEF LockIsHeld
      <4>2. CASE Locked(h)
        <5>1. lock[by[h]] = h
          BY <3>1, <4>2 DEF LockIsHeld, Inside
        <5>2. by[g] # by[h]
          BY <3>4, <4>1, <5>1
        <5>3. QED BY <1>0, <1>1, <3>1, <4>1, <4>2, <5>2 DEF Unlock
      <4>3. CASE ~Locked(h)
        BY <3>1, <4>1, <4>3 DEF Unlock
      <4>4. QED BY <4>2, <4>3
    <3>5. QED BY <2>1, <2>2, <3>1, <3>3, <3>4 DEF LockIsHeld
  <2>7. QED BY <1>4, <2>3, <2>4, <2>5, <2>6 DEF ThreadStep
<1>q. QED BY <1>2, <1>3, <1>4, WorkerSteps

LEMMA FallbackIsReadyStep ==
  TypeOK /\ OneBuilder /\ ThreadIsAwaited /\ FallbackIsReady /\ [Next]_vars
    => FallbackIsReady'
<1> SUFFICES ASSUME TypeOK, OneBuilder, ThreadIsAwaited, FallbackIsReady,
                    [Next]_vars
             PROVE  FallbackIsReady'
  OBVIOUS
<1> USE Bounds
<1>0. /\ tpc \in [Handler -> {"none", "queued", "check", "use", "text", "error"}]
      /\ ready \in [Transcriber -> SUBSET Stages]
      /\ stage \in [Handler -> Stages] /\ cur \in 0..MaxBuilds
  BY DEF TypeOK
<1>1. \A g \in Handler : tpc[g] # "none" => by[g] \in Transcriber
  BY <1>0 DEF ThreadIsAwaited, Transcriber
<1>2. CASE WorkersKept
  BY <1>2 DEF WorkersKept, FallbackIsReady
<1>3. ASSUME NEW h \in Handler, CloseOld(h) PROVE FallbackIsReady'
  <2>1. /\ closed' = closed \cup {cur} /\ UNCHANGED <<tpc, stage, by>>
        /\ \A t \in Transcriber : t # cur => ready'[t] = ready[t]
    BY <1>0, <1>3 DEF CloseOld
  <2>2. QED BY <1>1, <2>1 DEF FallbackIsReady
<1>4. ASSUME NEW h \in Handler, ThreadStep(h) PROVE FallbackIsReady'
  <2>1. /\ UNCHANGED <<closed, by>> /\ tpc[h] \in {"queued", "check", "use"}
        /\ tpc' = [tpc EXCEPT ![h] = tpc'[h]]
        /\ stage' = [stage EXCEPT ![h] = stage'[h]]
    BY <1>4, ThreadFrame DEF Elsewhere, modelVars
  <2>2. \A t \in Transcriber : "fallback" \in ready[t] => "fallback" \in ready'[t]
    BY <1>0, <1>1, <1>4, <2>1 DEF ThreadStep, Empty, Begin, Check, Use, UseClosed,
       SidecarFails, WhisperFails
  <2>3. tpc'[h] = "use" /\ stage'[h] = "fallback" => "fallback" \in ready'[by[h]]
    <3>1. CASE Check(h)
      BY <1>0, <1>1, <3>1 DEF Check
    <3>2. CASE ~Check(h)
      <4>1. tpc'[h] # "use"
        BY <1>0, <1>4, <3>2 DEF ThreadStep, Empty, Begin, Use, Return, UseClosed,
           SidecarFails, WhisperFails, RaiseIn
      <4>2. QED BY <4>1
    <3>3. QED BY <3>1, <3>2
  <2>4. QED BY <1>0, <1>1, <2>1, <2>2, <2>3 DEF FallbackIsReady
<1>q. QED BY <1>2, <1>3, <1>4, WorkerSteps

LEMMA TextUnlessClosedStep ==
  TypeOK /\ OneBuilder /\ ThreadIsAwaited /\ FallbackIsReady
  /\ TextUnlessClosed /\ [Next]_vars
    => TextUnlessClosed'
<1> SUFFICES ASSUME TypeOK, OneBuilder, ThreadIsAwaited, FallbackIsReady,
                    TextUnlessClosed, [Next]_vars
             PROVE  TextUnlessClosed'
  OBVIOUS
<1>0. /\ tpc \in [Handler -> {"none", "queued", "check", "use", "text", "error"}]
      /\ stage \in [Handler -> Stages] /\ fails \in Nat
  BY Bounds DEF TypeOK
<1>1. CASE WorkersKept
  BY <1>1 DEF WorkersKept, TextUnlessClosed
<1>2. ASSUME NEW h \in Handler, CloseOld(h) PROVE TextUnlessClosed'
  BY <1>2 DEF CloseOld, TextUnlessClosed
<1>3. ASSUME NEW h \in Handler, ThreadStep(h) PROVE TextUnlessClosed'
  <2>1. /\ UNCHANGED <<closed, by>> /\ tpc' = [tpc EXCEPT ![h] = tpc'[h]]
    BY <1>3, ThreadFrame DEF Elsewhere, modelVars
  <2>2. fails' \in {fails, fails + 1}
    BY <1>3 DEF ThreadStep, Empty, Begin, Check, Use, UseClosed, SidecarFails,
       WhisperFails
  <2>3. tpc'[h] = "error" => fails' > 0 \/ by[h] \in closed
    <3>1. CASE WhisperFails(h)
      BY <1>0, <3>1 DEF WhisperFails
    <3>2. CASE UseClosed(h)
      BY <1>0, <3>2 DEF UseClosed, RaiseIn, FallbackIsReady
    <3>3. CASE SidecarFails(h)
      BY <1>0, <3>3 DEF SidecarFails, RaiseIn, Locked
    <3>4. CASE Empty(h) \/ Begin(h) \/ Check(h) \/ Use(h)
      BY <1>0, <3>4 DEF Empty, Begin, Check, Use, Return
    <3>5. QED BY <1>3, <3>1, <3>2, <3>3, <3>4 DEF ThreadStep
  <2>4. QED BY <1>0, <2>1, <2>2, <2>3 DEF TextUnlessClosed
<1>q. QED BY <1>1, <1>2, <1>3, WorkerSteps

LEMMA ClosedHasNoProcessStep ==
  TypeOK /\ OneBuilder /\ ThreadIsAwaited /\ LockIsHeld
  /\ ClosedHasNoProcess /\ [Next]_vars
    => ClosedHasNoProcess'
<1> SUFFICES ASSUME TypeOK, OneBuilder, ThreadIsAwaited, LockIsHeld,
                    ClosedHasNoProcess, [Next]_vars
             PROVE  ClosedHasNoProcess'
  OBVIOUS
<1> USE Bounds
<1>0. /\ ready \in [Transcriber -> SUBSET Stages] /\ cur \in 0..MaxBuilds
      /\ closed \subseteq Transcriber /\ stage \in [Handler -> Stages]
  BY DEF TypeOK
<1>1. \A g \in Handler : tpc[g] # "none" => by[g] \in Transcriber
  BY <1>0 DEF ThreadIsAwaited, Transcriber
<1>2. CASE WorkersKept
  BY <1>2 DEF WorkersKept, ClosedHasNoProcess
<1>3. ASSUME NEW h \in Handler, CloseOld(h) PROVE ClosedHasNoProcess'
  <2>1. cur \in Transcriber
    BY <1>0, <1>3 DEF CloseOld, OneBuilder, Transcriber
  <2>2. /\ closed' = closed \cup {cur} /\ UNCHANGED <<model, after>>
        /\ ready'[cur] = {}
        /\ \A t \in Transcriber : t # cur => ready'[t] = ready[t]
    BY <1>0, <1>3, <2>1 DEF CloseOld, LeftByClose
  <2>3. QED BY <1>0, <2>2 DEF ClosedHasNoProcess
<1>4. ASSUME NEW h \in Handler, ThreadStep(h) PROVE ClosedHasNoProcess'
  <2>1. UNCHANGED <<model, closed, by>> /\ tpc[h] # "none"
    BY <1>4, ThreadFrame DEF Elsewhere, modelVars
  <2>2. after \subseteq after'
    BY <1>4 DEF ThreadStep, Empty, Begin, Check, Use, UseClosed, SidecarFails,
       WhisperFails
  <2>3. CASE Check(h) /\ stage[h] = "primary"
    <3>1. \A t \in Transcriber : t # by[h] => ready'[t] = ready[t]
      BY <1>0, <1>1, <2>1, <2>3 DEF Check
    <3>2. by[h] \in closed /\ model[by[h]] \in Fluid => by[h] \in after
      BY <2>3 DEF Check, LockIsHeld, Inside, Locked
    <3>3. QED BY <1>0, <2>1, <2>2, <3>1, <3>2 DEF ClosedHasNoProcess
  <2>4. CASE ~(Check(h) /\ stage[h] = "primary")
    <3>1. \A t \in Transcriber : "primary" \in ready'[t] => "primary" \in ready[t]
      BY <1>0, <1>1, <1>4, <2>1, <2>4 DEF ThreadStep, Empty, Begin, Check, Use,
         UseClosed, SidecarFails, WhisperFails
    <3>2. QED BY <1>0, <2>1, <2>2, <3>1 DEF ClosedHasNoProcess
  <2>5. QED BY <2>3, <2>4
<1>q. QED BY <1>2, <1>3, <1>4, WorkerSteps
-----------------------------------------------------------------------------
(* The theorems.                                                           *)

(* The inductive invariant holds in every reachable state.                 *)
THEOREM Inductive == Spec => []IInv
<1>1. Init => IInv
  BY Initially
<1>2. IInv /\ [Next]_vars => IInv'
  BY TypeOKStep, OneBuilderStep, ThreadIsAwaitedStep, BufferIsSaidStep,
     NameIsModelsStep, LockIsHeldStep, FallbackIsReadyStep,
     TextUnlessClosedStep, MicSettlesStep, ClosedHasNoProcessStep DEF IInv
<1>3. QED BY <1>1, <1>2, PTL DEF Spec

(* The state of handlers, threads and transcribers is well-typed.          *)
THEOREM TypeCorrect == Spec => []TypeOK
<1>1. IInv => TypeOK
  BY DEF IInv
<1>2. QED BY <1>1, Inductive, PTL

(* However sidecars fail, a voice command ends with a transcript unless    *)
(* whisper fails or its transcriber was closed (FallbackTranscriber).      *)
THEOREM TextUnlessClosedCorrect == Spec => []TextUnlessClosed
<1>1. IInv => TextUnlessClosed
  BY DEF IInv
<1>2. QED BY <1>1, Inductive, PTL

(* The status file says "transcribing" only while a command is handled     *)
(* (the finally of on_audio).                                              *)
THEOREM MicSettlesCorrect == Spec => []MicSettles
<1>1. IInv => MicSettles
  BY DEF IInv
<1>2. QED BY <1>1, Inductive, PTL

(* A closed transcriber keeps no sidecar process, unless a command queued  *)
(* for it started one (close, _get_transcriber).                           *)
THEOREM ClosedHasNoProcessCorrect == Spec => []ClosedHasNoProcess
<1>1. IInv => ClosedHasNoProcess
  BY DEF IInv
<1>2. QED BY <1>1, Inductive, PTL

(* For recordings of any length and any failures, a whole recording or     *)
(* nothing is handed over, once (the handler of server.py, on_audio).      *)
THEOREM WholeOnceOrNothingCorrect == Spec => WholeOnceOrNothing
<1>1. IInv /\ [Next]_vars =>
        [\A h \in Handler : audio'[h] \in {0, audio[h], said[h]}]_vars
  <2> SUFFICES ASSUME IInv, [Next]_vars
               PROVE  [\A h \in Handler : audio'[h] \in {0, audio[h], said[h]}]_vars
    OBVIOUS
  <2>0. TypeOK /\ BufferIsSaid /\ audio \in [Handler -> 0..MaxPcm]
    BY DEF IInv, TypeOK
  <2>1. ASSUME NEW h \in Handler, AudioStop(h)
        PROVE  \A g \in Handler : audio'[g] \in {0, audio[g], said[g]}
    BY <2>0, <2>1 DEF AudioStop, Snapshot, Chunks, BufferIsSaid
  <2>2. ASSUME NEW h \in Handler, LoadUnrecorded(h) \/ Finish(h)
        PROVE  \A g \in Handler : audio'[g] \in {0, audio[g], said[g]}
    BY <2>0, <2>2 DEF LoadUnrecorded, Finish
  <2>3. ASSUME NEW h \in Handler,
               \/ Recording(h) \/ StopUnrecorded(h) \/ CloseOld(h) \/ Load(h)
               \/ ThreadStep(h)
        PROVE  UNCHANGED audio
    BY <2>0, <2>3, RecordingFrame, ThreadFrame DEF BufferOnly, StopUnrecorded,
       CloseOld, Load, Elsewhere
  <2>4. CASE Setting
    BY <2>4, SettingFrame
  <2>5. QED BY <2>1, <2>2, <2>3, <2>4, Steps
<1>2. QED BY <1>1, Inductive, PTL DEF Spec, WholeOnceOrNothing

(* However models are set, commands overlap and transcribers are built, a  *)
(* recording goes to a transcriber of the model the user has set, except   *)
(* for the two cases of the state file that SetTakesEffect names           *)
(* (_get_transcriber, resolve_active_name).                                *)
THEOREM SetTakesEffectCorrect == Spec => SetTakesEffect
<1> DEFINE Follows(h) ==
      \/ model'[by'[h]] = SetModel
      \/ /\ forced = NoModel
         /\ raced' \/ (writing # NoModel /\ model'[by'[h]] = Default)
<1>1. IInv /\ [Next]_vars => [\A h \in Handler : HandedOver(h) => Follows(h)]_vars
  <2> SUFFICES ASSUME IInv, [Next]_vars, NEW g \in Handler, HandedOver(g)
               PROVE  Follows(g)
    OBVIOUS
  <2> USE Bounds
  <2>0. /\ TypeOK /\ OneBuilder /\ NameIsModels
        /\ tpc \in [Handler -> {"none", "queued", "check", "use", "text", "error"}]
        /\ by \in [Handler -> 0..MaxBuilds] /\ cur \in 0..MaxBuilds
        /\ model \in [Transcriber -> Model \cup {NoModel}]
    BY DEF IInv, TypeOK
  <2>r. Resolved = SetModel \/ (forced = NoModel /\ writing # NoModel /\ Resolved = Default)
    BY DEF Resolved, SetModel, Active, Known
  <2>f. ASSUME (FileRaced /\ raced' = raced) \/ model'[by'[g]] = Resolved
        PROVE  Follows(g)
    BY <2>r, <2>f DEF FileRaced
  <2> HIDE DEF Follows
  <2>1. ASSUME NEW h \in Handler, AudioStop(h) PROVE Follows(g)
    <3>1. UpToDate /\ Submit(h, cur) /\ UNCHANGED modelVars /\ g = h
      BY <2>0, <2>1 DEF AudioStop, HandedOver, Submit, threadVars
    <3>2. by'[g] = cur
      BY <2>0, <3>1 DEF Submit
    <3>3. LoopIsFree
      BY <2>1 DEF AudioStop, InLoop
    <3>4. FileRaced \/ model'[by'[g]] = Resolved
      BY <2>0, <3>1, <3>2, <3>3 DEF UpToDate, NameIsModels, modelVars
    <3>5. QED BY <2>f, <3>1, <3>4 DEF modelVars
  <2>2. ASSUME NEW h \in Handler, Load(h) PROVE Follows(g)
    <3>1. /\ Submit(h, cur') /\ cur' = cur + 1
          /\ model' = [model EXCEPT ![cur'] = Resolved] /\ hpc[h] = "load"
      BY <2>2 DEF Load, Build
    <3>2. g = h /\ by'[g] = cur'
      BY <2>0, <3>1 DEF Submit, HandedOver
    <3>3. cur' \in Transcriber
      BY <2>0, <3>1 DEF OneBuilder, Building, Transcriber
    <3>4. model'[by'[g]] = Resolved
      BY <2>0, <3>1, <3>2, <3>3
    <3>5. QED BY <2>f, <3>4
  <2>3. ASSUME NEW h \in Handler,
               \/ Recording(h) \/ StopUnrecorded(h) \/ CloseOld(h)
               \/ LoadUnrecorded(h) \/ Finish(h) \/ ThreadStep(h)
        PROVE  tpc'[g] # "queued" \/ tpc'[g] = tpc[g]
    BY <2>0, <2>3, RecordingFrame, ThreadFrame DEF BufferOnly, StopUnrecorded,
       CloseOld, LoadUnrecorded, Finish, threadVars
  <2>4. CASE UNCHANGED vars \/ Setting
    <3>1. tpc' = tpc
      BY <2>4, SettingFrame DEF vars, threadVars
    <3>2. QED BY <3>1 DEF HandedOver
  <2>5. QED BY <2>1, <2>2, <2>3, <2>4, Steps DEF HandedOver
<1>2. QED BY <1>1, Inductive, PTL DEF Spec, SetTakesEffect
=============================================================================
