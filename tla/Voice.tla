-------------------------------- MODULE Voice --------------------------------
(***************************************************************************)
(* Voice commands (server.py's audio frames, adapter.py on_audio and       *)
(* _get_transcriber, asr/__init__.py, asr/whisper.py, asr/state.py).  The  *)
(* event loop takes a recording from a connection, picks the transcriber   *)
(* of the model the state file names, and leaves the recording to an       *)
(* executor thread, which tries the primary backend and then whisper.      *)
(* An environment variable, if set, goes before the state file.            *)
(* When the model has changed the event loop closes the old transcriber,   *)
(* whatever threads still use it.  The state file is written by other      *)
(* processes.  A thread has a handler waiting for it, so handler h and the *)
(* thread that works for it share a name.  Sidecar has the inside of the   *)
(* sidecar backend; here it is a lock and a process that may fail.         *)
(***************************************************************************)
EXTENDS Naturals

CONSTANTS
  Handler,     \* connection handlers, of any devices
  NoHandler,
  Model,       \* REGISTRY
  Fluid,       \* its models with the sidecar backend; the others are whisper
  Default,     \* DEFAULT_ACTIVE
  Unknown,     \* a name that is not in REGISTRY
  NoModel,     \* no variable, no state file
  NoAudio,     \* no buffer: chunks are ignored
  MaxPcm,      \* _MAX_PCM_BYTES, in chunks
  MaxStops,    \* bound: audio.stop frames
  MaxSets,     \* bound: writes of the state file
  MaxBuilds,   \* bound: transcribers built
  MaxFaults,   \* bound: writes of the status file that fail
  MaxFails     \* bound: failures of whisper

ASSUME VoiceAssumption ==
  /\ NoHandler \notin Handler
  /\ Default \in Model /\ Fluid \subseteq Model
  /\ NoModel \notin Model /\ Unknown \notin Model /\ NoModel # Unknown
  /\ NoAudio \notin Nat
  /\ {MaxPcm, MaxStops, MaxSets, MaxBuilds, MaxFaults, MaxFails} \subseteq Nat

VARIABLES
  pcm,       \* pcm[h]: chunks in the handler's buffer, or NoAudio
  said,      \* said[h]: history, chunks of the recording not handed over yet
  hpc,       \* hpc[h]: "loop", "close" and "load" in _get_transcriber, "waiting"
  audio,     \* audio[h]: chunks handed to the thread
  mic,       \* the status file's "mic"
  forced,    \* EVENHUB_ASR_MODEL in the gateway's environment
  file,      \* the name in the state file
  writing,   \* the model being written to it
  cur,       \* _transcriber; they are numbered as built, 0 for none
  name,      \* _active_name
  want,      \* the name _get_transcriber has resolved
  model,     \* model[t]: of the primary backend of transcriber t
  closed,    \* transcribers that were closed
  ready,     \* ready[t]: its backends with a process or a loaded model
  lock,      \* lock[t]: the holder of its sidecar backend's _lock
  tpc,       \* tpc[h]: where the thread is
  stage,     \* stage[h]: the backend it tries
  by,        \* by[h]: the transcriber it was given
  raced,     \* history: the state file changed while cur was built
  after,     \* history: transcribers a thread entered after they were closed
  stops, sets, faults, fails   \* counted against their bounds

bufferVars == <<pcm, said>>
modelVars  == <<cur, name, want, model, closed, raced>>
fileVars   == <<forced, file, writing, sets>>
threadVars == <<tpc, stage, by, ready, lock, after, fails>>
vars == <<bufferVars, hpc, audio, mic, fileVars, modelVars, threadVars,
          stops, faults>>

Transcriber == 1..MaxBuilds
Stages == {"primary", "fallback"}
Names == Model \cup {Unknown, NoModel}

TypeOK ==
  /\ pcm \in [Handler -> 0..MaxPcm \cup {NoAudio}]
  /\ said \in [Handler -> 0..MaxPcm + 1]     \* MaxPcm + 1: too many
  /\ hpc \in [Handler -> {"loop", "close", "load", "waiting"}]
  /\ audio \in [Handler -> 0..MaxPcm]
  /\ mic \in {"off", "transcribing", "idle"}
  /\ forced \in Names /\ file \in Names
  /\ writing \in Model \cup {NoModel}
  /\ cur \in 0..MaxBuilds
  /\ name \in Model \cup {NoModel} /\ want \in Model \cup {NoModel}
  /\ model \in [Transcriber -> Model \cup {NoModel}]
  /\ closed \subseteq Transcriber /\ after \subseteq Transcriber
  /\ ready \in [Transcriber -> SUBSET Stages]
  /\ lock \in [Transcriber -> Handler \cup {NoHandler}]
  /\ tpc \in [Handler -> {"none", "queued", "check", "use", "text", "error"}]
  /\ stage \in [Handler -> Stages] /\ by \in [Handler -> 0..MaxBuilds]
  /\ raced \in BOOLEAN
  /\ stops \in 0..MaxStops /\ sets \in 0..MaxSets
  /\ faults \in 0..MaxFaults /\ fails \in 0..MaxFails

Init ==
  /\ pcm = [h \in Handler |-> NoAudio] /\ said = [h \in Handler |-> 0]
  /\ hpc = [h \in Handler |-> "loop"] /\ audio = [h \in Handler |-> 0]
  /\ mic = "off"
  /\ forced \in Names /\ file \in Names /\ writing = NoModel
  /\ cur = 0 /\ name = NoModel /\ want = NoModel
  /\ model = [t \in Transcriber |-> NoModel]
  /\ closed = {} /\ after = {}
  /\ ready = [t \in Transcriber |-> {}]
  /\ lock = [t \in Transcriber |-> NoHandler]
  /\ tpc = [h \in Handler |-> "none"]
  /\ stage = [h \in Handler |-> "primary"] /\ by = [h \in Handler |-> 0]
  /\ raced = FALSE
  /\ stops = 0 /\ sets = 0 /\ faults = 0 /\ fails = 0
-----------------------------------------------------------------------------
(* The frames of a recording.                                              *)

(* The handlers share the event loop, and _get_transcriber holds it.       *)
LoopIsFree == \A h \in Handler : hpc[h] \notin {"close", "load"}
InLoop(h) == hpc[h] = "loop" /\ LoopIsFree

BufferOnly == <<hpc, audio, mic, fileVars, modelVars, threadVars, stops, faults>>

AudioStart(h) ==
  /\ InLoop(h)
  /\ pcm' = [pcm EXCEPT ![h] = 0]
  /\ said' = [said EXCEPT ![h] = 0]
  /\ UNCHANGED BufferOnly

AudioChunkUncapped(h) ==              \* the size is not compared
  /\ InLoop(h) /\ pcm[h] # NoAudio /\ pcm[h] <= MaxPcm
  /\ pcm' = [pcm EXCEPT ![h] = @ + 1]
  /\ said' = [said EXCEPT ![h] = @ + 1]
  /\ UNCHANGED BufferOnly

AudioChunk(h) ==
  /\ InLoop(h) /\ pcm[h] # NoAudio /\ pcm[h] < MaxPcm
  /\ pcm' = [pcm EXCEPT ![h] = @ + 1]
  /\ said' = [said EXCEPT ![h] = @ + 1]
  /\ UNCHANGED BufferOnly

(* One chunk too many: the recording is dropped, the rest of it ignored.   *)
Overflow(h) ==
  /\ InLoop(h) /\ pcm[h] = MaxPcm
  /\ pcm' = [pcm EXCEPT ![h] = NoAudio]
  /\ said' = [said EXCEPT ![h] = MaxPcm + 1]
  /\ UNCHANGED BufferOnly

(* The handler ends with its connection; the next one starts afresh.       *)
Reconnect(h) ==
  /\ InLoop(h)
  /\ pcm' = [pcm EXCEPT ![h] = NoAudio]
  /\ said' = [said EXCEPT ![h] = 0]
  /\ UNCHANGED BufferOnly
-----------------------------------------------------------------------------
(* on_audio.                                                               *)

(* get_active: a state file that is being written cannot be read.          *)
Active == IF writing = NoModel THEN file ELSE NoModel

(* No name, or one that is not in REGISTRY, is the default.                *)
Known(n) == IF n \in Model THEN n ELSE Default

(* resolve_active_name: the environment goes before the state file.        *)
Resolved == Known(IF forced # NoModel THEN forced ELSE Active)

KeepTranscriber == cur # 0            \* the name is not compared
UpToDate == cur # 0 /\ Resolved = name

(* The thread gets the recording and transcriber t.                        *)
Submit(h, t) ==
  /\ hpc' = [hpc EXCEPT ![h] = "waiting"]
  /\ tpc' = [tpc EXCEPT ![h] = "queued"]
  /\ by' = [by EXCEPT ![h] = t]
  /\ UNCHANGED <<stage, ready, lock, after, fails>>

(* audio.stop without a recording hands over b"".                          *)
Chunks(h) == IF pcm[h] = NoAudio THEN 0 ELSE pcm[h]

SnapshotOnly(h) ==                    \* the buffer is not cleared
  /\ audio' = [audio EXCEPT ![h] = Chunks(h)]
  /\ said' = [said EXCEPT ![h] = 0]
  /\ UNCHANGED pcm

(* The buffer is emptied before anything that can fail.                    *)
Snapshot(h) ==
  /\ audio' = [audio EXCEPT ![h] = Chunks(h)]
  /\ said' = [said EXCEPT ![h] = 0]
  /\ pcm' = [pcm EXCEPT ![h] = NoAudio]

(* audio.stop, up to the submission or to the change of the model.         *)
AudioStop(h) ==
  /\ InLoop(h) /\ stops < MaxStops /\ stops' = stops + 1
  /\ Snapshot(h)
  /\ mic' = "transcribing"
  /\ \/ UpToDate /\ Submit(h, cur) /\ UNCHANGED modelVars
     \/ /\ ~UpToDate /\ cur < MaxBuilds
        /\ want' = Resolved /\ raced' = FALSE
        /\ hpc' = [hpc EXCEPT ![h] = IF cur = 0 THEN "load" ELSE "close"]
        /\ UNCHANGED <<cur, name, model, closed, threadVars>>
  /\ UNCHANGED <<fileVars, faults>>

(* The status file cannot be written: an error frame, and no thread.       *)
StopUnrecorded(h) ==
  /\ InLoop(h) /\ stops < MaxStops /\ stops' = stops + 1
  /\ faults < MaxFaults /\ faults' = faults + 1
  /\ pcm' = [pcm EXCEPT ![h] = NoAudio]
  /\ said' = [said EXCEPT ![h] = 0]
  /\ UNCHANGED <<hpc, audio, mic, fileVars, modelVars, threadVars>>

CloseForgets(t) == {"primary"}        \* the sidecar backend is not closed
LeftByClose(t) == {}

(* FallbackTranscriber.close, on the event loop: it waits for the lock of  *)
(* the sidecar backend and for nobody who uses whisper.                    *)
CloseOld(h) ==
  /\ hpc[h] = "close"
  /\ lock[cur] = NoHandler
  /\ closed' = closed \cup {cur}
  /\ ready' = [ready EXCEPT ![cur] = @ \cap LeftByClose(cur)]
  /\ hpc' = [hpc EXCEPT ![h] = "load"]
  /\ UNCHANGED <<bufferVars, audio, mic, fileVars, cur, name, want, model,
                 raced, tpc, stage, by, lock, after, fails, stops, faults>>

(* load_active resolves the name once more.                                *)
Build ==
  /\ cur' = cur + 1
  /\ model' = [model EXCEPT ![cur'] = Resolved]
  /\ name' = want /\ want' = NoModel
  /\ UNCHANGED <<closed, raced>>

Load(h) ==
  /\ hpc[h] = "load"
  /\ Build
  /\ Submit(h, cur')
  /\ UNCHANGED <<bufferVars, audio, mic, fileVars, stops, faults>>

(* The status file cannot be written after the transcriber was built; the  *)
(* finally tries again.                                                    *)
LoadUnrecorded(h) ==
  /\ hpc[h] = "load"
  /\ Build
  /\ faults < MaxFaults /\ faults' = faults + 1
  /\ mic' \in {"idle", mic}
  /\ hpc' = [hpc EXCEPT ![h] = "loop"]
  /\ audio' = [audio EXCEPT ![h] = 0]
  /\ UNCHANGED <<bufferVars, fileVars, threadVars, stops>>

IdleAfterText(h) == IF tpc[h] = "text" THEN "idle" ELSE mic   \* not in a finally
MicAfter(h) == "idle"

(* The thread is done: a transcript, or an error frame if it raised.       *)
Finish(h) ==
  /\ hpc[h] = "waiting" /\ tpc[h] \in {"text", "error"} /\ LoopIsFree
  /\ \/ mic' = MicAfter(h) /\ UNCHANGED faults
     \/ faults < MaxFaults /\ faults' = faults + 1 /\ UNCHANGED mic
  /\ hpc' = [hpc EXCEPT ![h] = "loop"]
  /\ tpc' = [tpc EXCEPT ![h] = "none"]
  /\ stage' = [stage EXCEPT ![h] = "primary"] /\ by' = [by EXCEPT ![h] = 0]
  /\ audio' = [audio EXCEPT ![h] = 0]
  /\ UNCHANGED <<bufferVars, fileVars, modelVars, ready, lock, after, fails, stops>>
-----------------------------------------------------------------------------
(* The executor threads: FallbackTranscriber.transcribe.                   *)

Locked(h) == stage[h] = "primary" /\ model[by[h]] \in Fluid

Elsewhere == <<bufferVars, hpc, audio, mic, fileVars, modelVars, stops, faults>>

UnlockNothing(h) == lock              \* the lock is not released
Unlock(h) == IF Locked(h) THEN [lock EXCEPT ![by[h]] = NoHandler] ELSE lock

Return(h) ==
  /\ tpc' = [tpc EXCEPT ![h] = "text"]
  /\ lock' = Unlock(h)
  /\ UNCHANGED stage

NoFallback(h) ==                      \* the primary's exception is passed on
  /\ lock' = Unlock(h)
  /\ tpc' = [tpc EXCEPT ![h] = "error"]
  /\ UNCHANGED stage

(* Any exception of the primary leads to the fallback.                     *)
RaiseIn(h) ==
  /\ lock' = Unlock(h)
  /\ \/ /\ stage[h] = "primary"
        /\ stage' = [stage EXCEPT ![h] = "fallback"]
        /\ tpc' = [tpc EXCEPT ![h] = "check"]
     \/ /\ stage[h] = "fallback"
        /\ tpc' = [tpc EXCEPT ![h] = "error"]
        /\ UNCHANGED stage

(* An empty recording is an empty text.                                    *)
Empty(h) ==
  /\ tpc[h] = "queued" /\ audio[h] = 0
  /\ tpc' = [tpc EXCEPT ![h] = "text"]
  /\ UNCHANGED <<stage, by, ready, lock, after, fails, Elsewhere>>

Begin(h) ==
  /\ tpc[h] = "queued" /\ audio[h] > 0
  /\ Locked(h) => lock[by[h]] = NoHandler
  /\ lock' = IF Locked(h) THEN [lock EXCEPT ![by[h]] = h] ELSE lock
  /\ after' = IF by[h] \in closed THEN after \cup {by[h]} ELSE after
  /\ tpc' = [tpc EXCEPT ![h] = "check"]
  /\ UNCHANGED <<stage, by, ready, fails, Elsewhere>>

(* The process is started, or the model loaded, if there is none.          *)
Check(h) ==
  /\ tpc[h] = "check"
  /\ ready' = [ready EXCEPT ![by[h]] = @ \cup {stage[h]}]
  /\ tpc' = [tpc EXCEPT ![h] = "use"]
  /\ UNCHANGED <<stage, by, lock, after, fails, Elsewhere>>

Use(h) ==
  /\ tpc[h] = "use" /\ stage[h] \in ready[by[h]]
  /\ Return(h)
  /\ UNCHANGED <<by, ready, after, fails, Elsewhere>>

(* close() took whisper's model between the check and the use.             *)
UseClosed(h) ==
  /\ tpc[h] = "use" /\ stage[h] \notin ready[by[h]]
  /\ RaiseIn(h)
  /\ UNCHANGED <<by, ready, after, fails, Elsewhere>>

(* ASRUnavailable, with or without the process killed.                     *)
SidecarFails(h) ==
  /\ tpc[h] \in {"check", "use"} /\ Locked(h)
  /\ RaiseIn(h)
  /\ \/ ready' = [ready EXCEPT ![by[h]] = @ \ {"primary"}]
     \/ tpc[h] = "use" /\ UNCHANGED ready
  /\ UNCHANGED <<by, after, fails, Elsewhere>>

(* Whisper cannot load its model or decode the recording.                  *)
WhisperFails(h) ==
  /\ tpc[h] \in {"check", "use"} /\ ~Locked(h)
  /\ fails < MaxFails /\ fails' = fails + 1
  /\ RaiseIn(h)
  /\ UNCHANGED <<by, ready, after, Elsewhere>>
-----------------------------------------------------------------------------
(* set_active, in the command line's or the dashboard's process: the file  *)
(* is emptied and then written.                                            *)

BeginSet(m) ==
  /\ sets < MaxSets /\ writing = NoModel
  /\ sets' = sets + 1 /\ writing' = m
  /\ raced' = (raced \/ \E h \in Handler : hpc[h] \in {"close", "load"})
  /\ UNCHANGED <<bufferVars, hpc, audio, mic, forced, file, cur, name, want,
                 model, closed, threadVars, stops, faults>>

EndSet ==
  /\ writing # NoModel
  /\ file' = writing /\ writing' = NoModel
  /\ raced' = (raced \/ \E h \in Handler : hpc[h] \in {"close", "load"})
  /\ UNCHANGED <<bufferVars, hpc, audio, mic, forced, sets, cur, name, want,
                 model, closed, threadVars, stops, faults>>

LoopStep(h) ==
  \/ AudioStart(h) \/ AudioChunk(h) \/ Overflow(h) \/ Reconnect(h)
  \/ AudioStop(h) \/ StopUnrecorded(h)
  \/ CloseOld(h) \/ Load(h) \/ LoadUnrecorded(h) \/ Finish(h)

ThreadStep(h) ==
  \/ Empty(h) \/ Begin(h) \/ Check(h) \/ Use(h) \/ UseClosed(h)
  \/ SidecarFails(h) \/ WhisperFails(h)

Next ==
  \/ \E h \in Handler : LoopStep(h) \/ ThreadStep(h)
  \/ \E m \in Model : BeginSet(m)
  \/ EndSet

Spec == Init /\ [][Next]_vars

(* A thread inside a call of the sidecar process: under the lock it writes *)
(* the recording, without a timeout, and waits for the answer, with one.   *)
InSidecar(h) == tpc[h] = "use" /\ Locked(h)

(* Threads run, whisper returns, and the event loop goes on when it can.   *)
(* Nothing is assumed of a call of the sidecar process.                    *)
Fairness ==
  \A h \in Handler :
    /\ WF_vars(~InSidecar(h) /\ ThreadStep(h))
    /\ WF_vars(CloseOld(h)) /\ WF_vars(Load(h)) /\ WF_vars(Finish(h))

FairSpec == Spec /\ Fairness
-----------------------------------------------------------------------------
(* Properties.                                                             *)

HandedOver(h) == tpc[h] = "none" /\ tpc'[h] = "queued"

(* What is transcribed is all the device said since audio.start, or        *)
(* nothing; a recording that was too large is not cut, and one whose       *)
(* command failed is not delivered again by the next audio.stop            *)
(* (server.py:93).                                                         *)
WholeOnceOrNothing ==
  [][\A h \in Handler : audio'[h] \in {0, audio[h], said[h]}]_vars

(* "A voice command always produces a transcript" (docs/configuration.md), *)
(* however sidecars fail, unless whisper does too or the transcriber was   *)
(* closed under it.                                                        *)
TextUnlessClosed ==
  \A h \in Handler : tpc[h] = "error" => fails > 0 \/ by[h] \in closed

(* The dashboard says "transcribing" only while a command is handled.      *)
MicSettles ==
  mic = "transcribing" => faults > 0 \/ \E h \in Handler : hpc[h] # "loop"

(* A closed transcriber has no sidecar process, unless a command that was  *)
(* still queued for it started one.                                        *)
ClosedHasNoProcess ==
  \A t \in closed :
    model[t] \in Fluid /\ "primary" \in ready[t] => t \in after

(* The model the user has set: the environment's, else the last one that   *)
(* was written to the state file.                                          *)
SetModel == Known(IF forced # NoModel THEN forced ELSE file)

(* A model that was set "takes effect next voice command"                  *)
(* (docs/configuration.md), and EVENHUB_ASR_MODEL has the "highest         *)
(* precedence".  The code does less than the docs say in two ways, both    *)
(* for the state file only: a command that comes while the file is written *)
(* finds it empty and gets the default, neither the old nor the new model; *)
(* and a transcriber that was being built while the file was written may   *)
(* be of another model than its name says, until the name changes.         *)
SetTakesEffect ==
  [][\A h \in Handler : HandedOver(h) =>
       \/ model'[by'[h]] = SetModel
       \/ /\ forced = NoModel
          /\ raced' \/ (writing # NoModel /\ model'[by'[h]] = Default)]_vars

(* No call stays inside the sidecar process for good.  The code does not   *)
(* ensure it: a write to a process that does not read never ends           *)
(* (fluidaudio.py:127, the run sidecar_stall).                             *)
SidecarReturns == \A h \in Handler : []<>~InSidecar(h)

(* Unless a call of the sidecar process never returns, every voice command *)
(* is answered, with a transcript or an error: no thread waits for a lock  *)
(* that nobody gives back, and the event loop is not stuck in close().     *)
CommandEnds ==
  SidecarReturns =>
    \A h \in Handler : (hpc[h] # "loop") ~> (hpc[h] = "loop")
=============================================================================
