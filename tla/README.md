# Verification of hermes-evenhub-bridge

TLA+ models of the bridge between a Hermes gateway and Even G2 glasses, TLC
configurations that check them on small instances, and TLAPS proofs of their
safety properties for every value of the constants. Paths below are relative to
`src/`.

- [The system](#the-system): components, state, operations, hard behaviours
- [Modules](#modules): what models what, and how
- [Runs](#runs): what each run checks, its bounds and what it shows
- [Fairness](#fairness)
- [Disagreements between code and documentation](#disagreements)
- [Proofs](#proofs)
- [What is only model-checked, and what is not modelled](#not-proved-not-modelled)
- [Plan](#plan)

## The system

The bridge is a plugin of the gateway process. A WebSocket server accepts the
glasses; an adapter turns their frames into calls of the gateway and pushes the
gateway's answers back; a speech backend transcribes audio on executor threads.
Everything but the executor threads, the agent's threads and the sidecar process
runs on one asyncio event loop, so two coroutines interleave only where one of
them suspends.

| component | code | state it keeps | operations | talks to |
|---|---|---|---|---|
| WebSocket server | `server.py` | one handler coroutine per connection, the audio buffer of each | accept, hello, frame loop, dispatch, teardown, `stop` | registry, adapter |
| Connection registry | `connections.py` | `_ws`: one socket per device; `_state`: the stream marker per device | `register`, `unregister`, `send_frame`, `stream_state`, `count` | called by server, adapter, hooks |
| Adapter: turns | `adapter.py` 372-411 | `_poller_tasks` | `on_text`, `_emit_done_when_idle`, `disconnect` | gateway's `handle_message` and `_active_sessions` |
| Adapter: replies | `adapter.py` 97-117 | the `StreamState` of a device | `send`, `edit_message` | called by the gateway's stream consumer |
| Adapter: sessions | `adapter.py` 122-260, 343-352, `session_items.py` | `_session_by_chat` | list, switch, new, history | gateway's session store |
| Adapter: commands | `adapter.py` 262-341, 354 | `_suppressed_command_output` | `on_stop`, `_dispatch_command` | gateway |
| Tool hooks | `hooks.py`, `tool_labels.py` | the bound adapter | `pre_tool_call`, `post_tool_call` on the agent's thread | session map, registry, event loop |
| Voice | `adapter.py` 413-437, `asr/` | the active transcriber, whisper's lazy model | `on_audio`, model change, fallback | sidecar backend, executor |
| Sidecar backend | `asr/fluidaudio.py`, `asr/ipc.py` | `_proc`, `_lock`, the restart budget | `transcribe`, `_start`, `_kill`, `close` | the process `main.swift` over two pipes |
| Sidecar installer | `asr/sidecar_install.py` | the binary, a temporary file | download, verify, install | network, file system |
| Status file | `status.py` | one JSON file | `update` | adapter writes, dashboard reads |
| Setup, CLI, configuration | `setup_flow.py`, `cli.py`, `config.py` | the gateway's `.env` | setup, token, net mode | tailscale, file system |
| Bootstrap | `__init__.py`, `_bootstrap.py` | a failed-install marker | install dependencies once | pip/uv |
| Net discovery | `net.py` | none | choose a host or URL | tailscale, sockets |
| Dashboard | `dashboard/` | what the page last fetched | poll status, run setup | status file, setup flow |
| Wire protocol | `protocol.py` | none | build and parse frames | server, adapter |

What is hard about it, and what makes each part correct:

- **Reconnects.** Glasses reconnect before the old connection's handler has
  ended. Registry and server are correct if the newest connection is the one
  served, nothing precedes `hello.ok`, no entry outlives its handler, and the
  dashboard's count is right or about to be.
- **The end of a turn is inferred.** The gateway does not announce it; a poller
  watches a guard with sleeps. It is correct if `turn.done` is neither premature
  nor repeated, a replaced poller is silent, and every text gets one.
- **Streaming by length.** What a device has of a reply is remembered as a
  length while the gateway hands over the whole text each time. Correct if the
  device always has a beginning of every segment, and a finished one whole.
- **Three ideas of the session.** Store, map and device must agree, while
  handlers suspend between the frames that tell the device.
- **Pipes to a process that may do anything.** The sidecar backend is correct
  if an answer never goes to another request, restarts are bounded, no process
  is lost, and calls end.
- **A model changed under a voice command.** Other processes write the choice of
  the model, the event loop closes the old transcriber while threads still use
  it. Correct if a whole recording or nothing is transcribed, once, with the
  model that was set, the command ends, and no process is left behind.
- **One temporary file for every download.** The gateway, the dashboard and the
  command line may download the sidecar at once. Correct if what is installed is
  whole, executable and verified, nothing is left behind, and an installed binary
  stays.
- **Settings in four places.** The `.env` file, the environment of each process,
  what the gateway has read and what the user was shown, changed key by key by
  processes that read the file once, and by the user's own edits. Correct if saves do not undo one another, a
  token in force is known, an app URL is served, and a restart is asked for when
  one is needed.
- **A start that may fail half way.** Dependencies are installed while the plugin
  loads, in every process of Hermes; Tailscale answers differently each time.
  Correct if a failed installation is not repeated at each start, and the server
  accepts connections at the address that is advertised.

`PROJECT.json` lists the hazards with their lines and the properties that cover
each.

## Modules

| module | models | abstract or composed with |
|---|---|---|
| `Connections` | registry, server handlers, the count in the status file | implements `DeviceLink`; `MCConnections`, `Connections_proofs` |
| `DeviceLink` | what those who push frames may rely on | abstract |
| `TurnDone` | `on_text`, the pollers, `disconnect`, for one device | `MCTurnDone`, `TurnDone_proofs` |
| `StreamDelta` | `send`, `edit_message`, `StreamState`, for one device | implements `ReplyView`; `StreamDelta_proofs` |
| `ReplyView` | what a viewer of a growing reply is promised | abstract |
| `Sessions` | switch, new, list, the session of a text, tool hooks | `MCSessions`, `Sessions_proofs` |
| `Sidecar` | `FluidAudioBackend` and the process behind its pipes | `MCSidecar`, `Sidecar_proofs` |
| `Voice` | audio buffers, `on_audio`, the choice and change of the transcriber, the fallback, the state file | `MCVoice`, `Voice_proofs`; relies on `EveryCallEnds` of `Sidecar` |
| `SidecarInstall` | the download, verification and installation of the sidecar | `MCSidecarInstall`; proofs in `Sidecar_proofs` |
| `Setup` | setup and `tailscale serve` from dashboard and command line, the saving of keys, what the gateway reads | `MCSetup`, `Setup_proofs` |
| `Bootstrap` | the installation of the dependencies and its marker, over restarts and upgrades | part of `Startup` |
| `Net` | the choice of the bound and the advertised address, as operators | part of `Startup` |
| `Startup` | `connect` up to the published URL, on nodes with one or both address families | composes `Bootstrap` and `Net`; `MCStartup`, `Startup_proofs` |

An action is what runs between two suspension points. On the event loop that is
the code between two `await`s that really suspend: a write to a socket with room
in its buffer does not, so `register .. ws.send(hello.ok)` is one step with its
`Greeted` half only for the drain. Executor threads and the sidecar interleave
at every lock, pipe and process operation. Devices that share no state are
modelled one at a time.

**Connections.** `ws` is `ConnectionRegistry._ws`; `pc[k]` is where the
handler coroutine of connection `k` is suspended (`hello` in the first `recv`,
`greet` in the drain of `hello.ok`, `loop` in `async for`, `dispatch` in the
adapter); `sends` are the `send_frame` coroutines suspended in a drain, each with
the socket it had looked up. `Hello` covers register, `refresh_status` and
`hello.ok`; `HelloUnrecorded` is the write of the status file that raises before
the `try`; `HelloTooLate` is a `hello` read from a connection that has closed.
`SendFailed` reports a failure of the *old* socket by the *name* of the device,
which `Unregister` guards. `Stop` closes all connections; `Crash` leaves the
status file as it was. `newest` and `first` are history. `DeviceLink` has no
handlers, sends or sockets: a device's link is up, dying or down, and goes from up to
down only through dying, under a newer link, or with the process. That is the link
`StreamDelta` is written for: `Register` with a link that is up is its `Connect`, with
one that is already dying or dropped `Connect` followed by `Die` and `Unregister`,
`Die` and `Drop` are its `Die` and `Unregister`, and the end of the process is a new
start of the model.

**TurnDone.** `hpc[h]` is a handler inside `handle_message`; `tracked` is
`_poller_tasks`; `ppc[p]` and `polls[p]` are the loop the poller is in and the
sleeps it has begun. `cancelled` pollers end at their next step. The gateway is
external: accepted work is `pending`, `Register` sets the guard, `Clear` clears
it, and `FollowUp` chains a turn. `Lag` bounds the polls before accepted work
registers. `Disconnect` is `adapter.disconnect` up to the await of `server.stop`, and `Stopped`
its end: in between (`phase` is `stopping`) handlers go on with the frames they have, so
`OnText` may still come and leave a poller that nobody cancels. `cut` is history, the
pollers there were when the last disconnect began. `suspends` says whether
`handle_message` and a drain give way to other
coroutines in this behaviour, chosen from `Suspensions` at the start; the first is a
matter of the gateway, the second of a full write buffer.

**StreamDelta.** Text is a sequence of pieces `<<segment, i>>`; `got` is what the
current connection has received and `sent` is `StreamState.sent_len`. `Send` is
the first frame of a segment, `Edit` every later one, `EditReused` a new segment
in the same stream that the code recognises by its being shorter. Each delivers
the suffix after the marker; a write on a dying connection is lost and
unregisters it, yet the marker has moved. `ReplyView` has no marker, cursor or
loss of a frame: a view grows along the reply or starts over.

**Sessions.** `store`, `active` and `told` are the three ideas of a device's
session; the store starts with anything, since it outlives the process, and the map
starts empty. `Refused` is a `switch_session` whose answer is not looked at; `apart`
is history, why map and store differ: a restart, a refused switch, or a move of the
gateway's own. `op[c][h]` is what a suspended handler has still to send; `shown` are
the histories the device got since it was told of its session. `turn` holds the
session of the turn whose poller has not sent the session list; a text whose
handler is still inside `handle_message` counts as such, and `TurnDone` has that
interleaving in detail. `ToolCall` is the lookup on the agent's thread and
`ToolFrame` the send on the loop.

**Sidecar.** `rpc[r]` is the thread of call `r`, `inq` and `outq` the two pipes
of each process started. A failing call kills the process in the same step as it
returns (`Fail`), as the code does under the lock. The process loads, answers,
stalls or crashes at any time. `Long` calls carry more audio than a pipe holds,
so their write can block. `burst` is history: starts since a window passed or a
clean answer.

**Voice.** `pcm[h]` is the buffer in the handler of a connection, counted in
chunks, `NoAudio` for Python's `None`. `hpc[h]` is where the handler is inside
`on_audio`: `close` and `load` hold the event loop, so no other handler moves,
but threads and the writers of the state file do. Transcribers are numbered as
they are built; `cur` is `_transcriber`, `name` is `_active_name`, `want` the
local name that `load_active` then resolves a second time (`Build`). `tpc[h]` and
`stage[h]` are the executor thread of handler `h` in
`FallbackTranscriber.transcribe`; `Check` and `Use` are the two looks at
`_model` or `_proc`, and `CloseOld` can come in between for whisper, which has no
lock, and not for the sidecar, which has one. `forced` is `EVENHUB_ASR_MODEL`, `file`
the name in the state file; each may be missing or unknown. The state file is
unreadable between `BeginSet` and `EndSet`, because `write_text` empties it first.

**SidecarInstall.** Files are inodes, `tmp` and `dest` the inodes that the two paths
name, since a rename, an unlink and an open descriptor each treat a path
differently. `ipc[i]` is the step of `ensure_sidecar_binary` that call `i` is at;
`fd`, `next` and `whole` are its descriptor, its offset and the digest of what it
received. `WriteBlock` writes what arrives, spoilt or not, where this writer's
offset is, in whatever inode it has open, so that a second call that truncates the
file is really seen. `overlap` and `abandoned` are history: two calls had the
temporary file at once, or one died with it.

**Setup.** A setting is a number in `file`, `env[p]`, `conf` and in what a request
saves (`want`) or has read (`copy`). `Configure` is `configure_local_bridge` up to
the first save; `Save` is one key by `hermes_cli`, and `Read`, `Truncate`, `Write`
are the fallback without it, three steps with other processes in between. `Serve` is
`enable_tailscale_serve`. `Fail` ends a request anywhere, with the environment
already changed; the dashboard's backend can be restarted and the gateway started
and stopped at any moment. `Edit` is the user, who sets a token, host, mode or port in
the file at any time, as `docs/configuration.md` invites to, and had set some before
(`Start`). `promised`, `failed` and `torn` are history, and so are `unseen` (keys
edited since a process read the file) and `touched` (keys the user changed since the
gateway started, or that a process which had not seen the change wrote over).

**Startup, Bootstrap, Net.** `step[p]` is where process `p` is in `register`:
`Load` looks for the modules and then for the marker of the version, `Installed` and
`InstallerFails` are pip and uv, `ProbeFinds` and `ProbeMisses` the second look.
`Die` ends a process at any step, and one that is installing leaves no marker
(`killed`); the operator installs by hand, loses the packages,
deletes a marker or upgrades. `Net` has `tailscale_status`, `detect_tailscale`,
`preferred_connect_url` and `bind_host` as operators over the answers the tailscale
command can give and the tailnet addresses (`Nodes`) the node has; `Accepts` says at
which addresses a bound socket accepts connections (0.0.0.0 is IPv4, :: is IPv6 only,
an empty host both) and `LeadsTo` which ones a client tries. `Resolve`, `Listen` and `Publish` are the three steps of `connect`
that use them.

History variables never appear in a guard, but for the counts (`killed`, `lifted`) that a
bound limits.

## Runs

| run | bounds | shows |
|---|---|---|
| `connections` | 2 devices, 2 connections, 1 failed status write, 1 stop or crash | a device reconnecting over an old handler, or two devices side by side: `NewestServed`, `HelloFirst`, `NoLeakedEntry`, `StatusLagsOnlyBehindDeadSocket`; `DeviceLink` implemented; unless a dispatch never returns, the count catches up and `stop` ends |
| `turn_done` | 2 handlers, 3 texts, 1 follow-up, 1 exception, 1 disconnect, `StartPolls` 1, `GracePolls` 3, `Lag` 1, calls that suspend or not | one live poller, every text answered, the pollers of before a disconnect silent after it; where `handle_message` does not suspend, no premature and no repeated `turn.done` |
| `turn_done_stale` | 2 texts, with a suspending `handle_message` | **violated**: premature `turn.done` |
| `stream_delta` | 3 segments of 3 pieces, 2 texts, 1 notice, 3 connections | append-only deltas, marker and device agree, final replies whole or absent, `ReplyView` implemented |
| `stream_reset` | 1 segment, a text during the reply | **violated**: the beginning is sent twice |
| `sidecar` | 3 calls, 4 starts, `MaxRestarts` 2, 1 window | own answers only, bounded restarts, no lost process, calls and `close()` end |
| `sidecar_stall` | as above, one long clip | **violated**: a blocked write holds the lock for ever |
| `sessions` | 1 device, 2 handlers, 3 sessions, 3 operations, 1 gateway reset, 1 exception, 1 tool call, 2 lost connections | the device was told the session its next text runs in but for the named causes (`StoreIsAsTold`), knows or learns the active session, and gets the history of the one it chose |
| `voice` | 2 handlers, 2 models, 2 commands, 2 transcribers, 2 writes of the state file, 1 failure each of status file and whisper, any name in environment and state file | whole recordings or none, once each; the model set is used but in the two write windows; a transcript unless closed; no process left by a closed transcriber except by a queued command; `mic` returns to idle; every command ends unless a call of the sidecar never returns |
| `install` | 3 calls, 2 blocks, 3 inodes | what is installed is whole, executable and verified, and stays, unless two calls had the temporary file at once; no temporary file is left |
| `setup` | 1 thread of the dashboard, 1 command, the user, 1 HTTPS port, 2 bridge ports, fresh or earlier settings, 2 requests or edits, 1 fault | app URLs are served, saves are kept, a token in force was shown, a needed restart was asked for |
| `startup` | 2 processes, 2 versions, 1 lifted marker and 1 killed installation per version, 1 loss of the packages, every configuration, node and answer of tailscale | only killed installations are repeated, the server accepts connections at the advertised address but for three named cases |

Why the bounds are enough. Every shared slot (registry entry, tracked poller,
marker, session map entry, lock) is per device or single, and a hazard needs an
old user of the slot, a new one, and at most one bystander: three texts and
three calls give all three, two connections and two commands give the first two
(and `Connections_proofs` has any number), two handlers give the overlap after a
reconnect. Loop counts matter by whether a loop ends before or after an event:
`StartPolls` is 1 instead of 50 (2 in `turn_done_stale`) with a `Lag` that stays
within it, and `GracePolls` has its real value 3. `MaxRestarts` is 2 instead of 3 so that three
calls reach it. Three pieces allow a segment that is empty, partial and whole on
either side of a reconnect. Every bound on a counter is a `Max..` constant and
stands in a guard. Three installers are one that has the file, one that takes it
over and one that asks meanwhile; two blocks let a stream be empty, cut short and
whole. In `setup` the dashboard keeps its environment and the command has its own of
each start, so knowledge that is stale by an edit, by the other process and by an earlier
request all occur; two requests or edits (one counter, `MaxRequests`) are one that makes
it stale and one that acts on it, and one fault is the failure that the next request
meets. One killed installation per version is enough for another start to find neither
packages nor marker. The proofs lift the bounds of every passing run as
far as safety goes; what rests on the bounds alone is the liveness.

`CHECK_DEADLOCK FALSE` is set throughout: in each model the peers may simply
stop sending, and the bounds exhaust. That something which must continue does is
stated as liveness instead.

What the assumptions in the runs mean. `DoneWhenComplete` and
`NoDuplicateDone` hold where `handle_message` only schedules the turn, and
`DoneWhenComplete` further while a turn registers before the first loop stops waiting
for one and the accepted work leaves no gap longer than the grace window
(`ChainInWindow`); `turn_done_stale` shows that the first is needed.
`stream_delta` assumes that no text arrives and no other message is sent during a
reply; `stream_reset` drops the first assumption. `sidecar` assumes clips that fit the
pipe (64 KiB, two seconds of audio); `sidecar_stall` drops it. `InstalledIsVerified`
and `BinaryStays` except overlapping calls (`~overlap`), `SavedIsKept` a fallback save
that met another one, `RestartAnnounced` and `TokenKnown` a request that failed, and
`RestartAnnounced` an edit that was overwritten unseen: what happens then is listed under [Disagreements](#disagreements).

Every module's type invariant is proved; `voice` checks its own in the run as well,
because it bounds the buffer.

Some properties name an exception because the code has it; each is listed under
[Disagreements](#disagreements) where a document says otherwise.

- `TextUnlessClosed` excepts a command whose transcriber was closed under it: whisper
  is a fallback without a lock or a fallback of its own.
- `SetTakesEffect` compares with the name that was set (`SetModel`) and excepts, for the
  state file only, a command that finds the file empty while it is written, and a
  transcriber that was built while the file was written: name and backend are then
  resolved from different contents, and if the name is set back they disagree until it
  is changed again. A model forced by the environment has no exception.
- `ClosedHasNoProcess` excepts a command that was queued for the closed transcriber and
  starts its process again.
- `StoreIsAsTold` excepts a restart, a refused switch and a session the gateway starts
  by itself, until the next text, new or accepted switch.
- `InstallBudget` counts the killed installations on both sides: whatever is repeated
  beyond one installation for each process and marker was killed.
- `AdvertisedIsServed` excepts `NameOnly` and the two cases of `WrongFamily`.

## Fairness

- Event loop: a ready coroutine runs. Weak fairness of the steps that need no
  peer: `Greeted`, a failed send, the poller's steps, the rest of
  a handler (`NewList`, `History`), the executor threads outside a call of the
  sidecar, the event loop in `close()`, `Load` and the end of `on_audio` (`Finish`).
- A dispatch (`on_audio`, `handle_message`) and a call of the sidecar process have no
  timeout of their own, so neither is assumed to return. What needs it says so as a
  premise: `StatusCatchesUp` and `StopEnds` hold if no handler stays in one dispatch for
  good (`DispatchesReturn`), `CommandEnds` if no thread stays inside the sidecar
  (`SidecarReturns`). They show that nothing else keeps `stop`, the count or a command
  waiting; `sidecar_stall` is the run in which the premise fails.
- `Teardown` has strong fairness: `pc` alternates between `loop` and `dispatch`
  while frames are left in the receive buffer, and the iteration over the socket
  does end once it is closed and the buffer is empty.
- The keepalive of the websockets library ends a silent connection
  (`KeepaliveTimeout`), and a closed connection ends the wait for `hello`.
- Gateway: accepted work is registered and a turn ends (`Register`, `Clear`).
  Without it a `turn.done` is rightly withheld.
- Lock: `Acquire` has weak fairness, for each call. Python's lock is not fair,
  but calls are finitely many in a run and each holds it once, so none can be
  overtaken for ever.
- `SidecarInstall`, `Setup` and `Startup` state safety only. Their operations end
  when pip, tailscale, the network and the user let them.
- Nothing is assumed of the sidecar process, of the peers or of the network: an
  answer that does not come is ended by the code's own timeout.

## Disagreements

Three are runs that TLC must find violated; `PROJECT.json` quotes the lines.

1. `turn_done_stale`: the stale poller is cancelled only after
   `handle_message` returns (`adapter.py:382-388`), although the comment says a
   previous turn cannot emit a premature `turn.done`.
2. `stream_reset`: `on_text` resets the marker of a reply that is still
   streamed (`adapter.py:381`), and the "append-only" deltas start again.
3. `sidecar_stall`: the watchdog covers the read and not the write
   (`asr/fluidaudio.py:127`).

The others stand in the models without a run of their own.

- The grace loop counts over a whole chain of turns (`adapter.py:403`), so a later
  chained turn has no grace window left: `ChainInWindow` excepts it. `TurnDone` with
  `MaxTexts` 1, `MaxFollows` 4, `StartPolls` 2, `GracePolls` 3, `Lag` 1 and
  `Suspensions` `{{}}` violates `NoPrematureDone`.
- A turn that registers later than the 50 polls of the first loop (`adapter.py:395`)
  is taken for a text that runs none, and `turn.done` precedes it. `TurnDone` with
  `MaxTexts` 1, `MaxFollows` 0, `StartPolls` 2, `GracePolls` 3, `Lag` 7 and
  `Suspensions` `{{}}` violates `NoPrematureDone`, which is why `ChainInWindow` asks
  for `Lag <= StartPolls`; the code names no such bound.
- The hook matches the session when the tool is called and sends later without
  another look (`hooks.py:27,40`): `ToolFramesScoped` of `Sessions` is false with two
  devices.
- Two downloads that overlap can install a file that was never verified: one call
  truncates the file another has checked (`asr/sidecar_install.py:116`). Without
  `~overlap`, `InstalledIsVerified` is false.
- The dashboard's backend never reads `.env` again: a setup there after one on the
  command line knows no token, generates another and says it is the first
  (`setup_flow.py`, `token_replaced`), or saves the port it started with.
- Without `hermes_cli` a save reads, empties and writes the file. Two saves lose one of
  the keys, and a death in between loses all others.
- The environment is set before the file (`_save_env_value`), so a setup that failed
  and is repeated in the same process asks for no restart. A token is saved first and
  shown last: if a later save fails, it is in force and was never shown.
- `enable_tailscale_serve` asks for no restart, and the gateway goes on showing the
  app URL it read at its start.
- "Host precedence is chosen to match what the bridge actually binds" (`net.py:119`), and
  in three cases it does not. In tailnet mode, with a pinned host and a node that has a
  name and no address, the name is advertised and the pinned host bound. The default
  0.0.0.0 is IPv4 only, and a node with an IPv6 tailnet address only advertises that one
  (`tests/test_net.py:95-98` expects the URL) or its name. And :: is IPv6 only, while the
  LAN address and a preferred tailnet address are IPv4. `AdvertisedIsServed` and
  `ResolveAgrees` except these as `NameOnly` and `WrongFamily`.
- An installation that is killed in pip or uv leaves no marker (`_bootstrap.py:105`) and
  is begun again by the next start, however often, although `_bootstrap.py:10-12` and
  `docs/faq.md:15` say that a doomed one is not.
- `docs/configuration.md:42` lets users change host, port and token by hand, with a
  restart. A dashboard that read the file before that overwrites the edit at its next
  setup and compares with what it read (`setup_flow.py:121`), so it asks for no restart:
  `RestartAnnounced` excepts the keys so overwritten.
- A model that was set "takes effect next voice command" (`docs/configuration.md:94`). A
  command while the state file is written (`asr/state.py:11`, emptied first) gets the
  default, neither the old model nor the new one; one whose transcriber is built then may
  keep a backend that is not the one of its name (`asr/__init__.py:102`).
- The answer of `switch_session` is not looked at (`adapter.py:175`): after a refusal the
  device is told that the "active session changed" (`docs/protocol.md:31`), and the next
  text runs in the old one.
- A text handled while `server.stop` waits leaves a poller that the disconnect does not
  cancel (`adapter.py:90-95`). It ends by itself; no document speaks of it.
- A marker outlives its reason: once the packages are lost again the plugin is
  disabled without an attempt, until somebody installs them or deletes the marker.
- `POST /config` of the dashboard writes a section that nothing in the repository
  reads.

## Proofs

Every safety invariant and every action property that a passing run checks is proved,
and so are the two refinements. Eight modules hold the proofs, for any number of devices,
connections, handlers, texts, segments, sessions, calls, models, threads, processes and
versions, and for any bounds that satisfy the assumption of the module:
`ConnAssumption`, `TurnAssumption`, `StreamAssumption`, `SessionsAssumption`, `SidecarAssumption`, `VoiceAssumption`, `InstallAssumption`,
`SetupAssumption`, `BootstrapAssumption` and `StartupAssumption`. They say that
numbers are natural, that the null values are not members, that sets that are counted
are finite, that the grace loop sleeps at least once. Each file proves `Init => IInv`
and `IInv /\ [Next]_vars => IInv'` with a lemma for each conjunct and in it a case for
each action, and derives the properties.

- **Connections.** Proved: `TypeOK`, `NewestServed`, `HelloFirst`,
  `NoLeakedEntry`, `StatusLagsOnlyBehindDeadSocket`. None is inductive:
  `NewestServed` needs `EntryIsNewest` (an entry is the connection registered
  last under that name) and `NewestSaidHello`, since only then does a teardown of
  another connection not match the entry; `HelloFirst` needs `HandledWasGreeted`
  and that entries with an open socket are handled (`OpenEntryHandled`), since a
  frame reaches what the registry names; `UnusedHasNoHandler` keeps a fresh
  connection apart from old handlers. `LinkKept`, the refinement of `DeviceLink`, adds
  `HelloGivesDevice` (a connection has a name from its hello on), so that a connection
  registers once and holds one entry, and `DownIsClosed` (no open socket without a
  listening gateway). `LinkStep` maps each action: a hello to `Register`, an ending
  transport to `Die`, the three callers of `unregister` to `Drop` or a stutter.
- **TurnDone.** Proved: `TypeOK`, `LivePollerTracked`, `ReplacedPollerSilent`,
  `DisconnectSilencesOld`, and, for a `handle_message` that does not suspend,
  `NoDuplicateDone` and `DoneWhenComplete`. The invariant numbers the pollers: the tracked one is the
  youngest (`TrackedIsLast`, `NumberedInOrder`), so a cancel reaches the only
  one that can speak, in `on_text` as in `disconnect`; `DoneIsOlder` says that a poller
  which has yet to speak belongs to a text newer than the last `turn.done`. `DoneWhenComplete` needs a count of polls
  (`PollsInBudget`). While work is pending and the guard is clear, each poll is charged
  to that work, which registers within `Lag` of them; so a poller that has polled more
  often than all the consumed work allows (`Budget`, `Lag` for each) has nothing pending
  left to wait for. `WorkCounted` counts the work; `ChainInWindow` says that the grace
  sleeps are at least as many as the rest of the work can be charged with.
- **StreamDelta.** Proved of every run: `TypeOK`, and that segments come in order and
  without a cursor (`OrderedAlways`), whatever interrupts a reply. Proved where neither
  a text nor another message interrupts one (`OneAtATime`, the assumption of
  `stream_delta`, and `stream_reset` shows that it is needed): `DeltasAppendOnly`,
  `MarkerMatchesDevice`, `FinalIsWhole`, and `PromiseKept`, the refinement of
  `ReplyView`. The invariant says where a segment is in what a connection received:
  the pieces of segment `s` are a `Run`, consecutive in `got` and numbered from 1
  (`Segmented`); the run of the current segment is as long as the marker while it is
  streamed, and as long as the segment or empty once it is final (`Current`). That a
  delta appended after the run makes it longer, and that one of another segment leaves
  it alone (`RunGrows`, `RunStays`), are lemmas. The refinement maps a call of the same
  segment to `Grow`, the first of another to `NewSegment`, `Connect` to `NewConnection`,
  and everything else, a notice included, to a stutter (`PromiseStep`).
- **Sessions.** Proved: `TypeOK`, `StoreIsAsTold`, `DeviceKnowsSession`,
  `HistoryArrives`. The first follows from `ActiveFollowsStore` (map and store differ
  only with one of the causes in `apart`) and `DeviceKnowsSession`. The last rests on `ChosenIsTold` (a connection that chose a
  session was told that one last) and `HistoryComing` (its history is there, or
  a handler is about to send that very session's, however many older handlers
  are about to send others).
- **Sidecar.** Proved: `TypeOK`, `AnswerIsOwn`, `RestartBudget`, `ProcessIsCurrent`.
  `AnswerIsOwn` rests on `PipesAwaited`: the pipes of the current process hold what
  the holder of the lock waits for and nothing else, because every failure kills the
  process with its pipes; `HolderInside` says that there is one such call.
  `RestartBudget` rests on `StartsCounted`, `ProcessIsCurrent` on `UnusedProcess` and
  `LoadingIsAwaited`.
- **Voice.** Proved: `TypeOK`, `TextUnlessClosed`, `MicSettles`, `ClosedHasNoProcess`,
  `WholeOnceOrNothing`, `SetTakesEffect`. `ClosedHasNoProcess` rests on `LockIsHeld` (a
  thread inside the sidecar backend has its lock, so `close()` cannot come in between),
  `TextUnlessClosed` on `FallbackIsReady`, `SetTakesEffect` on `OneBuilder` and
  `NameIsModels` (the name that is compared is that of the transcriber, unless the state file
  counts and was written while it was built), `WholeOnceOrNothing` on `BufferIsSaid`.
- **SidecarInstall**, in `Sidecar_proofs`. Proved: `InstallTypeOK`,
  `InstalledIsVerified`, `BinaryStays`, `NoTempLeft`. Without overlap at most one call has the file (`OneOpen`), the path
  names that file (`OwnTemp`), which holds what the call received (`FileIsReceived`),
  and a call past a check has passed it (`ChecksPassed`). `NoTempLeft` is inductive
  and needs no such condition.
- **Setup.** Proved: `TypeOK`, `UrlIsServed`, `SavedIsKept`, `TokenKnown`,
  `RestartAnnounced`. `SavedIsKept` needs `KeptInv` (until something is torn, one
  request at most is between the reading and the writing of the file, and its copy is
  what was saved), `TokenKnown` needs `KnownInv` (a token was shown, or is in a setup
  that will show it). `RestartAnnounced` needs `AskedInv`: a setup may ask for no
  restart only if its process knew every value, and what a process knows was saved or
  is just being saved by a request that asks, but for edits it has not seen (`unseen`);
  and for the port, which setup saves as it knows it and never asks about, `PortInv` and
  `PortSeen` (only an edit that was not seen, or that the user knows of, sets it apart).
- **Startup.** Proved: `TypeOK`, `InstallBudget`, `AdvertisedIsServed`, and
  `ResolveAgrees`, which says it of the operators of `Net` for every configuration,
  node and answer, with the three cases it names. The counting invariant of
  `InstallBudget` (`Budget`) pays for the attempts that are still under way when a marker
  is written, and charges the killed ones to their kills.

## Not proved, not modelled

Only model-checked: all liveness (`StatusCatchesUp`, `StopEnds`, `TextAnswered`,
`DeviceLearnsSession`, `EveryCallEnds`, `CommandEnds`), because liveness under fairness
is out of the prover's reach. The three runs that expect a violation refute their
property and have nothing to prove. `ReplyView` speaks of what is shown and of no
operator that would have to be unfolded over a sequence: the part of a segment in what
a device received is cut out by its first and last position (`Of`), since what a
recursive selection (`SelectSeq`) yields for every sequence is an induction over data,
which the installed provers cannot do.

Modelled in part: the status file (`connected` and `mic`; the rest is only
displayed), the session operations (not the contents of lists and histories, that is
`session_items.py`, the labels and the cap), the sidecar (frames are whole, the byte
framing of `ipc.py` is not modelled), the hooks (one that finds no adapter or no loop
sends nothing and is no action), the setup (not the parsing of ports nor the commands
that only print, `url` and `asr list`), the bootstrap
(not a missing `requirements.txt`), the dashboard (its requests are in `Setup`,
`SidecarInstall` and `Voice`; the page is not). In `SidecarInstall` the platform check and
the quarantine attribute are left out: neither changes what is installed.

Not modelled: `protocol.py`, JSON constructors without state; the stop command, which
hands `/stop` to the gateway and keeps no state. The suppression of command output
(`_suppressed_command_output`) is left out because nothing in the repository asks for it:
`_dispatch_command` is called with `suppress_output` false everywhere.

Hazards without a property carry a note that says why.

## Plan

Done, in this order: Connections, TurnDone, StreamDelta with ReplyView, Sidecar,
Sessions, Voice, SidecarInstall, Setup, Bootstrap with Net and Startup; proofs of the
safety of all of them, and of the refinements of ReplyView and DeviceLink.

Left, the most important behaviour first:

1. A composition of `Connections` with `TurnDone` or `Sessions` for one device, so
   that teardown, pollers and session frames share one registry.
2. Pure algorithms as operators checked against reference definitions:
   `session_items` (order and merge), the cap of a history, the labels' truncation,
   the framing of `ipc.py`.
3. An abstract transcription service between `Sidecar` and `Voice`, as `DeviceLink` is
   between `Connections` and `StreamDelta`: what `Voice` assumes of the backend's lock
   and process, implemented by `Sidecar`.
4. The page of the dashboard: status and setup answers out of order.
