# VoxSpell: specifications, model checks and proofs

VoxSpell is a push-to-talk voice input method for Fcitx 5. A background **daemon** (TypeScript on
Node.js) records the microphone, drives a speech recogniser, post-processes and optionally polishes
the text; a **Fcitx 5 addon** (C++) watches the keyboard and commits the text; a GTK **desktop**
program edits the configuration. They talk JSON-RPC over a Unix socket.

This directory holds TLA+ modules translated from that code, configurations for TLC, and proofs
checked by TLAPS. Paths below are relative to `src/`.

- [The system](#1-the-system) - [What is modelled](#2-what-is-modelled) -
  [Runs](#3-the-runs) - [Proofs](#4-what-is-proved) - [Findings](#5-findings) -
  [Not modelled](#6-what-is-not-modelled) - [Plan](#7-plan)

To repeat everything: `tlc -workers 2 -config <run>.cfg <module>`, where the runs `coordinator_*` are of
`MCSessionCoordinator`, `voice_*` of `MCVoiceSystem`, `recognition` of `MCRecognitionSession`, `config_*`
of `MCConfigurationStore`, `desktop_pages` of `MCDesktopPages` and the other `desktop_*` of
`MCDesktopSettings`; `tlapm <module>.tla` for the eight
`…Proofs` modules.

## 1. The system

### Session coordinator and gate — `apps/daemon/src/session-{coordinator,state,gate}.ts`

*State.* One coordinator per RPC connection: `#state` (twelve values, with a table of allowed
transitions), `#active` (the one live session), `#lastSettledSessionId`. One `DaemonSessionGate` for
the whole daemon. Per session: the recogniser and capture sessions, an abort controller, the memoised
promises of `finish()` and `cancel()`, the two pumps (audio frames to the recogniser, recogniser
events to the client), the recording timer, the failure, the transcript and the polished text.

*Operations.* `start`, `setPolishingEnabled`, `finish`, `cancel`, `selectResult` from the client;
the continuations of its awaits; the timer; `#fail` from everywhere.

*Hard behaviour.* Everything between two awaits is atomic, and everything suspended outlives the
session: a `start()` may resume after its session was cancelled and while **another** session is
recording. `cancel()`, `#fail()` and a selection race to settle. `finish()` waits for the audio pump,
which may wait for `#fail()`, which waits for the backends `finish()` is stopping.

*Correct when* one session lives at a time, it is settled exactly once with its one terminal
notification, the gate is held exactly as long, nothing is published or changed on behalf of a settled
session, no microphone or recogniser stays open, a cancelled session never commits text, and every
request comes to an end when the backends answer.

### RPC connection — `apps/daemon/src/rpc/daemon-rpc-connection.ts`

*State.* `#initialized`, `#closed`, the chain of outgoing notifications. *Operations.* Dispatch of
each request, `#enqueueNotification`, `onClose`, `dispose`. *Interaction.* Owns a coordinator, is its
publish callback, and cancels its session when the peer goes away. *Hard.* Notifications go through a
promise chain and responses do not, so their order is not that of the code that produced them; a
disconnect finds a session or does not, once. *Correct when* nothing but `initialize` is served before
initialisation, notifications keep their order, and no session outlives its connection.

### Unix socket server and framing — `apps/daemon/src/transport/`

*State.* The listening server, the set of active clients, the device and inode of the socket file it
created, a memoised stop. *Operations.* `start` (probe, unlink a dead socket, bind), accept, `stop`;
a `Content-Length` limiter in front of the parser. *Hard.* Two daemons on one path; accept during
stop. *Correct when* a live daemon's socket is never unlinked, each client is disposed once, and a
message beyond the limit is rejected however its bytes are cut.

### Fcitx 5 addon — `native/fcitx5-addon/src/`

*State.* Per input context a tap-and-hold machine (six phases) with a press timer and a 30 ms release
grace; one voice session per addon (panel, owner, session id, pending finish, pending cancel reason,
candidates); `DaemonClient` with its connection, buffers and pending requests. *Operations.* Key
events, timers, focus changes, resets, each daemon notification and response, socket events. *Hard.*
The id of a session is learnt from `session.phase preparing` or from the response, whichever comes
first, and by then the user may have released the key, moved to another window or started again.
*Correct when* an intercepted key is replayed exactly when it was a tap, text is committed once and
only into the input context that asked, and releasing the key always ends the recording.

### Configuration and dictionary managers — `apps/daemon/src/configuration/`, `packages/config/src/`

*State.* The configuration, credentials and dictionary in force, the provider and polisher built from
them, a status with the last error; the files. *Operations.* `initialize`, `reload`, `validate`,
`update…`, `testProvider`, the file watcher. All go through one promise chain. Files are written to a
temporary name, synced and renamed. *Hard.* A failure or crash between the write and its application;
operations behind a failed one. *Correct when* memory holds what the last successful operation put
there, a crash leaves the old or the new file, and the provider in use belongs to the configuration in
force.

### Speech recognisers — `packages/asr-*/src/`, `apps/daemon/src/asr/`

*State.* Tencent: the WebSocket, handshake and 10 s final timers, paced PCM packets, the transcript
assembler, an event queue. Aliyun: two protocols over one WebSocket session, managed vocabularies.
OpenAI-compatible: a buffer of audio and one upload. *Operations.* `start`, `writeAudio`, `finish`,
`cancel`, the event stream; socket messages, errors and timers. *Hard.* A final message, a close, a
timeout and a cancel race to be the one terminal event. *Correct when* exactly one terminal event is
delivered, the audio sent is the audio given, and no timer or socket is left behind.

### Audio capture — `apps/daemon/src/audio/`, `apps/daemon/src/dev/`

A `pw-record` child process: spawn, frames from its standard output, `stop` (SIGINT) and `cancel`
(SIGTERM), SIGKILL after a grace period; also a WAV file and a deterministic source. *Correct when* the process always
ends and its frames end with it.

### Text pipeline and polisher — `packages/text-pipeline/src/`, `packages/ai-polisher/src/`

Deterministic text processing (trimming, dictionary replacement and protection) and a streaming chat
request with an idle timeout. Stateless but for the compiled dictionary. *Correct when*
replacement is longest-match and does not rewrite its own output, and a polisher failure never costs
the transcript.

### Desktop state — `apps/desktop/src/state/`, `apps/desktop/src/rpc/`

MobX stores: a draft and its saved counterpart, autosave with a debounce timer and a save loop,
loading with a load id, reconnecting with back-off, dictionary editing. *Hard.* Edits during a save, a
reconnect during a load, answers from before a reconnect. *Correct when* every edit is eventually saved or
reported, and no answer to an older question overwrites a newer one.

### Presentation, tools, packaging

The GTK pages decide when a control can be used and which dialogs are open; that much of the dictionary
and input behaviour pages is modelled with their stores. Layout, the drawing of the animation, wording of errors, smoke
tools, fixtures, build files and vendored headers keep no state that a model would tell anything about.

### How they interact

```
 keyboard ──► addon (tap/hold, voice session, DaemonClient)
                │ session.start/finish/cancel/selectResult/setPolishingEnabled
                ▼                                   ▲ phase, preview, results, completed, error
          DaemonRpcConnection ──► SessionCoordinator ──► AudioCapture  (pw-record)
                ▲                     │   │   └──────────► RealtimeAsr  (Tencent, Aliyun, OpenAI)
   desktop ─────┘                     │   └──────────────► TextPipeline ► TextPolisher
   (config, dictionary, status)       ▼
                              DaemonSessionGate (one per daemon)
```

The configuration and dictionary managers are read by the coordinator's factory when a session
starts; a session keeps the snapshot it took.

## 2. What is modelled

| module | what it is |
| --- | --- |
| `SessionLifecycle` | the abstract promise of the daemon: sessions open and close once, with one notice, under the gate |
| `SessionCoordinator` | the coordinator, the state table and the gate, in full; implements the module above and the one below |
| `SessionService` | the coordinator as its client sees it: which calls it accepts, how their promises settle, what it publishes |
| `DaemonConnection` | one JSON-RPC connection of the daemon, on top of `SessionService` |
| `InputMethod` | the Fcitx 5 addon: the trigger key's state machine, the voice session, the candidates, the daemon client |
| `VoiceSystem` | user, addon, socket and daemon together: `InputMethod` and `DaemonConnection` over shared queues |
| `RecognitionService` | what the coordinator relies on of a recogniser |
| `RecognitionSession` | the Tencent, Aliyun (duplex and Qwen) and OpenAI-compatible sessions; implements the module above |
| `ConfigurationStore` | the managers of configuration and dictionary, their files, kills and losses of power |
| `DesktopSettings` | the desktop's connection, its configuration page, its window and its restart button |
| `DictionaryPage` | the dictionary store of the desktop, its page and dialogs, and the dictionary requests |
| `InputBehaviorPage` | the stores of the input behaviour and of the status animation, the animation file, the calls of Fcitx |
| `DesktopPages` | the two modules above in the window that selects among them and closes |
| `MC…` | instances and symmetry for TLC |
| `SessionCoordinatorProofs`, `SessionResourceProofs`, `SessionServiceProofs`, `VoiceSystemProofs`, `RecognitionProofs`, `ConfigurationStoreProofs`, `DesktopSettingsProofs`, `DesktopPagesProofs` | invariants, lemmas and theorems |

How they rest on one another:

```
 SessionLifecycle ◄─implements── SessionCoordinator ──assumes──► RecognitionService
 SessionService   ◄─implements──┘                                   ▲ implements
        ▲ uses                                              RecognitionSession
 DaemonConnection ──┐
 InputMethod ───────┴─► VoiceSystem          ConfigurationStore      DesktopSettings
 DictionaryPage ────┐
 InputBehaviorPage ─┴─► DesktopPages
```

The coordinator's model is too detailed to be composed with the addon's; `SessionService` stands for
it there, and `ImplementsService` shows that nothing the coordinator does is missing from it. In the
same way the recogniser's interface, which the coordinator's model assumes, is shown of every
protocol. `ConfigurationStore` and `DesktopSettings` are two sides of the same requests; the daemon
that `DesktopSettings` talks to is only what its answers show.

A style used in several modules: where a handler calls many methods of one object, a method is an
operator from the record of the object's fields to the next one, under the method's name, and the
handler is the composition of the methods it calls. A mutant of a definition stands just before it.

### The coordinator

| TLA+ | code |
| --- | --- |
| `state`, `active`, `lastSettled` | `#state`, `#active` (by its id), `#lastSettledSessionId` |
| `gate` | the owner field of `DaemonSessionGate`: this coordinator, another one, nobody |
| `ses[s]` | the `ActiveSession` object **and** the program counters of whatever is suspended for it |
| `ses[s].start/finish/cancel/fail/events/pump` | where `start()`, `#finishActive`, `#cancelActive`, `#fail`, `#consumeAsrEvents` (with `#processTranscript` and `#runPolisher`) and `#pumpAudio` are suspended |
| `ses[s].asr`, `.capture` | what the backend's resource is: not created, opening, open, let go |
| `ses[s].transcript`, `.polished`, `.delta` | whether the text is non-empty; the words are not modelled |
| `ses[s].offered`, `.told`, `.phase`, `.outcome` | what the client was told, and how the session was settled |
| `outbox` | the notifications the last step handed to `#publish`, in order |

A record is never reset, as the object in the program is not: a suspended function keeps its
reference, and `#active` moves on to another object. The `id` a session gets is fresh, so each member
of `Sessions` is started at most once.

One action is the code from one await to the next, with every helper it calls (`#transition`,
`#announcePhase`, `#settle`, `#fail` up to its own await). `Enter` is `#transition` with the
announcement that follows it at every call; `Settle` is `#settle`; `Fail` is `#fail` up to the await
of the two `cancel()` calls, early return included, and `FailSettles` the rest. Where `start()`,
`finish()` or the audio pump *await* `#fail`, they wait in `"failing"` until `fail = "done"`.

| code | actions |
| --- | --- |
| `start` | `Start`, `AsrCreated`, `AsrStarted`, `StartAsrFails`, `CaptureStarted`, `CaptureStartFails`, `StartThrows` |
| recording timer | `RecordingTimeout` |
| `setPolishingEnabled`, `selectResult` | `SetPolishingEnabled`, `SelectResult` |
| `finish` / `#finishActive` | `Finish`, `CaptureStopped`, `CaptureStopFails`, `Drained`, `AsrFinished`, `AsrFinishFails`, `FinishThrows` |
| `cancel` / `#cancelActive` | `Cancel`, `CancelSettles` |
| `#fail` | `Fail` (operator), `FailSettles` |
| `#pumpAudio` | `FrameArrives`, `FrameWritten`, `FrameWriteFails`, `AudioEnds`, `AudioThrows`, `AudioPumpFailed` |
| `#consumeAsrEvents`, `#handleAsrEvent` | `AsrPreview`, `StaleAsrEvent`, `AsrCompleted`, `AsrFails` |
| `#processTranscript` | `TranscriptProcessed`, `ProcessingFails` |
| `#runPolisher`, `#finishPolishFallback` | `PolishDelta`, `PolishCompleted`, `PolishUnavailable`, `PolishThrows`, `PolishValidated`, `PolishedEmpty` |
| other connections at the gate | `OtherAcquires`, `OtherReleases` |

Requests the code rejects without changing anything (busy, not configured, unknown session, already
settled, a repeated `finish` that awaits the first one) are stuttering steps. A client that disconnects
is a `Cancel`: `DaemonRpcConnection` calls `cancel()` and nothing else of the coordinator.

The recogniser, the microphone, the pipeline and the polisher are seen through their interfaces
(`RealtimeAsrSession`, `AudioCaptureSession`, `TextPipeline`, `TextPolisher`): a call in flight may
resolve or reject at any time and in any order, events and frames come at any time. Three things are
assumed, and each implementation was read for them:

- A `start(signal)` that resolves although the signal is aborted leaves no resource open: `pw-record`
  and the Tencent and Aliyun sessions throw, the OpenAI-compatible, deterministic and WAV ones have
  nothing open or cancel themselves.
- `cancel()` lets go of the resource at once, and `stop()` ends the recording; the promises only say
  when that is over.
- A recogniser that pushed `completed` has let go of its connection.

For the recognisers, `RecognitionSession` checks the interface; the microphone's is only read. The default text pipeline only waits for microtasks; the interface allows it to really wait, and so
does the model, which therefore has more interleavings than the shipped pipeline.

### Voice input: connection, addon, and the two together

| TLA+ | code |
| --- | --- |
| `requests` | what the client wrote and the daemon has not dispatched yet |
| `replies` | `#notificationChain` and the socket: one queue |
| `rpc` | `#initialized`, `#closed`, the socket, how many handlers are suspended for each promise of each session, a `dispose()` under way |
| `live`, `last`, `gate`, `svc`, `out` | the coordinator, as `SessionService` |
| `im.ic[c]` | the tap-and-hold phase of an input context, its two timers, whether it shows a panel |
| `im.voice` | `VoiceSession` of `addon.cpp`: owner, id, pending finish, pending cancel reason, results, the user's choice |
| `im.connection`, `.ready`, `.pending…` | `DaemonClient`: connection state, initialised, the start it has kept back |
| `focus`, `commits`, `spoken` | the context that has the keyboard; where each session's text was typed, and where it was started (history) |

Events pass through `#notificationChain` and answers do not, so an answer may be read before events
that were published before it. As nobody can tell an event that waits in the chain from one that waits
in the socket, both are one queue, and an answer is inserted anywhere among the events at its end.
Acknowledgements other than those of `initialize` and `session.start` are not written, because the
addon does nothing with them; errors are.

| code | actions |
| --- | --- |
| `DaemonRpcConnection` handlers | `Initialize`, `Start`, `StartRefused`, `Finish`, `Cancel`, `SelectResult`, `SetPolishingEnabled`, and the refusals `NotInitialized`, `NotActive` |
| answers, and the coordinator's own steps | `PromiseSettles`, `SessionMoves` |
| `onClose`, `dispose` | `Closed`, `DisposeAtOnce`, `DisposeBegins`, `Dispose` |
| `UnixSocketServer.#accept`, `createClient` | `ClientAccepted` |
| `keyEvent` | `KeyPressed`, `KeyReleased` (`handleTriggerKey`, `handleVoiceSelectionKey`, `handlePolishingToggleKey`) |
| hold timer, release grace | `HoldElapses`, `GraceElapses` |
| focus, reset, deactivate; configuration | `FocusMoves`, `ContextReset`, `ConfigChanges` |
| candidate list | `CandidateClicked` |
| `DaemonClient` I/O events | `ConnectionCompletes`, `Disconnects`, `MessageArrives` |
| the environment | `Break` (the socket), `Crash` (the daemon and what it held), `GateMoves` |

`transitionTapHold` is the operator `TapHold`, the whole table. `ensureConnected` has the three
outcomes of a `connect(2)` (`dial`). A handler of a notification is the operator of its name.

### Recognition sessions

`s` is the session object with its calls (`start`, `write`, `finish`, `cancel`), its socket, its two
timers, its packet buffer and its event queue; `server` is what the service is up to (asked,
recognising, silent, gone). `push` and `closeQueue` are `EventQueue`; `TencentMessage`,
`AliyunMessage` and `OpenAiTurn` are the three families' handlers. A protocol is chosen in the initial
state, so every property is about all four.

| code | actions |
| --- | --- |
| `start(signal)`, aborted or not | `Start` |
| `writeAudio`, packetiser and pacing | `writeAudio`, `Write` |
| `finish`, with flush and final timer | `finish`, `Finish` |
| `cancel` | `cancel` |
| socket `open`, `error`, `close` | `SocketOpens`, `SocketFails`, `SocketCloses` |
| handshake, ready and final timers | `Timer` |
| continuations of awaits | `Resume` |
| messages | `Message`, over what the service may say (`ServerSays`, external); the upload and its one retry are `Upload` |

The session is used as the coordinator uses it: `finish()` only after the audio pump ended well, at
most one `cancel()`, nothing after either. The several guesses of one sentence are merged into one; a socket that opens is a
configured one (Aliyun's configuration message follows at once).

### Configuration and dictionary

`disk` is what a loss of power leaves of each file, `seen` what processes read; they differ between
the rename of `atomicWriteFile` and its directory sync. `config` and `dict` are the managers' memory,
`queue` is `#operation` of both, a job at its head with the step it is at. `possible[f]` is history:
what was last acknowledged and what was put into the file since.

| code | actions |
| --- | --- |
| `main()`, `initialize` | `Launch`, then the jobs of `Boot` |
| `reload` | `LoadConfig`, `LoadCredentials`; `LoadDictionary` |
| `update…`, `atomicWriteFile` | `Request`, `WriteTemporary`, `Rename`, `SyncDirectory`, each of which may fail (`UpdateFails`) |
| `applyConfiguration`, `recordFailure`, `createAsrProvider`, `createTextPolisher`, `resolveTextPolisherProvider` | operators of these names; a provider is what it was built from, and one that needs an empty setting or a missing credential throws |
| `getStatus` | `config.state`, `.error` and `missingCredentialNames`, which asks for the credentials of a polisher that is not enabled, too |
| dictionary watcher and debounce | `StartWatching`, `FileChanged`, `ReloadTimer` |
| an editor, `kill`, a loss of power | `HandEdit`, `Stop` |

### Desktop

`conn` is `DaemonState` with `DaemonRpcClient` (phase, link, retry timer), `cfg` is `ConfigState`
(configuration, draft, phase, timer, where its loops are suspended), `window` the application's
window, `service` the restart button, `server` the daemon: whether it runs, its configuration and the
queue of requests it has not answered. A request outlives its connection: the daemon may apply it
although nobody waits for the answer any more (`Abandoned`).

| code | actions |
| --- | --- |
| `start`, `retry`, retry timer, handshake | `Start`, `Retry`, `RetryTimer`, `SocketOpens`, `Initialized`, `StatusArrives`, `ConnectFails` |
| a disconnect | `ConnectionLost` |
| editing | `Edit`, `updateCredential`, `commitCredential`, `deleteActiveProvider`, `selectPage` |
| debounce and save loop | `AutoSaveTimer`, `SaveValidated`, `SaveReturns`, `SaveRefreshed`, `CredentialsSaved` |
| `load`, `testProvider` | `LoadReturns`, `testProvider`, `TestReturns` |
| `createProvider` | `createProvider`, `createProviderAtOnce`, `CreateFlushed`, `CreateValidated`, `CreateReturns`, `CreateRefreshed` |
| `app-window.ts`, `dispose` | `CloseRequested`, `Destroyed` |
| `runPrimaryAction` (systemd) | `runPrimaryAction`, `ServiceReturns` |
| the daemon | `DaemonApplies`, `DaemonStops`, `DaemonStarts` |

A dialog that cannot be closed covers the page while `createProvider` runs
(`recognition-page.ts`, `canClose = false`), so there are no edits and no close request then.

### Desktop pages

`DictionaryPage`: `page` is `DictionaryState` (phase, the dictionary shown, where `load` and `persist` are
suspended), `dialog` the dialog in front of the window, `daemon` the dictionary in use and the updates
accepted. An entry is its spelling; aliases add conflicts of the same kind. The connection is what
`DesktopSettings` shows of it: it breaks, also when a request takes too long (`#requestWithTimeout`), which rejects
every request, and is made again. An update that was accepted may be applied later.

`InputBehaviorPage`: `behavior` is `InputBehaviorState`, `animation` `StatusAnimationState` with the two
replacements of the file that may be under way (a save, a reset), `fcitx` what Fcitx uses and the calls that it
has not handled, `file` the animation file. The configuration of the keys is one value, and so is the text of an
animation; what the code tells apart is whether a key is missing (`Unset`) and whether a text is valid
(`Broken`).

| code | actions |
| --- | --- |
| `syncDaemonConnection`, `#resetConnection` | `Connect`, `ConnectionLost` |
| `load`, `persist` | `DaemonReads`, `LoadReturns`; `DaemonValidates`, `SaveValidated`, `DaemonApplies`, `SaveApplied`, `DaemonReadsBack`, `SaveReturns`, `SaveRefused` |
| the list, the editor and the confirmation | `showEntryDialog`, `apply`, `Dismissed`; `confirmEntryDeletion`, `deleteEntry` |
| another client, an editor | `ChangedOutside` |
| loading the keys and the animation | `BehaviorLoaded`, `AnimationLoaded` |
| editing, timers and save loops | `editBehavior`, `updateDraft`, `BehaviorTimer`, `AnimationTimer`, `flushPendingChanges` |
| `reset`, `openEditor` | `reset`, `openEditor` |
| `#replaceConfig` | `ReadPrevious`, `WriteNew`, `WriteBack` |
| Fcitx on the bus | `FcitxAnswers`, `TimesOut` |
| `selectPage`, `app-window.ts`, `dispose` | `selectPage`, `CloseRequested`, `Destroyed` |

`flushPendingChanges()` of these stores returns at once if nothing is dirty, also while a save is under way; so
the closing window waits (`waits`) only for the saves that were dirty when it flushed.

## 3. The runs

Every cfg gives values to the constants and nothing else. The times are those of two TLC workers.

**`coordinator_session`** (`FairSpec`, 4 s): one session, everything that can happen to it; all three
polishing configurations (no polisher, polished by default, on demand) and both toggles.

- `TypeOK` also says that `completed`, `cancelled` and `failed` are left within the step that enters
  them.
- `CommittedResultWasOffered`: what is committed was announced as a final result before.
- `CancelledNeverCommits`: after `cancel()` was accepted no text is committed, whatever still arrives.
- `SuccessfulStartMeansRecording`: a start that succeeds belongs to a session that announced
  "recording" or that the client itself cancelled, never to a failed one.
- `MarkerPromisesPolishing`: no polish request without the marker the user saw; the marker and the
  decision are computed at different times from different fields.
- `RecordingMeansReady`: "recording" is announced only with both backends open.
- `ImplementsService`: the refinement of `SessionService`.
- `GivenUpIsSettled`, `RecordingEnds`, `FinishLeadsToResults`, `StartIsAnswered`: it always ends. Between them they say that the three-way wait of `finish()`,
  the audio pump and `#fail` is not a deadlock, and that the timer ends a recording no client ends.

**`coordinator_overlap`** (47 s): what outlives a session meets the next one. Two sessions and the
other connection. The sessions are interchangeable (symmetry is sound: no action or property tells
them apart, and this run has no liveness property). The policy is fixed to "polished by default",
where the length of the transcript still decides, and there are no toggles: the paths the other
policies remove are a subset, and those that the toggles add are in the first run.

- `GateFollowsSession`: the gate is held exactly while a session lives, and `#active` is the one
  session started and not settled.
- `NothingLeftRunning`: once a session is settled and its `start()` answered, microphone and
  recogniser are let go of.
- `LegalTransitions`: every change of `#state`, whichever continuation makes it, is in `ALLOWED_TRANSITIONS`,
  settlements passing through the outcome's state. (That `#transition` throws is an action where it can happen.)
- `SilentAfterSettlement`: nothing is published about a settled session.
- `StaleWorkIsHarmless`: a step of a session that is not active leaves the coordinator alone.
- `ImplementsLifecycle`: the refinement of `SessionLifecycle`.

**`voice_dictation`** (106 s): two text fields, two sessions, four user events; every order of keys,
focus changes, timers, events and answers, those of a session that was given up among those of the
next. The text fields are interchangeable (symmetry is sound: the run has no liveness property).

- `TypeOK`.
- `TriggerNeverHangs`: a trigger key that waits, waits for a timer that runs, so the key is swallowed
  or replayed in the end whatever the session came to.
- `PanelHasReason`: a panel is on the screen only where the keyboard is, and only for the session or
  the error it shows.
- `SelectionsAreAvailable`: the addon never asks for a text that was not announced as final, nor twice:
  two state machines in two languages that must agree while events are under way.
- `TypedUnderKeyboard`: a text is typed at most once, and into the context that has the keyboard then.

**`voice_breaks`** (`FairSpec`, 110 s): one text field, one session, and a socket that breaks or a
daemon that crashes at any step. The client may connect and ask again while the session of its old
connection still holds the gate, and is refused until it is cancelled.

- `NoSessionOutlivesClient`: the daemon has forgotten a client only when no session of it is left.
- `ReleaseEnds`: once the user let go of the trigger the addon comes to an end: a text, an error or a
  cancellation. It is stated for a started connection and automatic selection, as otherwise the
  next move is the user's.

**`recognition`** (`FairSpec`, 7 s): each of the four protocols against a service that answers, fails,
closes or is silent at any point; three sentences, frames shorter and longer than a packet.

- `CompletedIsWhole`: a completed recognition was sent all the audio that was recorded, to the unit,
  and whenever a service ends, which it may do by itself and at any time, the text has every sentence it has
  made final, once and in order, and the one it has only guessed; of Qwen's text that one is not part.
- `ImplementsRecognition`: the refinement of `RecognitionService`: one terminal event, the last one,
  and no call answered twice, however `cancel()`, timers, socket and service meet.
- `RecognitionEnds`: `start()` returns, the stream of a finished or
  cancelled session ends, and no socket is left behind.

**`config_store`** (`FairSpec`, 150 s): four configurations (the default, one with an enabled polisher, one whose
polisher is not enabled, one with a setting left empty), two credentials,
two dictionaries; two requests, a hand edit and a kill or loss of power between any two steps.

- `AcknowledgedSurvives`: a file holds what was last acknowledged or what was put there since; an
  acknowledged update is never undone by a loss of power.
- `RuntimeIsStored`: at rest, the recogniser and polisher in use are those the files describe.
- `ReadyMeansProvider`: "ready" exactly while the recogniser is there, and the polisher if it is enabled;
  a failed reload does not take that back while they are, and if one is not, there is an error, and the status
  names a required credential or the configuration lacks a setting. A name beside "ready" is one that only a
  polisher needs that is not enabled. What is asked for when a provider is made and what `getStatus()` asks for are
  different lists in different files, and it is their agreement that is stated.
- `SnapshotFollowsFile`: in the end the dictionary in use is the one in the file, or an error is shown.

**`desktop_settings`** (`FairSpec`, 73 s): four options (one invalid, one that saving normalises), two
credentials, two edits, and a daemon that stops once.

- `RetryIsArmed`: while the connection is down the retry timer runs, and never beside a connection or
  an attempt, which it would tear down.
- `SavedMeansApplied`: "saved" is shown only while the daemon has exactly what the page shows.
- `OneWriter`: the save loop and the creation of a provider never have updates under way together.
- `GetsConnected`: while the daemon runs and the window is there, the desktop gets connected.
- `WindowCloses`: a close request leads to the end of the window when the user leaves the page alone.

**`desktop_pages`** (`FairSpec`, 126 s): a dictionary of two entries and a third one to type; two settings of
the keys and two without one; a valid and a broken animation.

- `DictionarySaved`: "saved" is shown only with the dictionary the daemon has, unless somebody else changed it
  since, although updates of lost connections may be applied late and `persist()` has no load id.
- `BehaviorSaved`: "saved" is shown only while Fcitx uses what the page shows, although calls that were given up
  may be carried out late; and the animation then is the file's, unless a reset and a save were under way together.
- `BusyEnds`: a dictionary page that is busy, and its dialog, which cannot be closed then, come free again.
- `PagesClose`: a close request leads to the end of the window, although Fcitx may never answer and the
  replacement of the file be undone, if the user leaves the pages alone.

**Violations.** `coordinator_early_finish`, `voice_wrong_window`,
`config_lost_credentials` and `desktop_undone_edit` each check one property that a document, comment or
test of the repository states and that the code violates: see [Findings](#5-findings).

### Deadlock

The coordinator's runs check for deadlock, but there the environment (another connection that takes
and releases the gate) never stops. The other models may rest: their users have done all they do, and
nothing is under way, hence `CHECK_DEADLOCK FALSE`. What must not hang is stated by liveness
properties in both cases.

### Bounds

| constant | where | why it is enough |
| --- | --- | --- |
| `Sessions`: one | `coordinator_session` | no action of one session reads the record of another |
| `Sessions`: two | `coordinator_overlap`, `voice_dictation` | sessions interact through `state`, `active` and `gate` only, and at most one is active: a third would be another stale one |
| `Contexts` 2, `Inputs` 4 | `voice_dictation`, `voice_wrong_window` | press, move the focus, come back or press again, release or choose |
| `Inputs` 3, `Breaks` 1 | `voice_breaks` | press, release and, after the break, press again; the second request is refused at the gate or for want of a session |
| `Backlog` 1, 2 in `voice_wrong_window` | `voice_*` | how far behind the client is when a session moves on by itself; requests and the settling of promises are not held up by it, so several events are under way together with answers that overtake them |
| `Sentences` 3, `Frames` 3, `Packet` 2, `FrameSizes` {1, 3}, `AudioLimit` 5 | `recognition` | frames below and above a packet, remainders of both parities, flush with and without a remainder, the limit met and passed |
| `Requests` 2, `HandEdits` 1, `Stops` 1 | `config_*` | two operations queued or overlapping across the managers, an external change and a stop at any step of them |
| `Edits` 2, `Losses` 1 | `desktop_settings`, `desktop_undone_edit` | an edit while another is being saved; a loss during either |
| `Events` 3 | `desktop_pages` | three of: edits, resets, dialogs, selected pages, losses and changes from outside; a dialog, a loss while it saves and a second save; an edit, another while it is saved, and a reset |
| `explored` | `desktop_pages` | the page that gets past being loaded, while the other one is at rest: they share nothing but the window, so their steps commute |

The coordinator's audio pump and previews repeat without bound.

### Fairness

Nothing is ever assumed of a user, of an outside service or of the microphone: no fairness for
`Start`, `Cancel`, keys, edits, frames, previews, answers of a service.

*Coordinator.* Every call it waits for answers. `GivenUpIsSettled` says no more than that the two awaits of `cancel()`
and `#fail` are then enough: nothing in the coordinator would settle a session whose backend never answers.

- *Continuations and timers* (weak): promise jobs and `setTimeout` of one event loop.
- *Backend calls* (weak): connecting is bounded by the Tencent handshake timer (10 s) and the Aliyun
  one (15 s), writes and `cancel` complete or fail with the socket, `pw-record` gets SIGKILL after its
  grace period. `recognition` shows this of the recognisers from their own timers.
- *`AsrAnswers`* (weak): once `asr.finish()` was called or the session closed, a terminal event follows
  or the event stream ends (`RecognitionEnds`).
- *`AudioRunsOut`* (**strong**): a capture that was stopped has a finite buffer left. While the pump is
  writing a frame the end of the stream is not enabled, hence strong.
- *`PolishEnds`* (weak): a silent polisher meets its idle timeout (60 s), and a model's answer is finite.

*Voice.* Weak for the event loops of the addon (timers, I/O events) and of the daemon, strong for the
daemon's own progress with a session, because the bound `Backlog` disables it while the client is
behind; what progress means there is what the coordinator's liveness properties show.

*Recognition.* Weak for `Progress`: timers fire, a socket that is being closed closes, sends call back,
an upload is answered or aborted, suspended code resumes.

*Configuration.* Weak for the managers' steps (file operations return) and for `Launch` (systemd restarts the daemon).

*Desktop.* Strong for the steps of the handshake, which a loss of the connection disables; weak for
timers, for the noticing of a broken connection, for the answers of a running daemon and for the
rejection of requests whose connection is gone. That the daemon is started is not assumed:
`GetsConnected` is conditioned on it.

*Desktop pages.* Weak for what the daemon and the stores do while a request is under way, for timers and file
operations, for the time-out of the calls to Fcitx (5 s, given to GLib) and for the destruction of the window. Fcitx itself is
never assumed to answer, nor a lost connection to come back.

## 4. What is proved

Each theorem holds for every value of the constants, under the named assumptions of the module it is
about.

| module | theorem | establishes |
| --- | --- | --- |
| `SessionCoordinatorProofs` | `TypeCorrect` | `Spec => []TypeOK` |
| | `GateCorrect` | `Spec => []GateFollowsSession` |
| | `SilenceCorrect` | `Spec => SilentAfterSettlement` |
| | `StaleWorkCorrect` | `Spec => StaleWorkIsHarmless` |
| | `LifecycleCorrect` | `Spec => ImplementsLifecycle`, the refinement |
| | `OfferCorrect` | `Spec => []CommittedResultWasOffered` |
| | `CancelCorrect` | `Spec => []CancelledNeverCommits` |
| `SessionResourceProofs` | `ResourcesReleased` | `Spec => []NothingLeftRunning` |
| | `StartCorrect` | `Spec => []SuccessfulStartMeansRecording` |
| | `MarkerCorrect` | `Spec => []MarkerPromisesPolishing` |
| | `TransitionsCorrect` | `Spec => LegalTransitions` |
| | `ReadyCorrect` | `Spec => RecordingMeansReady` |
| `SessionServiceProofs` | `ServiceCorrect` | `Spec => ImplementsService`, the refinement |
| `VoiceSystemProofs` | `VoiceTyped` | `Spec => []TypeOK` |
| | `TriggersHeard` | `Spec => []TriggerNeverHangs` |
| | `PanelsHaveReason` | `Spec => []PanelHasReason` |
| | `SelectionsArrive` | `Spec => []SelectionsAreAvailable` |
| | `ClientsLeaveNothing` | `Spec => []NoSessionOutlivesClient` |
| | `TypedWhereTheUserIs` | `Spec => TypedUnderKeyboard` |
| `RecognitionProofs` | `ToldCorrect` | `Spec => []ToldInv`, the invariant under the next |
| | `RecognitionCorrect` | `Spec => ImplementsRecognition`, the refinement |
| | `WholeCorrect` | `Spec => []CompletedIsWhole` |
| `ConfigurationStoreProofs` | `UpdatesSurvive` | `Spec => []AcknowledgedSurvives` |
| | `RuntimeCorrect` | `Spec => []RuntimeIsStored` |
| | `ReadyIsTrue` | `Spec => []ReadyMeansProvider` |
| `DesktopSettingsProofs` | `RetryArmed` | `Spec => []RetryIsArmed` |
| | `WritersAlone` | `Spec => []OneWriter` |
| | `SavedIsApplied` | `Spec => []SavedMeansApplied` |
| `DesktopPagesProofs` | `SavedDictionary` | `Spec => []DictionarySaved` |
| | `SavedBehavior` | `Spec => []BehaviorSaved` |

**The coordinator.** There are over forty actions, but with respect to these properties a step has one
of only four shapes: it *begins* a session (none was active), it *works* on one session without settling
it (coordinator variables change only if that session is the active one and stays so, and every
notification is about it), it *settles* the active session, or it belongs to another connection. A
lemma per action, or per group of actions that share a helper, shows which shape it has and that it keeps the types
(`StepShapes`, `NextShapes`). The first five theorems of `SessionCoordinatorProofs` then follow from the shapes alone. The assumptions are
that `None` is not a session, policies are among the three, toggles are Booleans.

The inductive invariant `Inv` is `TypeOK` and `GateFollowsSession` with two strengthenings:

- `Untouched`: a session that was never started is exactly `NewSession`. Without it, `Start` could
  not be shown to begin a session that has not been settled or told anything already.
- `Untold`: what a session was told is what its outcome calls for. Without it the refinement could
  not show that a live session has been told nothing before it is closed.

`GateFollowsSession` alone is not inductive: a step of a suspended operation is harmless because it
compares the session with `active`, and that `active` is the one unsettled session is what makes
"not settled" and "is current" the same thing.

**What a session commits.** The shapes say too little here, so its second part adds `CommitInv`
to `Inv`. Neither property is inductive: that a text was offered when it is committed rests on how it
came about. `CommitInv` says of every session (`Sound`) that

- while it is active, a result it has was offered, unless it is being cancelled; the polisher works for it
  only in `polishing` or `cancelling`, which is why what the polisher ends with is offered before it can be chosen;
- while it is active and was cancelled, the coordinator is in `cancelling`, from where nothing commits;
- before it is started none of this has begun.

Most steps are `Innocent`: they change nothing a commit depends on. What is left is the first
`cancel()`, the two steps that offer a result (`TranscriptProcessed`, `PolishValidated`) and the two
that commit one (`TranscriptProcessed` again, when nothing is to be polished, and `SelectResult`).

**What a session holds.** Five more properties of the coordinator relate several of the operations that
may be suspended for one session, and rest on one account of its record, `ResourceInv`. Of every
session it says

- `Held`: how far `start()` came, and what is open by then. The microphone opens after the recogniser;
  whoever interrupts closes what is open, and what opens afterwards is closed by `start()` itself when
  it resumes. This is `NothingLeftRunning` once nothing is suspended.
- `Interrupted`: the abort signal was given exactly when somebody failed or cancelled the session. So
  "aborted" tells a resumed `start()` all it needs to know.
- `Placed`: what the state of the coordinator says of the one session it belongs to. `LegalTransitions`
  is that every step starts from a state that the table has an arrow from, and which states an
  operation may find when it resumes is what `Placed` says.
- `Recorded`: what has to lie behind a session that is finished, recognised or completed. Without it the
  microphone of a completed session might be open, as completion does not touch it.
- `Promised`: the marker shown is the one that policy and toggle ask for, up to the request.

No part is inductive alone: that `Placed` survives a failure needs `Interrupted`, and so on. Steps of
which `ResourceInv` sees nothing (`Loose`) are dealt with once. `RecordingMeansReady` is about announcements, of
which only `CaptureStarted` makes the one in question; `Held` says what is open there.

**The interface of the coordinator.** `ServiceCorrect` is the refinement on which `VoiceSystem` rests:
the addon is composed with `SessionService` and not with the coordinator. `Served` maps the record of a
session to what the service shows of it. Each action of the coordinator is shown to be a step of the
service, or of no consequence for it; the lemmas are named after the actions. What the guards of the
service ask for is `ServiceInv`: which phase was announced in which state, which calls can still be
pending there, and that neither a cancellation nor a failure is over while its session lives
(`Located`). A coordinator that announced a phase too late or settled a promise too early would satisfy
`ResourceInv` and not this.

**Voice input.** Six theorems about `VoiceSystem` follow from one invariant, `VoiceInv` (`VoiceCorrect`), for
any number of text fields, sessions, keys and breaks. It relates four places that are never looked at
together by any code: the addon, the requests under way, the replies under way, and the daemon.

- *Knowledge.* `Transcribed` and `Polished` are the sessions whose transcript, or polished text, may be
  asked for: those that offered it, and those that are over. They only grow (`Grown`), whatever the
  daemon does, so whatever is on its way stays true. Replies speak of results only of those sessions
  (`Told`); the addon shows a candidate only for them (`VoiceOk`); its choices name only them (`Asked`). A
  choice that arrives is therefore one the daemon can make, or its session is over. That a session in
  its last phases has offered its transcript (`SheetOk`) is what `SessionService` contributes.
- *The key.* `Place` says of the text field with the keyboard that each phase of its tap-and-hold machine
  has its timer, that an error never stands beside an active recording, and that a panel has its reason;
  `Rests` says that every other field has none of these. Each handler of the addon keeps it, up to the
  ones that call others (`handleDaemonError` from anywhere); a handler is a composition of operators from
  one record to the next, and there is a lemma for each.
- *Once.* The replies hold at most one completion of a session, and none of those that are `Ahead`: still
  live, not started, or typed already. Answers are inserted among the events, so the lemmas about
  queues (`InsertedIs`, `AppendedIs`, `TailIs`) say what an insertion does to completions.
- *Closing.* `RpcOk`: while `dispose()` waits, the session it waits for is the only one that can be live, and
  a promise somebody is suspended on was asked for.

The steps of `SessionService` are seen as `Moved` and `Published`, what they may do to one session and
say about it; nothing else of the coordinator is used. `TypedUnderKeyboard` needs *Once* for "at most once"
and `VoiceOk` for the place. The assumption `NoneIsNobody` is that "undefined" is neither a text field nor a
session. That the text goes where it was *spoken* cannot be proved, as it is false: finding 2.

**The recognisers.** `RecognitionCorrect` needs to know, of every session, what it has told so far and
what it still has to tell. That is `ToldInv`: while the handshake is open nothing was said, and once it is
over without a failure `ready` was (`Told`); a Tencent session that has closed its queue, or waits to,
was cancelled or has decided how it ended, an Aliyun session has its queue closed exactly from then on, and an upload
from the turn that ends it (`ByProtocol`); and the last event of an open queue is not a terminal one
(`Events`). Each handler is shown to be a move of the service: at most one call is answered, and at most one
event pushed, that may follow (`Moves`, `ServiceMoves`). The hard ones are the handlers that
close a socket first and say why later: the session that waits for the close may be cancelled, fail or time out
meanwhile, and what it then says has to be decided already (`Decided`).

`CompletedIsWhole` has two halves with little in common. *Audio* (`CountedInv`): what was sent, what is cut
into packets and what is left in the buffer add up to what was recorded, in every phase of a write and of the
finish, unless somebody cancelled (`Accounted`); it rests on `PacketsHold`, that a
division into packets and its rest lose nothing. *Sentences* (`HeardInv`): a session that still
listens has exactly the sentences the service has made final and the one it is guessing (`Hears`); a
completion that waits for the socket to close has all of them, and what was completed is their text in
order (`Heard`); for Qwen, without the guess. The service is assumed to speak in order and to say nothing after it
has ended, and nothing else: it may end before it was told of the end of the audio, and over a guess. A step that hears nothing keeps both halves (`DeafSteps`), which deals with every timer, failure and
cancellation at once. Both hold for any number of sentences and any sizes of frames and packets; the
bound on recorded frames and the limit of an upload play no part. The
assumptions are `ProtocolsKnown` (the four protocols), `FrameSizesKnown` (frames have natural sizes) and
`Sizes` (packets are not empty).

**The configuration store.** `StoreInv` adds to `AcknowledgedSurvives` that the three files are there
to be written. Only the rename, the directory sync, a hand edit and a loss of power touch the files:
a rename makes its content possible before anybody can see it, a sync leaves possible only what is on
the disk and what is seen, and a loss of power makes the one the other. Nothing needs to be known of
the queues, so `UpdatesSurvive` is independent of how the managers schedule their operations.

`RuntimeCorrect` and `ReadyIsTrue` are not: that memory and files agree at rest is a matter of who may
change which in which order. `RuntimeInv` says of the *memory* that the providers and the status are those of the
configuration and credentials in it (`ReadyIsTrue` follows from that and from what either list of credentials
contains), of the *queues* that they hold jobs of their manager, the first of
them at one of its steps, and of `main()` that it waits for one job while nobody is served
(`MainOk`). `Known` is the agreement itself, weakened where the code is at work:

- while a reload has not read the file, nothing is known of the memory, and between its two reads the
  configuration is what it carries (`KnownConfig`);
- a file that was renamed into place and whose directory is not synced yet is one of those that may
  differ (`Replacing`). Without this the failure of the sync would have to re-establish what it has
  broken.

The assumptions are `NoneIsNothing`, that the value for "nothing" is not a configuration, a
set of credentials or a provider, and `Needs`: the polisher that is enabled is one that is named, and a
configuration that names no polisher asks for no credentials of one.

**The desktop.** `ConnInv` adds the types of the connection's fields. Whatever begins or ends a
connection or an attempt, from any state, yields a record in which the timer runs exactly when it
should; the three steps of the handshake keep it, and nothing else touches the connection.

`OneWriter` is not inductive, as the flush before a creation is itself a save; and that "saved" is
true depends on updates still in the daemon's queue. `SettingsInv` has both: a save, a creation and the timer
exclude one another, except for that flush, and all of them need a connection that is ready
(`Exclusive`); the update that somebody waits for is the last of the queue, and when it was applied
nothing is behind it (`Ordered`). An update that nobody waits for any more, because its connection was lost, may
stand before it, which is why the answer and not the sending makes a page "saved". `Linked` ties the
link to the phase of the connection. The assumption, again `NoneIsNothing`, is that the value for "nothing" is not a
configuration.

**The pages.** That a page says "saved" is true is again a matter of what is still in a queue, of calls
that somebody waits for and of calls that were given up.

- *The dictionary* (`DictionaryInv`). The update that the page waits for is the last one the daemon has
  accepted (`Last`), as a page that saves does nothing else until its answer or the loss of the connection; so
  when it was applied none is left (`Drained`), and what is read back then is what stays until the
  next update of the page, or a change from outside (`Current`). `Pending` ties what was asked for to the phase
  that is shown: without it a save could begin while an older one is still waiting.
- *The keys* (`Keys`). There is at most one call that the page waits for, it carries what is being saved,
  and no other call that sets the keys stands behind it (`Setting`). Calls that were given up stand before it and are
  carried out first; so once it is answered none of them is left (`Settled`). The loop that saves
  the next edit is met in three places, an answer, a timeout and a flush, and is dealt with by one lemma
  (`BehaviorLoopKeeps`).
- *The animation* (`Animated`). A replacement that waits for Fcitx is what the file holds, and only one
  is under way, unless a reset and a save were at once (`Alone`). Reloading is no danger at any time: Fcitx takes
  what the file holds then, and while the page says "saved" nobody writes it.

The assumptions are that the daemon starts with a dictionary of at least one entry that can be spelled
(`StoredIsDictionary`; one of the changes from outside takes an entry away), that the keys Fcitx has are
among those that can be chosen (`ConfiguredIsSet`), and `NoneIsNothing`: the absence of keys is none of them.

**Only model-checked.** Liveness under fairness, which is out of the proof system's reach:
the properties under fairness of every passing run. Every other invariant and every action or
refinement property of the passing runs is the subject of a theorem.

## 5. Findings

1. **A finish that is too early is remembered** (`coordinator_early_finish`). `finish()` stores the
   promise of `#finishActive` in `finishOperation` before `#finishActive` has looked at the state. A
   finish that arrives while the session is starting is rejected, as it should be, and so is every
   later finish of the same session, now recording: it can only be cancelled or time out. The comment
   above `finish()` says repeating it is harmless, and the addon does send an early finish and repeat
   it.
2. **A text is typed into another window** (`voice_wrong_window`). Two text fields; the trigger is held
   in the first, the focus moves on before the daemon has answered, and the trigger is held in the
   second. The second start forgets that the first was to be cancelled, and the first answer is taken
   for the second's. If that session completes before its cancellation, its text goes where the
   keyboard is now. `docs/technical-plan.md` forbids committing an old result into a new window.
3. **An edit that is undone while it is being saved is never saved** (`desktop_undone_edit`).
   `flushAutoSave` compares the draft with the configuration last saved, which is still the old one.
   When the save ends the page shows the old value, the daemon has the new one, and nothing is
   scheduled.
4. **Stored credentials are lost** (`config_lost_credentials`). `reload()` throws on an unreadable main
   configuration before it loads the credentials; the next credential update writes what is in memory,
   that is nothing but its own entry, over the file.

### Further observations

Noticed on the way, and in the models, but no property of a run:

- A recording that nobody sees. The answer of a start that failed, or was refused because a session was active,
  names no session, and `handleDaemonError` without an id (`addon.cpp:1028`) applies to whatever the addon shows
  by then. If that is another session whose own start was answered, the panel is removed and the id forgotten, and no
  cancel is sent: the daemon records until the recording timer. It takes a start that is given up and tried again
  while both are under way; the refusal of the second ends the first, or the late failure of the first ends the
  second. TLC finds both in `VoiceSystem` with one text field and two sessions. `PanelHasReason` and
  `ReleaseEnds` are about the addon, and hold.
- A failed session can commit. `#fail` records the failure and awaits the backends without leaving the current
  state. A `completed` event of the recogniser in the meantime (Tencent: the server ends the recognition on its
  own, the socket closes, `finish()` then rejects, and the event is still in the queue) takes the session on, and
  `session.completed` is published where `docs/session-flow.md` promises a session error.
- The dialogs of the dictionary page name their entry by its index (`dictionary-page.ts:316`,
  `dictionary-state.ts:177`). They stay open while the connection is lost and made again; if the dictionary was
  changed meanwhile, another entry is deleted or overwritten, or a hole is left where there was an entry.
- A save of the status animation can begin while a reset is under way (the text is edited), and a reset while a
  save goes on (the error of an editor that cannot be opened took the place of the phase that prevents it); then
  the page may show the one and the file hold the other (`overlapped`).
- `input-behavior-state.ts` and `status-animation-state.ts` lose an undone edit as `config-state.ts` does. A window
  that closes does not wait for a save whose edit was undone.
- `setEntryEnabled` and `reload` of `DictionaryState` are called by nothing.
- `#processTranscript` does not check that its session is still current before it starts the polisher,
  so a pipeline that really waits could start a request for a cancelled session (`TranscriptProcessed`);
  `start()` that resumes after a cancellation arms the recording timer of the settled session, which
  `#fail` then ignores.
- A credential that is typed and committed again during the save of the same credential is dropped
  (`config-state.ts:583`). Edits made after the close request are dropped when the window goes.
- A dictionary edited by hand between its first load and `startWatching` is not noticed (`missed`). A
  `runtime.start` that fails leaves the dictionary's watcher alive. Temporary files are not removed
  after a kill.
- A version mismatch at `initialize` leaves the addon's connection open.
- A polisher that is not enabled and has no credentials is quietly not built, and `getStatus()` names its credential
  beside "ready" (`missingCredentialNames`).
- A silent recogniser completes with an empty text (Aliyun) or fails (Tencent); the OpenAI-compatible
  session emits an error after a cancel during its second attempt; Qwen drops a sentence that is
  never made final; Aliyun's `start()` with an aborted signal throws without closing its queue.

## 6. What is not modelled

- *Coordinator*: diagnostics and log lines, the wording and codes of errors, the text itself, the
  dictionary snapshot, lengths and durations (the timer may fire at any time while armed).
- *Connection*: `ping` and the requests about Fcitx's own configuration, which keep no state; the
  configuration and dictionary requests are in `ConfigurationStore` and `DesktopSettings`.
- *Socket server*: `start` and `stop` on the socket path with two daemons, which needs a model of the
  file system's sockets (one daemon per user is started by systemd); the `Content-Length` limit and the framing.
- *Addon*: previews, which are only displayed; whether the application has a preedit of its own; which
  events are replayed and which releases are swallowed; the animation and the wording of errors. The
  destruction of a context is preceded by its loss of focus and is not a case of its own.
- *Configuration*: `validate` and `testProvider`, which change nothing; credentials from the
  environment; an orderly shutdown.
- *Desktop requests that only read*: the handlers of `daemon.getStatus` and `dictionary.get` take their answer from
  memory at once and have no error to give, so these requests fail only with their connection, never alone.
- *Recognisers*: signatures, managed vocabularies, the assembly of a transcript from guesses, the test
  of a provider.
- *Desktop*: the diagnostics of input methods, which are only displayed; the search in the dictionary; several
  credentials at once; a configuration that others edit meanwhile. `WindowCloses` takes for granted that the
  flushes of the other stores settle, which is `PagesClose`; `PagesClose` takes it for granted of `ConfigState`.
  `DesktopPages` has no `load()` that is repeated: each of the two stores is loaded once, by `start()`.
- *Audio capture*: the `pw-record` process is I/O with little state, seen through its interface.
- *Text pipeline and polisher*: what they do to a text is data; they are seen through their interfaces.
- Layout and wording, the other pages, developer tools, fixtures, scripts, packaging and vendored code.

## 7. Plan

In this order:

1. `UnixSocketServer`: two daemons, one path, start, stop and crash.
2. `CaptureProcess` for `pw-record`, implementing the microphone's interface.
3. The transcript assembler, the length limit and dictionary replacement as operators against reference
   definitions, over bounded inputs.
