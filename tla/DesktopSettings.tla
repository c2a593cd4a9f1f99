---------------------------- MODULE DesktopSettings ----------------------------
(***************************************************************************)
(* The desktop application's connection to the daemon (DaemonState and     *)
(* DaemonRpcClient) and the configuration edited over it (ConfigState):    *)
(* drafts, debounced automatic saving, credentials, the test of a provider *)
(* and the creation of one; the window, which saves before it closes, and  *)
(* the button that restarts the daemon's service (DesktopState).           *)
(*                                                                         *)
(* Everything runs in one event loop.  As in InputMethod, a method is an   *)
(* operator on the record of its object's fields.  A configuration is one  *)
(* of a few options and a number of providers; the daemon is what the      *)
(* requests show of it.                                                    *)
(***************************************************************************)
EXTENDS Naturals, Sequences

CONSTANTS
  Options,      \* what the pages edit
  Invalid,      \* options that validateConfigCandidate rejects
  Keys,         \* credentials the user may type
  None,
  Initial,      \* the option of createInitialConfig
  Trimmed,      \* what saving normalises an option to
  Edits,        \* bound: edits, credentials included
  Losses        \* bound: connections lost after the handshake, daemons stopped

ASSUME Normalising == Trimmed \in [Options -> Options] /\ Initial \in Options \ Invalid
\* undefined is no configuration.
ASSUME NoneIsNothing == None \notin [option : Options, providers : Nat]

VARIABLES
  conn,         \* DaemonState and DaemonRpcClient
  cfg,          \* ConfigState
  server,       \* the daemon, as far as the desktop sees it
  window,       \* "open", "closing" (close-request was seen) or "closed"
  service,      \* DaemonServiceState: "idle", or "busy" with systemctl
  edits, losses

desk == <<window, service>>
vars == <<conn, cfg, server, desk, edits, losses>>

Config(option, providers) == [option |-> option, providers |-> providers]
Normal(config) == [config EXCEPT !.option = Trimmed[@]]

\* An update the daemon has accepted; `by`: who still waits for the answer.
Update(config, by) == [config |-> config, by |-> by]

NoSave == [step |-> "none", candidate |-> None, snapshot |-> None, key |-> None]
NoCreate == [step |-> "none", candidate |-> None]

-------------------------------------------------------------------------------
(***************************************************************************)
(* ConfigState.                                                            *)
(***************************************************************************)
Unloaded ==
  [ phase |-> "idle", config |-> None, draft |-> None, typed |-> None, ready |-> FALSE,
    loaded |-> FALSE, loading |-> FALSE, testing |-> FALSE, timer |-> FALSE,
    savePending |-> FALSE, saveRequested |-> FALSE, save |-> NoSave, create |-> NoCreate ]

isDirty(c) == c.draft # None /\ (c.config # c.draft \/ c.typed # None)

isEditable(c) == conn.phase = "connected" /\ c.phase \notin {"loading", "testing"}

clearOperationResult(c) == IF c.phase = "saving" THEN c ELSE [c EXCEPT !.phase = "idle"]

scheduleAutoSave(c) ==
  [clearOperationResult(c) EXCEPT !.timer = TRUE, !.savePending = TRUE]

applyOperationError(c) == [c EXCEPT !.phase = "error"]

\* runAutoSaveLoop, up to the first request of persistCurrentDraft.
SaveLoop(c) ==
  LET asked == [c EXCEPT !.saveRequested = FALSE, !.save = NoSave]
      key == IF c.ready THEN c.typed ELSE None
  IN CASE ~c.saveRequested \/ ~isDirty(c) -> asked
       [] c.saveRequested /\ isDirty(c) /\ (c.draft.option \in Invalid \/ conn.link # "ready") ->
            applyOperationError(asked)
       [] OTHER -> [asked EXCEPT
            !.phase = "saving",
            !.save = [ step |-> IF key = None THEN "validate" ELSE "credentials",
                       candidate |-> Normal(c.draft), snapshot |-> c.draft, key |-> key ]]

flushAutoSave(c) ==
  LET asked == [c EXCEPT !.timer = FALSE, !.savePending = FALSE,
                         !.saveRequested = @ \/ (c.savePending /\ isDirty(c))]
  IN IF c.save.step # "none" THEN asked ELSE SaveLoop(asked)

flushPendingChanges(c) ==
  flushAutoSave([c EXCEPT !.ready = @ \/ c.typed # None, !.savePending = @ \/ c.typed # None])

\* Mutant of applyAutoSaved: what was edited in the meantime counts as saved.
applyAutoSavedBlindly(c, candidate, snapshot, key) ==
  [c EXCEPT !.config = candidate, !.phase = "saved", !.loaded = TRUE]

applyAutoSaved(c, candidate, snapshot, key) ==
  LET saved == [c EXCEPT !.config = candidate,
                         !.draft = IF @ = snapshot THEN candidate ELSE @,
                         !.ready = @ /\ key = None,
                         !.typed = IF @ = key THEN None ELSE @,
                         !.loaded = TRUE]
  IN [saved EXCEPT !.phase = IF isDirty(saved) THEN "idle" ELSE "saved"]

load(c) == [c EXCEPT !.loading = TRUE, !.phase = "loading"]

applyLoadedConfig(c, config) ==
  [c EXCEPT !.config = config,
            !.draft = IF config = None THEN Config(Initial, 1) ELSE config,
            !.typed = None, !.ready = FALSE, !.phase = "idle",
            !.loaded = TRUE, !.loading = FALSE]

\* Mutant of Disconnected: the requests of the save are still waited for.
DisconnectedWaiting(c) ==
  [c EXCEPT !.loaded = FALSE, !.loading = FALSE, !.testing = FALSE, !.timer = FALSE,
            !.savePending = FALSE, !.saveRequested = FALSE, !.ready = FALSE, !.phase = "idle"]

\* applyDisconnected, and then every request that was under way is rejected.
Disconnected(c) ==
  LET failed == c.save.step \in {"credentials", "validate", "update", "applied", "refused"}
                \/ c.create.step \in {"validate", "update", "applied", "refused"}
                \/ c.testing
  IN [c EXCEPT !.loaded = FALSE, !.loading = FALSE, !.testing = FALSE, !.timer = FALSE,
               !.savePending = FALSE, !.saveRequested = FALSE, !.ready = FALSE,
               !.save = NoSave,
               !.create = IF c.create.step = "flush" THEN @ ELSE NoCreate,
               !.phase = IF failed THEN "error" ELSE "idle"]

\* Timers are cleared, and the client that is disposed as well rejects what is under way.
dispose(c) == [Disconnected(c) EXCEPT !.create = NoCreate]

-------------------------------------------------------------------------------
(***************************************************************************)
(* DaemonState and DaemonRpcClient.                                        *)
(***************************************************************************)
Offline == [phase |-> "disconnected", link |-> "none", timer |-> FALSE]

Disposed == [Offline EXCEPT !.phase = "disposed"]

\* Mutant of Connect: the timer of the attempt that is not waited for is not cleared.
ConnectKeepsTimer ==
  /\ conn' = [conn EXCEPT !.phase = "connecting", !.link = "none"]
  /\ cfg' = Disconnected(cfg)

\* markConnecting and openSocket; the state's effects see every change of the phase.
Connect ==
  /\ conn' = [phase |-> "connecting", link |-> "none", timer |-> FALSE]
  /\ cfg' = Disconnected(cfg)

Start ==
  /\ conn.phase = "disconnected"
  /\ Connect
  /\ UNCHANGED <<server, edits, losses, desk>>

RetryTimer ==
  /\ conn.timer
  /\ Connect
  /\ UNCHANGED <<server, edits, losses, desk>>

\* The user does not wait for the timer.
Retry ==
  /\ conn.phase = "retrying"
  /\ Connect
  /\ UNCHANGED <<server, edits, losses, desk>>

SocketOpens ==
  /\ conn.phase = "connecting" /\ conn.link = "none"
  /\ server.up
  /\ conn' = [conn EXCEPT !.link = "open"]
  /\ UNCHANGED <<cfg, server, edits, losses, desk>>

Initialized ==
  /\ conn.link = "open"
  /\ server.up
  /\ conn' = [conn EXCEPT !.link = "ready"]
  /\ UNCHANGED <<cfg, server, edits, losses, desk>>

\* markConnected; ConfigState loads if it has to.
StatusArrives ==
  /\ conn.phase = "connecting" /\ conn.link = "ready"
  /\ server.up
  /\ conn' = [conn EXCEPT !.phase = "connected"]
  /\ cfg' = IF cfg.loaded THEN cfg ELSE load(cfg)
  /\ UNCHANGED <<server, edits, losses, desk>>

\* Nobody waits any more for an update that was accepted.
Abandoned == [server EXCEPT !.queue = [i \in DOMAIN @ |-> [@[i] EXCEPT !.by = "nobody"]]]

\* Mutant of handleDisconnect: the connection is given up, and not tried again.
handleDisconnectOnce ==
  /\ conn' = [phase |-> "retrying", link |-> "none", timer |-> FALSE]
  /\ cfg' = Disconnected(cfg)
  /\ server' = Abandoned

handleDisconnect ==
  /\ conn' = [phase |-> "retrying", link |-> "none", timer |-> TRUE]
  /\ cfg' = Disconnected(cfg)
  /\ server' = Abandoned

\* connect() fails before the connection was ready: markFailed and #scheduleRetry.  Once it is
\* ready, daemon.getStatus fails only with the connection (ConnectionLost): its handler reads
\* the status from memory and has no error to answer with.
ConnectFails ==
  /\ conn.phase = "connecting" /\ conn.link # "ready"
  /\ handleDisconnect
  /\ UNCHANGED <<edits, losses, desk>>

\* The socket closes, or a request was not answered in time: #resetConnection.
ConnectionLost ==
  /\ conn.link = "ready"
  /\ ~server.up \/ losses < Losses
  /\ losses' = IF server.up THEN losses + 1 ELSE losses
  /\ handleDisconnect
  /\ UNCHANGED <<edits, desk>>

-------------------------------------------------------------------------------
(***************************************************************************)
(* The daemon.                                                             *)
(***************************************************************************)
\* The answer to an accepted update, if somebody waits for it.
Answered(c, by, answer) ==
  CASE by = "save" -> [c EXCEPT !.save.step = answer]
    [] by = "create" -> [c EXCEPT !.create.step = answer]
    [] OTHER -> c

DaemonApplies ==
  LET next == Head(server.queue) IN
  /\ server.up /\ server.queue # <<>>
  /\ \/ /\ server' = [server EXCEPT !.queue = Tail(@), !.config = next.config]
        /\ cfg' = Answered(cfg, next.by, "applied")
     \/ /\ server' = [server EXCEPT !.queue = Tail(@)]
        /\ cfg' = Answered(cfg, next.by, "refused")
  /\ UNCHANGED <<conn, edits, losses, desk>>

DaemonStopped ==
  /\ server.up
  /\ losses < Losses /\ losses' = losses + 1
  /\ server' = [server EXCEPT !.up = FALSE, !.queue = <<>>]

DaemonStops ==
  /\ DaemonStopped
  /\ UNCHANGED <<conn, cfg, edits, desk>>

DaemonStarts ==
  /\ ~server.up
  /\ conn.link = "none"
  /\ server' = [server EXCEPT !.up = TRUE]
  /\ UNCHANGED <<conn, cfg, edits, losses, desk>>

-------------------------------------------------------------------------------
(***************************************************************************)
(* The user.  While a provider is created, a dialog that cannot be closed  *)
(* is in front of everything else (recognition-page.ts).                   *)
(***************************************************************************)
Editing ==
  /\ isEditable(cfg)
  /\ cfg.draft # None
  /\ cfg.create.step = "none"

Edit(option) ==
  /\ Editing
  /\ edits < Edits /\ edits' = edits + 1
  /\ cfg' = scheduleAutoSave([cfg EXCEPT !.draft.option = option])
  /\ UNCHANGED <<conn, server, losses, desk>>

updateCredential(key) ==
  /\ Editing
  /\ edits < Edits /\ edits' = edits + 1
  /\ cfg' = clearOperationResult([cfg EXCEPT !.typed = key])
  /\ UNCHANGED <<conn, server, losses, desk>>

commitCredential ==
  /\ Editing
  /\ cfg.typed # None
  /\ cfg' = scheduleAutoSave([cfg EXCEPT !.ready = TRUE])
  /\ UNCHANGED <<conn, server, edits, losses, desk>>

\* The credentials typed for the provider go with it; another one may need them too.
deleteActiveProvider ==
  /\ Editing
  /\ cfg.draft.providers > 1
  /\ edits < Edits /\ edits' = edits + 1
  /\ \E typed \in {cfg.typed, None} :
       cfg' = scheduleAutoSave([cfg EXCEPT !.draft.providers = @ - 1, !.typed = typed,
                                           !.ready = @ /\ typed # None])
  /\ UNCHANGED <<conn, server, losses, desk>>

testProvider ==
  /\ isEditable(cfg)
  /\ cfg.create.step = "none"
  /\ cfg.config # None /\ ~isDirty(cfg)
  /\ cfg' = [cfg EXCEPT !.phase = "testing", !.testing = TRUE]
  /\ UNCHANGED <<conn, server, edits, losses, desk>>

\* Mutant of createProvider: what is still to be saved is not waited for.
createProviderAtOnce ==
  /\ Editing
  /\ cfg.draft.providers = 1
  /\ cfg' = [cfg EXCEPT !.phase = "saving",
                        !.create = [step |-> "validate",
                                    candidate |-> [cfg.draft EXCEPT !.providers = 2]]]
  /\ UNCHANGED <<conn, server, edits, losses, desk>>

createProvider ==
  /\ Editing
  /\ cfg.draft.providers = 1
  /\ cfg' = flushPendingChanges([cfg EXCEPT !.create.step = "flush"])
  /\ UNCHANGED <<conn, server, edits, losses, desk>>

-------------------------------------------------------------------------------
(***************************************************************************)
(* The window, and the daemon's service (DesktopState).                    *)
(***************************************************************************)
\* Another page is selected.
selectPage ==
  /\ window # "closed"
  /\ cfg.create.step = "none"
  /\ cfg' = flushPendingChanges(cfg)
  /\ UNCHANGED <<conn, server, edits, losses, desk>>

\* close-request: the window stays until the changes are saved.
CloseRequested ==
  /\ window = "open" /\ cfg.create.step = "none"
  /\ window' = "closing"
  /\ cfg' = flushPendingChanges(cfg)
  /\ UNCHANGED <<conn, server, service, edits, losses>>

\* The promise of flushPendingChanges has settled: destroy, and dispose() of every state.
Destroyed ==
  /\ window = "closing" /\ cfg.save.step = "none"
  /\ window' = "closed"
  /\ service' = "idle"
  /\ conn' = Disposed
  /\ cfg' = dispose(cfg)
  /\ server' = Abandoned
  /\ UNCHANGED <<edits, losses>>

\* systemctl start or restart: the status that decides may be an old one.
runPrimaryAction ==
  /\ window # "closed" /\ service = "idle"
  /\ service' = "busy"
  /\ \/ DaemonStopped
     \/ UNCHANGED <<server, losses>>
  /\ UNCHANGED <<conn, cfg, window, edits>>

\* runDaemonServiceAction does not wait for the timer once systemctl has succeeded.
ServiceReturns ==
  /\ service = "busy"
  /\ service' = "idle"
  /\ \/ /\ server.up
        /\ IF conn.phase = "retrying" THEN Connect ELSE UNCHANGED <<conn, cfg>>
     \/ UNCHANGED <<conn, cfg>>
  /\ UNCHANGED <<server, window, edits, losses>>

-------------------------------------------------------------------------------
(***************************************************************************)
(* What the requests come to.                                              *)
(***************************************************************************)
AutoSaveTimer ==
  /\ cfg.timer
  /\ cfg' = flushAutoSave(cfg)
  /\ UNCHANGED <<conn, server, edits, losses, desk>>

LoadReturns ==
  /\ cfg.loading /\ server.up
  /\ \/ cfg' = applyLoadedConfig(cfg, server.config)
     \/ cfg' = applyOperationError([cfg EXCEPT !.loading = FALSE])
  /\ UNCHANGED <<conn, server, edits, losses, desk>>

applyProviderTestResult(c) == [c EXCEPT !.phase = "idle"]

\* The daemon answers provider.test with a result, or with an error of the provider or of
\* its configuration.
Tested(c) == {applyProviderTestResult(c), applyOperationError(c)}

TestReturns ==
  /\ cfg.testing /\ server.up
  /\ cfg' \in Tested([cfg EXCEPT !.testing = FALSE])
  /\ UNCHANGED <<conn, server, edits, losses, desk>>

\* persistCurrentDraft, request by request; what it threw is caught, and the loop of
\* runAutoSaveLoop goes on.
CredentialsSaved ==
  /\ cfg.save.step = "credentials" /\ server.up
  /\ \/ cfg' = [cfg EXCEPT !.save.step = "validate"]
     \/ cfg' = SaveLoop(applyOperationError(cfg))
  /\ UNCHANGED <<conn, server, edits, losses, desk>>

SaveValidated ==
  /\ cfg.save.step = "validate" /\ server.up
  /\ \/ /\ cfg' = [cfg EXCEPT !.save.step = "update"]
        /\ server' = [server EXCEPT !.queue = Append(@, Update(cfg.save.candidate, "save"))]
     \/ /\ cfg' = SaveLoop(applyOperationError(cfg))
        /\ UNCHANGED server
  /\ UNCHANGED <<conn, edits, losses, desk>>

SaveReturns ==
  /\ \/ /\ cfg.save.step = "applied"
        /\ cfg' = [applyAutoSaved(cfg, cfg.save.candidate, cfg.save.snapshot, cfg.save.key)
                     EXCEPT !.save.step = "refresh"]
     \/ /\ cfg.save.step = "refused"
        /\ cfg' = SaveLoop(applyOperationError(cfg))
  /\ UNCHANGED <<conn, server, edits, losses, desk>>

\* refresh() never fails.
SaveRefreshed ==
  /\ cfg.save.step = "refresh"
  /\ cfg' = SaveLoop(cfg)
  /\ UNCHANGED <<conn, server, edits, losses, desk>>

\* createProvider, once flushPendingChanges() has come back.
CreateFlushed ==
  /\ cfg.create.step = "flush" /\ cfg.save.step = "none"
  /\ LET candidate == [cfg.draft EXCEPT !.providers = 2] IN
     cfg' = CASE cfg.phase = "error" -> [cfg EXCEPT !.create = NoCreate]
              [] cfg.phase # "error" /\ (candidate.option \in Invalid \/ conn.link # "ready") ->
                   applyOperationError([cfg EXCEPT !.create = NoCreate])
              [] OTHER -> [cfg EXCEPT !.phase = "saving",
                             !.create = [step |-> "validate", candidate |-> candidate]]
  /\ UNCHANGED <<conn, server, edits, losses, desk>>

CreateValidated ==
  /\ cfg.create.step = "validate" /\ server.up
  /\ \/ /\ cfg' = [cfg EXCEPT !.create.step = "update"]
        /\ server' = [server EXCEPT !.queue = Append(@, Update(cfg.create.candidate, "create"))]
     \/ /\ cfg' = applyOperationError([cfg EXCEPT !.create = NoCreate])
        /\ UNCHANGED server
  /\ UNCHANGED <<conn, edits, losses, desk>>

\* applyCreatedProvider
CreateReturns ==
  LET new == cfg.create.candidate IN
  /\ \/ /\ cfg.create.step = "applied"
        /\ cfg' = [applyAutoSaved([cfg EXCEPT !.draft = new], new, new, None)
                     EXCEPT !.create.step = "refresh"]
     \/ /\ cfg.create.step = "refused"
        /\ cfg' = applyOperationError([cfg EXCEPT !.create = NoCreate])
  /\ UNCHANGED <<conn, server, edits, losses, desk>>

CreateRefreshed ==
  /\ cfg.create.step = "refresh"
  /\ cfg' = [cfg EXCEPT !.create = NoCreate]
  /\ UNCHANGED <<conn, server, edits, losses, desk>>

-------------------------------------------------------------------------------
Init ==
  /\ conn = Offline
  /\ cfg = Unloaded
  /\ \E config \in {None, Config(Initial, 1)} :
       server = [up |-> TRUE, config |-> config, queue |-> <<>>]
  /\ window = "open"
  /\ service = "idle"
  /\ edits = 0
  /\ losses = 0

Connecting == Start \/ RetryTimer \/ SocketOpens \/ Initialized \/ StatusArrives

User ==
  \/ Retry
  \/ \E option \in Options : Edit(option)
  \/ \E key \in Keys : updateCredential(key)
  \/ commitCredential \/ testProvider \/ createProvider \/ deleteActiveProvider
  \/ selectPage \/ CloseRequested \/ runPrimaryAction

Returns ==
  \/ AutoSaveTimer \/ LoadReturns \/ TestReturns
  \/ CredentialsSaved \/ SaveValidated \/ SaveReturns \/ SaveRefreshed
  \/ CreateFlushed \/ CreateValidated \/ CreateReturns \/ CreateRefreshed

Next ==
  \/ Connecting \/ ConnectFails \/ ConnectionLost
  \/ DaemonApplies \/ DaemonStops \/ DaemonStarts
  \/ User \/ Returns \/ Destroyed \/ ServiceReturns

Spec == Init /\ [][Next]_vars

\* The daemon answers while it runs, and a connection that can be made is made some time.
Fairness ==
  /\ SF_vars(SocketOpens) /\ SF_vars(Initialized) /\ SF_vars(StatusArrives)
  /\ WF_vars(Start) /\ WF_vars(RetryTimer)
  /\ WF_vars(ConnectFails) /\ WF_vars(ConnectionLost /\ ~server.up)
  /\ WF_vars(DaemonApplies) /\ WF_vars(Returns) /\ WF_vars(Destroyed)

FairSpec == Spec /\ Fairness

-------------------------------------------------------------------------------
(***************************************************************************)
(* Properties.                                                             *)
(***************************************************************************)
\* Whenever the connection is down, a timer runs that will try again, and it never runs
\* beside a connection or an attempt (it would tear them down).
RetryIsArmed ==
  /\ conn.phase = "retrying" <=> conn.timer
  /\ conn.phase = "connected" => conn.link = "ready"

\* "saved" is shown only while the daemon has exactly what the page shows, although an
\* update of a connection that was lost may be applied late.
SavedMeansApplied ==
  cfg.phase = "saved" => cfg.draft = cfg.config /\ cfg.config = server.config

\* The save loop and the creation of a provider never have an update under way at the
\* same time: one would silently undo the other.
OneWriter ==
  \A i, j \in DOMAIN server.queue :
    server.queue[i].by # "nobody" /\ server.queue[j].by # "nobody" => i = j

\* While the daemon runs and the window is there, the desktop gets connected and stays so.
GetsConnected == <>[]server.up => <>[](conn.phase \in {"connected", "disposed"})

\* A window that was asked to close does so, whatever becomes of the save it waits for (the
\* daemon may stop and never come back), if the user leaves the page alone in the end.
WindowCloses ==
  <>[][~User]_vars => (window = "closing" ~> window = "closed")

\* Once nothing is under way, what the page shows is what the daemon was given: an edit is
\* never left behind (a row of the page titled "automatic saving" says so, and the tests
\* of ConfigState).
Resting ==
  /\ conn.phase = "connected" /\ cfg.phase \in {"idle", "saved"}
  /\ ~cfg.timer /\ ~cfg.saveRequested /\ cfg.save.step = "none" /\ cfg.create.step = "none"

EditsAreSaved ==
  Resting /\ cfg.config # None /\ cfg.typed = None => cfg.draft = cfg.config

===============================================================================
