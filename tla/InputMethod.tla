----------------------------- MODULE InputMethod -----------------------------
(***************************************************************************)
(* The Fcitx5 addon (native/fcitx5-addon/src): the tap-or-hold state       *)
(* machine of the trigger key, VoxSpellAddon and its DaemonClient.         *)
(*                                                                         *)
(* Everything runs in Fcitx's event loop: a key, a timer, a focus change   *)
(* and a message of the daemon are one action each.  A method of the C++   *)
(* classes is an operator on the record `im` of their fields, so that a    *)
(* handler is the composition of the methods it calls; what it queues for  *)
(* the daemon is collected in im.sent and then appended to `requests`.     *)
(*                                                                         *)
(* The keys the addon tells apart are classes: the trigger, Escape, 1, 2,  *)
(* Up or Down, Return or Space, the polishing toggle, another modifier,    *)
(* anything else.  Which releases and replays the application sees, and    *)
(* what exactly a panel shows, is not modelled.                            *)
(***************************************************************************)
EXTENDS Naturals, Sequences

CONSTANTS
  Contexts,     \* input contexts: the text fields of applications
  Sessions,
  None,
  Inputs        \* bound: keys, clicks, focus and configuration changes

VARIABLES
  im,           \* the fields of VoxSpellAddon and DaemonClient
  focus,        \* the context that has the keyboard
  requests,     \* to the daemon
  replies,      \* answers and notifications of the daemon
  inputs,       \* how much the user did so far
  commits       \* history: the contexts a session's text was typed into

vars == <<im, focus, requests, replies, inputs, commits>>

Keys == {"trigger", "escape", "one", "two", "arrow", "confirm", "toggle", "modifier",
         "other"}
Modifiers == {"toggle", "modifier"}

\* tap-hold-state.cpp: the phases, and what each event does to them.
TapPhases == {"Idle", "Pending", "Active", "ActiveTriggerRelease",
              "FailedTriggerRelease", "AwaitingRelease"}

Step(phase, action) == [phase |-> phase, action |-> action]

\* Mutant of TapHold: a session that fails while the trigger is down leaves the key as
\* if it had just been let go.
TapHoldFailsEarly(phase, event) ==
  CASE phase # "Idle" /\ event = "Reset" -> Step("Idle", "Clear")
    [] phase = "Idle" /\ event = "Pressed" -> Step("Pending", "ArmTimer")
    [] phase = "Pending" /\ event = "Released" -> Step("Idle", "ReplayTrigger")
    [] phase = "Pending" /\ event = "Threshold" -> Step("Active", "ShowActive")
    [] phase \in {"Active", "ActiveTriggerRelease"} /\ event = "Failed" ->
         Step("FailedTriggerRelease", "None")
    [] OTHER -> Step(phase, "None")

\* transitionTapHold
TapHold(phase, event) ==
  CASE phase # "Idle" /\ event = "Reset" -> Step("Idle", "Clear")
    [] phase = "Idle" /\ event = "Pressed" -> Step("Pending", "ArmTimer")
    [] phase = "Pending" /\ event = "Released" -> Step("Idle", "ReplayTrigger")
    [] phase = "Pending" /\ event = "Threshold" -> Step("Active", "ShowActive")
    [] phase = "Pending" /\ event = "Other" -> Step("AwaitingRelease", "ReplayTrigger")
    [] phase = "Active" /\ event = "Released" -> Step("ActiveTriggerRelease", "ArmReleaseTimer")
    [] phase = "Active" /\ event \in {"Other", "Cancelled"} -> Step("AwaitingRelease", "Cancel")
    [] phase = "Active" /\ event = "Failed" -> Step("AwaitingRelease", "None")
    [] phase = "ActiveTriggerRelease" /\ event = "Repeated" -> Step("Active", "CancelReleaseTimer")
    [] phase = "ActiveTriggerRelease" /\ event = "Elapsed" -> Step("Idle", "ShowSuccess")
    [] phase = "ActiveTriggerRelease" /\ event = "Failed" -> Step("FailedTriggerRelease", "None")
    [] phase = "FailedTriggerRelease" /\ event = "Repeated" ->
         Step("AwaitingRelease", "CancelReleaseTimer")
    [] phase = "FailedTriggerRelease" /\ event = "Elapsed" -> Step("Idle", "None")
    [] phase = "AwaitingRelease" /\ event = "Released" -> Step("Idle", "Swallow")
    [] OTHER -> Step(phase, "None")

-------------------------------------------------------------------------------
(***************************************************************************)
(* The fields.                                                             *)
(***************************************************************************)
\* InputContextState
IdleContext == [ tap |-> "Idle", hold |-> FALSE, grace |-> FALSE, panel |-> FALSE,
                 error |-> FALSE, toggleHeld |-> FALSE ]

\* What clearVoiceSessionState() and unwatch() leave of the current session.
NoVoice ==
  [ ic |-> None, id |-> None, pending |-> FALSE, phase |-> "none",
    transcript |-> FALSE, polished |-> "none", recommended |-> "none",
    selected |-> "polished", on |-> FALSE, finish |-> FALSE, selection |-> FALSE,
    saw |-> FALSE ]

\* pendingStartCancelReason_ is set or not; connection: DaemonClient's state.
Loaded(auto) ==
  [ ic |-> [c \in Contexts |-> IdleContext], voice |-> NoVoice, pendingCancel |-> FALSE,
    autoSelect |-> auto, connection |-> "Disconnected", ready |-> FALSE,
    pendingStart |-> None, sent |-> <<>> ]

Request(s, method, value) == [session |-> s, method |-> method, value |-> value]

isPolishing(m) ==
  \/ m.voice.phase = "polishing"
  \/ m.voice.on /\ m.voice.transcript /\ m.voice.recommended = "none"

hasManualChoice(m) ==
  m.voice.recommended = "none" \/ m.voice.saw \/ m.voice.polished # "none"

-------------------------------------------------------------------------------
(***************************************************************************)
(* Methods of VoxSpellAddon and DaemonClient that change nothing else.     *)
(***************************************************************************)
Queue(m, s, method, value) == [m EXCEPT !.sent = Append(@, Request(s, method, value))]

\* finish(), cancel(), selectResult() and setPolishingEnabled() of DaemonClient.
Send(m, method, value) ==
  IF m.ready /\ m.voice.id # None THEN Queue(m, m.voice.id, method, value) ELSE m

\* renderCurrentVoiceState and setVoicePanel, for the context of the session.
Render(m) ==
  IF m.voice.ic = None THEN m
  ELSE [m EXCEPT !.ic[m.voice.ic].panel = TRUE, !.ic[m.voice.ic].error = FALSE]

clearOwnPanel(m, c) == [m EXCEPT !.ic[c].panel = FALSE]

handleDaemonError(m, s) ==
  LET c == m.voice.ic IN
  IF c = None \/ (s # None /\ s # m.voice.id) THEN m
  ELSE [m EXCEPT !.ic[c].tap = TapHold(@, "Failed").phase, !.ic[c].panel = TRUE,
                 !.ic[c].error = TRUE, !.voice = NoVoice]

\* disconnect(true): the buffers are dropped, pendingStart_ is not.
disconnect(m) ==
  handleDaemonError([m EXCEPT !.connection = "Disconnected", !.ready = FALSE], None)

\* For the context c, or for whoever has a session.
cancelVoiceSession(m, c) ==
  IF c # None /\ c # m.voice.ic THEN m
  ELSE [ (IF m.voice.id = None THEN [m EXCEPT !.pendingStart = None]
                               ELSE Send(m, "cancel", "user"))
         EXCEPT !.voice = NoVoice,
                !.pendingCancel = @ \/ (m.voice.id = None /\ m.voice.pending) ]

sendPendingStart(m) ==
  IF m.ready /\ m.pendingStart # None
  THEN [Queue(m, None, "start", m.pendingStart) EXCEPT !.pendingStart = None]
  ELSE m

sendInitialize(m) == Queue(m, None, "initialize", "1")

\* `dial` is what connect() returned.
ensureConnected(m, dial) ==
  IF m.connection # "Disconnected" THEN m
  ELSE CASE dial = "connected" -> sendInitialize([m EXCEPT !.connection = "Connected"])
         [] dial = "connecting" -> [m EXCEPT !.connection = "Connecting"]
         [] dial = "refused" -> handleDaemonError(m, None)

startVoiceSession(m, c, dial) ==
  LET fresh == [cancelVoiceSession(m, None) EXCEPT
                  !.pendingCancel = FALSE, !.voice.ic = c, !.voice.pending = TRUE]
      asked == [Render(fresh) EXCEPT !.pendingStart = c]
  IN IF m.ready THEN sendPendingStart(asked) ELSE ensureConnected(asked, dial)

finishVoiceSession(m, c) ==
  LET shown == [m EXCEPT !.ic[c].hold = FALSE, !.ic[c].error = FALSE] IN
  IF m.voice.ic # c THEN shown
  ELSE Send(Render([shown EXCEPT !.voice.finish = TRUE, !.voice.phase = "recognizing"]),
            "finish", "none")

\* Mutant of selectResult: the answer to the first choice is not waited for.
selectResultAgain(m, choice) ==
  IF m.voice.id = None \/ ~m.voice.transcript THEN m
  ELSE Send(Render([m EXCEPT !.voice.selection = TRUE, !.voice.selected = choice]),
            "select", choice)

selectResult(m, choice) ==
  IF \/ m.voice.selection \/ m.voice.id = None \/ ~m.voice.transcript
     \/ choice = "polished" /\ m.voice.polished # "final"
  THEN m
  ELSE Send(Render([m EXCEPT !.voice.selection = TRUE, !.voice.selected = choice]),
            "select", choice)

cancelByUser(m, c) == clearOwnPanel(cancelVoiceSession(m, c), c)

\* Mutant of resetInputContext: the session of the context goes on.
resetInputContextOnly(m, c) == [m EXCEPT !.ic[c] = IdleContext]

resetInputContext(m, c) ==
  [cancelVoiceSession(m, c) EXCEPT !.ic[c] = IdleContext]

resetAllInputContexts(m) ==
  [ (IF m.voice.ic = None THEN m ELSE cancelVoiceSession(m, m.voice.ic))
    EXCEPT !.ic = [c \in Contexts |-> IdleContext] ]

\* applyTransition
Apply(m, c, event, dial) ==
  LET step == TapHold(m.ic[c].tap, event)
      moved == [m EXCEPT !.ic[c].tap = step.phase]
  IN CASE step.action = "ArmTimer" -> [moved EXCEPT !.ic[c].hold = TRUE]
       [] step.action = "ArmReleaseTimer" -> [moved EXCEPT !.ic[c].grace = TRUE]
       [] step.action = "CancelReleaseTimer" -> [moved EXCEPT !.ic[c].grace = FALSE]
       [] step.action = "ReplayTrigger" -> [moved EXCEPT !.ic[c].hold = FALSE]
       [] step.action = "ShowActive" -> startVoiceSession(moved, c, dial)
       [] step.action = "ShowSuccess" -> finishVoiceSession(moved, c)
       [] step.action = "Cancel" -> cancelByUser(moved, c)
       [] step.action = "Clear" -> clearOwnPanel(cancelVoiceSession(
              [moved EXCEPT !.ic[c].hold = FALSE, !.ic[c].grace = FALSE,
                            !.ic[c].error = FALSE], c), c)
       [] OTHER -> moved

-------------------------------------------------------------------------------
(***************************************************************************)
(* handleKeyEvent                                                          *)
(***************************************************************************)
\* A handler tells whether the key goes any further.
Goes(m) == [next |-> m, done |-> FALSE]
Done(m) == [next |-> m, done |-> TRUE]

handlePolishingToggleKey(m, c, key) ==
  IF \/ key # "toggle" \/ m.ic[c].tap # "Active" \/ m.voice.ic # c
     \/ m.voice.phase # "recording"
  THEN Goes(m)
  ELSE Done(IF m.ic[c].toggleHeld THEN m
            ELSE Send([m EXCEPT !.ic[c].toggleHeld = TRUE], "polish",
                      IF m.voice.on THEN "off" ELSE "on"))

handleVoiceSelectionKey(m, c, key) ==
  IF m.ic[c].tap # "Idle" \/ m.voice.ic # c THEN Goes(m)
  ELSE IF key = "escape" THEN Done(cancelByUser(m, c))
  ELSE IF key = "two" /\ isPolishing(m) /\ m.voice.transcript /\ ~m.voice.selection
  THEN Done(selectResult(m, "transcript"))
  ELSE IF m.autoSelect \/ ~m.voice.transcript \/ ~hasManualChoice(m)
  THEN Goes(IF key \in Modifiers THEN m ELSE cancelByUser(m, c))
  ELSE CASE key = "arrow" ->
              Done(Render([m EXCEPT !.voice.selected =
                             IF @ = "polished" THEN "transcript" ELSE "polished"]))
         [] key = "one" -> Done(selectResult(m, "polished"))
         [] key = "two" -> Done(selectResult(m, "transcript"))
         [] key \in {"confirm", "trigger"} -> Done(selectResult(m, m.voice.selected))
         [] OTHER -> Goes(cancelByUser(m, c))

\* The rest of handleKeyEvent, for the press of a key.
handleTriggerKey(m, c, key) ==
  IF m.ic[c].tap # "Idle" /\ key = "trigger" THEN Apply(m, c, "Repeated", "none")
  ELSE LET over == IF m.ic[c].tap \in {"ActiveTriggerRelease", "FailedTriggerRelease"}
                   THEN Apply(m, c, "Elapsed", "none") ELSE m
           seen == IF over.ic[c].error
                   THEN clearOwnPanel([over EXCEPT !.ic[c].error = FALSE], c) ELSE over
       IN IF seen.ic[c].tap = "Pending" THEN Apply(seen, c, "Other", "none")
          ELSE IF seen.ic[c].tap = "Active"
          THEN Apply(seen, c, IF key = "escape" THEN "Cancelled" ELSE "Other", "none")
          ELSE IF key = "trigger" THEN Apply(seen, c, "Pressed", "none")
          ELSE seen

Press(m, c, key) ==
  LET toggled == handlePolishingToggleKey(m, c, key)
      selected == handleVoiceSelectionKey(toggled.next, c, key)
  IN IF toggled.done THEN toggled.next
     ELSE IF selected.done THEN selected.next
     ELSE handleTriggerKey(selected.next, c, key)

Release(m, c, key) ==
  CASE key = "toggle" -> [m EXCEPT !.ic[c].toggleHeld = FALSE]
    [] key = "trigger" -> Apply(m, c, "Released", "none")
    [] OTHER -> m

-------------------------------------------------------------------------------
(***************************************************************************)
(* What the daemon says.                                                   *)
(***************************************************************************)
\* Mutant of handleSessionStarted: whether anybody still wants the session is not asked.
handleSessionStartedAlways(m, s) == [m EXCEPT !.voice.id = s, !.voice.pending = FALSE]

\* Mutant of handleSessionStarted: the release of the trigger before the session was
\* known is forgotten.
handleSessionStartedLate(m, s) ==
  IF m.voice.ic = None THEN Queue([m EXCEPT !.pendingCancel = FALSE], s, "cancel", "user")
  ELSE [m EXCEPT !.voice.id = s, !.voice.pending = FALSE]

handleSessionStarted(m, s) ==
  CASE m.voice.ic = None ->
         Queue([m EXCEPT !.pendingCancel = FALSE], s, "cancel", "user")
    [] m.voice.ic # None /\ m.voice.id \notin {None, s} ->
         handleDaemonError(Queue(m, s, "cancel", "user"), m.voice.id)
    [] OTHER ->
         LET known == [m EXCEPT !.voice.id = s, !.voice.pending = FALSE] IN
         IF m.voice.finish THEN Send(known, "finish", "none") ELSE known

handlePhase(m, s, phase) ==
  IF m.voice.ic = None
  THEN IF m.pendingCancel /\ phase = "preparing"
       THEN Queue([m EXCEPT !.pendingCancel = FALSE], s, "cancel", "user")
       ELSE m
  ELSE LET adopted == IF m.voice.id = None /\ m.voice.pending /\ phase = "preparing"
                      THEN [m EXCEPT !.voice.id = s] ELSE m
       IN IF adopted.voice.id # s THEN m
          ELSE Render([adopted EXCEPT !.voice.phase = phase,
                                      !.voice.saw = @ \/ phase = "polishing"])

handlePolishingState(m, enabled) == Render([m EXCEPT !.voice.on = enabled])

\* `shown` as published; `same`: the polished text is equal to the transcript.
handleResults(m, shown, same) ==
  LET polished == IF shown \in {"streaming", "final"} THEN shown ELSE "none"
      recommended == IF shown \in {"streaming", "final"} THEN "polished" ELSE shown
      seen == [m EXCEPT !.voice.transcript = TRUE, !.voice.polished = polished,
                        !.voice.recommended = recommended]
      shows == Render(seen)
  IN IF ~m.voice.selection /\ polished = "final" /\ same THEN selectResult(seen, "transcript")
     ELSE IF ~m.autoSelect \/ m.voice.selection THEN shows
     ELSE CASE recommended = "polished" /\ polished = "final" -> selectResult(shows, "polished")
            [] recommended = "transcript" /\ m.voice.saw -> selectResult(shows, "transcript")
            [] OTHER -> shows

\* Mutant of handleCompleted: the panel stays.
handleCompletedShown(m, s) == [m EXCEPT !.voice = NoVoice]

handleCompleted(m, s) ==
  [clearOwnPanel(m, m.voice.ic) EXCEPT !.voice = NoVoice]

handleSessionError(m, s) ==
  LET known == IF m.voice.id = None /\ m.voice.pending THEN [m EXCEPT !.voice.id = s] ELSE m
  IN IF known.voice.id # s THEN known ELSE handleDaemonError(known, s)

\* handleDaemonReady and sendPendingStart, once initialize was answered.
handleInitialized(m) ==
  sendPendingStart(IF m.voice.id = None THEN Render([m EXCEPT !.ready = TRUE])
                                        ELSE [m EXCEPT !.ready = TRUE])

\* The notifications about the session that is shown are for somebody.
Mine(m, s) == m.voice.ic # None /\ m.voice.id = s

\* handleMessage, for an answer and then for a notification.
Answered(m, a) ==
  CASE a.method = "initialize" /\ a.value = "ok" -> handleInitialized(m)
    [] a.method = "start" /\ a.value = "ok" -> handleSessionStarted(m, a.session)
    [] a.method \in {"initialize", "start"} /\ a.value = "error" -> handleDaemonError(m, None)
    [] a.method \in {"finish", "cancel", "select", "polish"} /\ a.value = "error" ->
         handleDaemonError(m, a.session)
    [] OTHER -> m

Notified(m, n, same) ==
  CASE n.method = "phase" -> handlePhase(m, n.session, n.value)
    [] n.method = "error" -> handleSessionError(m, n.session)
    [] OTHER ->
         IF ~Mine(m, n.session) THEN m
         ELSE CASE n.method = "polishingState" -> handlePolishingState(m, n.value = "on")
                [] n.method = "results" -> handleResults(m, n.value, same)
                [] n.method = "completed" -> handleCompleted(m, n.session)

Notifications == {"phase", "polishingState", "results", "completed", "error"}

-------------------------------------------------------------------------------
(***************************************************************************)
(* The actions.                                                            *)
(***************************************************************************)
\* What a handler left behind.
Do(m) ==
  /\ im' = [m EXCEPT !.sent = <<>>]
  /\ requests' = requests \o m.sent

\* The user, an application or the desktop does something.
Input ==
  /\ inputs < Inputs
  /\ inputs' = inputs + 1

KeyPressed(key) ==
  /\ focus # None
  /\ Input
  /\ Do(Press(im, focus, key))
  /\ UNCHANGED <<focus, replies, commits>>

KeyReleased(key) ==
  /\ focus # None
  /\ Input
  /\ Do(Release(im, focus, key))
  /\ UNCHANGED <<focus, replies, commits>>

\* The timer armed by armHoldTimer.
HoldElapses(c, dial) ==
  /\ im.ic[c].hold
  /\ Do(Apply([im EXCEPT !.ic[c].hold = FALSE], c, "Threshold", dial))
  /\ UNCHANGED <<focus, replies, inputs, commits>>

\* The timer armed by armTriggerReleaseTimer.
GraceElapses(c) ==
  /\ im.ic[c].grace
  /\ Do(Apply([im EXCEPT !.ic[c].grace = FALSE], c, "Elapsed", "none"))
  /\ UNCHANGED <<focus, replies, inputs, commits>>

\* A candidate that renderResults offers is clicked.
CandidateClicked(choice) ==
  /\ Input
  /\ im.voice.ic # None
  /\ im.voice.transcript
  /\ isPolishing(im) \/ (~im.autoSelect /\ hasManualChoice(im))
  /\ Do(selectResult(im, choice))
  /\ UNCHANGED <<focus, replies, commits>>

\* Focus moves: the context that loses it is reset; Fcitx also resets it when the
\* application or the input method asks, and before it is destroyed.
FocusMoves(c) ==
  /\ Input
  /\ c # focus
  /\ IF focus = None THEN Do(im) ELSE Do(resetInputContext(im, focus))
  /\ focus' = c
  /\ UNCHANGED <<replies, commits>>

ContextReset ==
  /\ Input
  /\ focus # None
  /\ Do(resetInputContext(im, focus))
  /\ UNCHANGED <<focus, replies, commits>>

\* setConfig and reloadConfig
ConfigChanges(auto) ==
  /\ Input
  /\ auto # im.autoSelect
  /\ Do([resetAllInputContexts(im) EXCEPT !.autoSelect = auto])
  /\ UNCHANGED <<focus, replies, commits>>

\* completeConnection
ConnectionCompletes ==
  /\ im.connection = "Connecting"
  /\ Do(sendInitialize([im EXCEPT !.connection = "Connected"]))
  /\ UNCHANGED <<focus, replies, inputs, commits>>

\* The socket failed, or the daemon closed it; what was not read is lost.
Disconnects ==
  /\ im.connection # "Disconnected"
  /\ im' = disconnect(im)
  /\ replies' = <<>>
  /\ UNCHANGED <<focus, requests, inputs, commits>>

\* readAvailable and handleMessage; a text is typed into the context that shows the
\* session, and nowhere else.
MessageArrives ==
  /\ replies # <<>>
  /\ LET n == Head(replies) IN
     /\ IF n.method \in Notifications
        THEN \E same \in BOOLEAN : Do(Notified(im, n, same))
        ELSE Do(Answered(im, n))
     /\ commits' = IF n.method = "completed" /\ Mine(im, n.session)
                   THEN [commits EXCEPT ![n.session] = Append(@, im.voice.ic)]
                   ELSE commits
  /\ replies' = Tail(replies)
  /\ UNCHANGED <<focus, inputs>>

Init ==
  /\ \E auto \in BOOLEAN : im = Loaded(auto)
  /\ focus \in Contexts
  /\ requests = <<>>
  /\ replies = <<>>
  /\ inputs = 0
  /\ commits = [s \in Sessions |-> <<>>]

===============================================================================
