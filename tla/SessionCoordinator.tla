-------------------------- MODULE SessionCoordinator --------------------------
(***************************************************************************)
(* The session coordinator of one RPC connection of the daemon             *)
(* (apps/daemon/src/session-coordinator.ts): the only place where a voice  *)
(* session is created, recorded, recognised, processed, polished, chosen   *)
(* from and settled.                                                       *)
(*                                                                         *)
(* The coordinator runs on one JavaScript thread, so a stretch of code     *)
(* between two awaits is one action, and everything that waits - start(),  *)
(* finish(), cancel(), #fail(), the ASR event pump and the audio pump - is *)
(* a suspension point of its own in the record of its session.  A          *)
(* suspended operation goes on after its session was settled, and a new    *)
(* session may be active by then: nothing resets an old record.            *)
(*                                                                         *)
(* The capture backend, the ASR provider, the text pipeline and the        *)
(* polisher are known only through their interfaces: a call in flight may  *)
(* answer or fail at any time, in any order.                               *)
(***************************************************************************)
EXTENDS Naturals, Sequences

CONSTANTS
  Sessions,     \* the fresh identifiers createSessionId() will return
  None,         \* "undefined": no session
  Policies,     \* the polishing configurations a session may start under
  Toggles       \* the arguments clients give to setPolishingEnabled()

\* textPolisher and polishingPolicy.defaultEnabled, snapshotted when a session
\* starts: no polisher, polished unless switched off, polished on demand only.
AllPolicies == {"absent", "default", "onDemand"}

ASSUME NoneIsNoSession == None \notin Sessions
ASSUME PoliciesAreKnown == Policies \subseteq AllPolicies
ASSUME TogglesAreBoolean == Toggles \subseteq BOOLEAN

VARIABLES
  state,        \* #state
  active,       \* #active, by its session id
  lastSettled,  \* #lastSettledSessionId
  gate,         \* the owner of the DaemonSessionGate shared by all connections
  ses,          \* the ActiveSession objects and their suspended operations
  outbox        \* what the last step handed to #publish, in order

coord == <<state, active, lastSettled, gate>>
vars == <<state, active, lastSettled, gate, ses, outbox>>

-------------------------------------------------------------------------------
(***************************************************************************)
(* Values.                                                                 *)
(***************************************************************************)
AllowedTransitions ==
  [ idle        |-> {"starting"},
    starting    |-> {"recording", "cancelling", "failed"},
    recording   |-> {"finishing", "cancelling", "failed"},
    finishing   |-> {"recognizing", "cancelling", "failed"},
    recognizing |-> {"processing", "cancelling", "failed"},
    processing  |-> {"polishing", "completed", "cancelling", "failed"},
    polishing   |-> {"choosing", "completed", "cancelling", "failed"},
    choosing    |-> {"completed", "cancelling", "failed"},
    completed   |-> {"idle"},
    cancelling  |-> {"cancelled", "failed"},
    cancelled   |-> {"idle"},
    failed      |-> {"idle"} ]

SessionStates == DOMAIN AllowedTransitions

Phases == {"preparing", "recording", "recognizing", "processing", "polishing",
           "choosing"}
Choices == {"transcript", "polished"}
Outcomes == {"completed", "cancelled", "failed"}

Modes == {"auto", "forceOn", "forceOff"}

\* "closed" covers every way a backend has let go of its resource.
AsrStates == {"none", "created", "open", "closed"}
CaptureStates == {"none", "starting", "open", "stopped", "closed"}

ActiveSession ==
  [ start      : {"none", "creating", "asrStarting", "capStarting", "undoing",
                  "failing", "returned", "threw"},
    finish     : {"none", "stopping", "draining", "asrFinishing", "failing",
                  "resolved", "rejected"},            \* finishOperation
    cancel     : {"none", "waiting", "done"},          \* cancelOperation
    fail       : {"none", "waiting", "done"},          \* "none" iff no failure
    events     : {"none", "reading", "processing", "polishing", "validating",
                  "ended"},                            \* eventPump
    pump       : {"none", "reading", "writing", "failing", "ended"}, \* audioPump
    timer      : BOOLEAN,                              \* recordingTimer armed
    aborted    : BOOLEAN,                              \* abortController
    asr        : AsrStates,
    capture    : CaptureStates,
    policy     : AllPolicies,
    mode       : Modes,                                \* polishingMode
    marker     : BOOLEAN,                              \* polishingEnabled
    transcript : BOOLEAN,                              \* transcript is non-empty
    polished   : BOOLEAN,                              \* polished is non-empty
    delta      : BOOLEAN,                              \* polished text so far
    request    : {"none", "live", "aborted", "done"},  \* the polish request
    phase      : {"none"} \cup Phases,
    offered    : SUBSET Choices,                       \* final results announced
    told       : {"none", "error"} \cup Choices,       \* terminal notification
    outcome    : {"none"} \cup Outcomes ]              \* what #settle was told

NewSession ==
  [ start |-> "none", finish |-> "none", cancel |-> "none", fail |-> "none",
    events |-> "none", pump |-> "none", timer |-> FALSE, aborted |-> FALSE,
    asr |-> "none", capture |-> "none", policy |-> "absent", mode |-> "auto",
    marker |-> FALSE, transcript |-> FALSE, polished |-> FALSE,
    delta |-> FALSE, request |-> "none", phase |-> "none", offered |-> {},
    told |-> "none", outcome |-> "none" ]

Methods == {"phase", "preview", "results", "polishingState", "completed", "error"}

NoteValues == Phases \cup Choices \cup
              {"on", "off", "none", "streaming", "final", "text", "failure"}

Notification(s, method, value) ==
  [session |-> s, method |-> method, value |-> value]

PolishingState(s, enabled) ==
  Notification(s, "polishingState", IF enabled THEN "on" ELSE "off")

-------------------------------------------------------------------------------
(***************************************************************************)
(* The private helpers of the coordinator.                                 *)
(***************************************************************************)
isCurrent(s) == active = s

\* One session changes and nothing of the coordinator does.
Quietly(s, a) ==
  /\ ses' = [ses EXCEPT ![s] = a]
  /\ outbox' = <<>>
  /\ UNCHANGED coord

\* #transition, for a session that is current and a legal step.
Transition(to) ==
  /\ state' = to
  /\ UNCHANGED <<active, lastSettled, gate>>

\* #transition and #announcePhase together: every caller makes both.
Enter(s, a, to, before) ==
  /\ Transition(to)
  /\ ses' = [ses EXCEPT ![s] = [a EXCEPT !.phase = to]]
  /\ outbox' = Append(before, Notification(s, "phase", to))

\* Mutant of Settle: the session is settled and the state never goes back to idle.
SettleWithoutIdle(s, a, outcome, notices) ==
  /\ ses' = [ses EXCEPT ![s] = [a EXCEPT !.timer = FALSE, !.outcome = outcome]]
  /\ outbox' = notices
  /\ lastSettled' = s
  /\ active' = None
  /\ state' = outcome
  /\ gate' = "none"

\* #settle: the session stops being the active one, whatever still runs for it.
Settle(s, a, outcome, notices) ==
  /\ ses' = [ses EXCEPT ![s] = [a EXCEPT !.timer = FALSE, !.outcome = outcome]]
  /\ outbox' = notices
  /\ lastSettled' = s
  /\ active' = None
  /\ state' = "idle"
  /\ gate' = IF gate = "self" THEN "none" ELSE gate

\* #completeResult
Complete(s, a, choice, before) ==
  Settle(s, [a EXCEPT !.told = choice], "completed",
         Append(before, Notification(s, "completed", choice)))

\* Mutant of Interrupt: only the recogniser is told.
InterruptAsrOnly(a) ==
  [a EXCEPT !.asr = IF @ = "none" THEN "none" ELSE "closed"]

\* What abort() and the two cancel() calls do at once; their promises are
\* awaited by #cancelActive and #fail.
Interrupt(a) ==
  [a EXCEPT !.aborted = TRUE,
            !.request = IF @ = "live" THEN "aborted" ELSE @,
            !.capture = IF @ = "none" THEN "none" ELSE "closed",
            !.asr = IF @ = "none" THEN "none" ELSE "closed"]

\* The early return of #fail; a current session never rests in "failed".
CanFail(s) ==
  /\ isCurrent(s)
  /\ ses[s].fail = "none"
  /\ state # "cancelling"

\* A call of #fail: `began` is the session with its caller waiting for the
\* backends to be cancelled, `skipped` with its caller going on at once.
Fail(s, began, skipped) ==
  Quietly(s, IF CanFail(s) THEN [Interrupt(began) EXCEPT !.fail = "waiting"]
                           ELSE skipped)

Marker(policy, mode) ==
  /\ policy # "absent"
  /\ mode = "forceOn" \/ (mode = "auto" /\ policy = "default")

\* textPolisher && #shouldPolish: in automatic mode it also depends on the length
\* of the transcript, hence a set of decisions.
PolishDecisions(a) ==
  { /\ a.policy # "absent"
    /\ \/ a.mode = "forceOn"
       \/ a.mode = "auto" /\ a.policy = "default" /\ longEnough : longEnough \in BOOLEAN }

\* #publishResults: nothing recommended yet, the transcript recommended, or the
\* polished text recommended, streaming or final.
Results(s, shown) == Notification(s, "results", shown)

-------------------------------------------------------------------------------
(***************************************************************************)
(* start()                                                                 *)
(***************************************************************************)
Start(s) ==
  /\ active = None
  /\ gate = "none"
  /\ ses[s].start = "none"
  /\ \E policy \in Policies :
       LET marker == Marker(policy, "auto") IN
       /\ ses' = [ses EXCEPT ![s].start = "creating", ![s].phase = "preparing",
                             ![s].policy = policy, ![s].marker = marker]
       /\ outbox' = <<Notification(s, "phase", "preparing"),
                      PolishingState(s, marker)>>
  /\ state' = "starting"
  /\ active' = s
  /\ gate' = "self"
  /\ UNCHANGED lastSettled

\* createSession() resolved; asr.start(signal) is called.
AsrCreated(s) ==
  /\ ses[s].start = "creating"
  /\ Quietly(s, [ses[s] EXCEPT !.start = "asrStarting", !.asr = "created"])

\* asr.start() resolved: the event pump starts, and capture.start(signal).  A
\* provider started with an aborted signal, or cancelled meanwhile, is closed.
AsrStarted(s) ==
  /\ ses[s].start = "asrStarting"
  /\ Quietly(s, [ses[s] EXCEPT !.start = "capStarting",
                               !.asr = IF ses[s].aborted THEN "closed" ELSE "open",
                               !.events = "reading",
                               !.capture = "starting"])

\* Mutant of StartAsrFails: start() rejects without failing the session.
StartAsrFailsSilently(s) ==
  /\ ses[s].start \in {"creating", "asrStarting"}
  /\ Quietly(s, [ses[s] EXCEPT !.start = "threw"])

StartAsrFails(s) ==
  /\ ses[s].start \in {"creating", "asrStarting"}
  /\ LET a == [ses[s] EXCEPT !.asr = IF @ = "none" THEN "none" ELSE "closed"] IN
     Fail(s, [a EXCEPT !.start = "failing"], [a EXCEPT !.start = "threw"])

\* Mutant of CaptureStarted: the check of active.failure is missing.
CaptureStartedDespiteFailure(s) ==
  LET recording == [ses[s] EXCEPT !.start = "returned", !.timer = TRUE, !.pump = "reading",
                                  !.capture = IF ses[s].aborted THEN "closed" ELSE "open"]
  IN
  /\ ses[s].start = "capStarting"
  /\ IF isCurrent(s) /\ state = "starting"
     THEN Enter(s, recording, "recording", <<>>)
     ELSE Quietly(s, recording)

\* capture.start() resolved.  A session that failed meanwhile is undone; while
\* it is being cancelled #transition throws; after it was cancelled #transition
\* does nothing, and the timer and the audio pump start all the same.
CaptureStarted(s) ==
  LET a == [ses[s] EXCEPT !.capture = IF ses[s].aborted THEN "closed" ELSE "open"]
      recording == [a EXCEPT !.start = "returned", !.timer = TRUE, !.pump = "reading"]
  IN
  /\ ses[s].start = "capStarting"
  /\ \/ /\ a.fail # "none"
        /\ Quietly(s, [a EXCEPT !.start = "undoing", !.capture = "closed"])
     \/ /\ a.fail = "none" /\ isCurrent(s) /\ state = "starting"
        /\ Enter(s, recording, "recording", <<>>)
     \/ /\ a.fail = "none" /\ isCurrent(s) /\ state = "cancelling"
        /\ Quietly(s, [a EXCEPT !.start = "threw"])
     \/ /\ a.fail = "none" /\ ~isCurrent(s)
        /\ Quietly(s, recording)

CaptureStartFails(s) ==
  /\ ses[s].start = "capStarting"
  /\ LET a == [ses[s] EXCEPT !.capture = "closed"] IN
     Fail(s, [a EXCEPT !.start = "failing"], [a EXCEPT !.start = "threw"])

\* start() rejects: after the capture it undid, or after its own #fail().
StartThrows(s) ==
  /\ \/ ses[s].start = "undoing"
     \/ ses[s].start = "failing" /\ ses[s].fail = "done"
  /\ Quietly(s, [ses[s] EXCEPT !.start = "threw"])

\* Mutant of RecordingTimeout: the timer trusts a finish that was asked for.
RecordingTimeoutUnlessFinished(s) ==
  /\ ses[s].timer
  /\ LET a == [ses[s] EXCEPT !.timer = FALSE] IN
     IF a.finish = "none" THEN Fail(s, a, a) ELSE Quietly(s, a)

RecordingTimeout(s) ==
  /\ ses[s].timer
  /\ LET a == [ses[s] EXCEPT !.timer = FALSE] IN Fail(s, a, a)

\* Mutant of SetPolishingEnabled: accepted in every state of the session.
SetPolishingAnyTime(s, enabled) ==
  LET mode == IF enabled THEN "forceOn" ELSE "forceOff" IN
  /\ isCurrent(s)
  /\ Quietly(s, [ses[s] EXCEPT !.mode = mode, !.marker = Marker(ses[s].policy, mode)])

SetPolishingEnabled(s, enabled) ==
  LET mode == IF enabled THEN "forceOn" ELSE "forceOff"
      marker == Marker(ses[s].policy, mode)
  IN
  /\ isCurrent(s)
  /\ state = "recording"
  /\ ses' = [ses EXCEPT ![s].mode = mode, ![s].marker = marker]
  /\ outbox' = IF marker = ses[s].marker THEN <<>>
               ELSE <<PolishingState(s, marker)>>
  /\ UNCHANGED coord

-------------------------------------------------------------------------------
(***************************************************************************)
(* finish(): the first call creates finishOperation, and every later call  *)
(* only waits for it.  The first call never finds the session in a state   *)
(* after "recording": it alone leads there, so that early return of        *)
(* #finishActive is dead code.                                             *)
(***************************************************************************)
\* Mutant of Finish: it does not look at the state.
FinishFromAnyState(s) ==
  /\ isCurrent(s)
  /\ ses[s].finish = "none"
  /\ Transition("finishing")
  /\ ses' = [ses EXCEPT ![s].finish = "stopping", ![s].timer = FALSE]
  /\ outbox' = <<>>

Finish(s) ==
  /\ isCurrent(s)
  /\ ses[s].finish = "none"
  /\ \/ /\ state = "recording"
        /\ Transition("finishing")
        /\ ses' = [ses EXCEPT ![s].finish = "stopping", ![s].timer = FALSE]
        /\ outbox' = <<>>
     \/ /\ state \in {"starting", "cancelling"}
        /\ Quietly(s, [ses[s] EXCEPT !.finish = "rejected"])

CaptureStopped(s) ==
  /\ ses[s].finish = "stopping"
  /\ Quietly(s, [ses[s] EXCEPT !.finish = "draining",
                               !.capture = IF @ = "open" THEN "stopped" ELSE @])

CaptureStopFails(s) ==
  /\ ses[s].finish = "stopping"
  /\ Fail(s, [ses[s] EXCEPT !.finish = "failing"], [ses[s] EXCEPT !.finish = "rejected"])

\* The audio pump ended: every frame was written, and asr.finish() is called.
Drained(s) ==
  LET a == ses[s] IN
  /\ a.finish = "draining"
  /\ a.pump = "ended"
  /\ \/ /\ a.fail # "none"
        /\ Quietly(s, [a EXCEPT !.finish = "rejected"])
     \/ /\ a.fail = "none"
        /\ ~isCurrent(s) \/ state # "finishing"
        /\ Quietly(s, [a EXCEPT !.finish = "resolved"])
     \/ /\ a.fail = "none" /\ isCurrent(s) /\ state = "finishing"
        /\ Enter(s, [a EXCEPT !.finish = "asrFinishing"], "recognizing", <<>>)

AsrFinished(s) ==
  /\ ses[s].finish = "asrFinishing"
  /\ Quietly(s, [ses[s] EXCEPT !.finish = "resolved"])

AsrFinishFails(s) ==
  /\ ses[s].finish = "asrFinishing"
  /\ IF ~isCurrent(s) \/ state = "cancelling"
     THEN Quietly(s, [ses[s] EXCEPT !.finish = "resolved"])
     ELSE Fail(s, [ses[s] EXCEPT !.finish = "failing"],
                  [ses[s] EXCEPT !.finish = "rejected"])

FinishThrows(s) ==
  /\ ses[s].finish = "failing"
  /\ ses[s].fail = "done"
  /\ Quietly(s, [ses[s] EXCEPT !.finish = "rejected"])

-------------------------------------------------------------------------------
(***************************************************************************)
(* cancel(), #fail() and selectResult().                                   *)
(***************************************************************************)
Cancel(s) ==
  /\ isCurrent(s)
  /\ ses[s].cancel = "none"
  /\ Transition("cancelling")
  /\ ses' = [ses EXCEPT ![s] = [Interrupt(@) EXCEPT !.cancel = "waiting"]]
  /\ outbox' = <<>>

\* Mutant of CancelSettles: another operation may have settled the session.
CancelSettlesTwice(s) ==
  /\ ses[s].cancel = "waiting"
  /\ Settle(s, [ses[s] EXCEPT !.cancel = "done"], "cancelled", <<>>)

\* Mutant of CancelSettles: it waits for the end of the audio, which never began
\* for a session cancelled while starting.
CancelSettlesAfterAudio(s) ==
  LET a == [ses[s] EXCEPT !.cancel = "done"] IN
  /\ ses[s].cancel = "waiting"
  /\ ses[s].pump = "ended"
  /\ IF isCurrent(s) THEN Settle(s, a, "cancelled", <<>>) ELSE Quietly(s, a)

CancelSettles(s) ==
  LET a == [ses[s] EXCEPT !.cancel = "done"] IN
  /\ ses[s].cancel = "waiting"
  /\ IF isCurrent(s) THEN Settle(s, a, "cancelled", <<>>) ELSE Quietly(s, a)

\* Mutant of FailSettles: the session may have been cancelled meanwhile.
FailSettlesTwice(s) ==
  /\ ses[s].fail = "waiting"
  /\ Settle(s, [ses[s] EXCEPT !.fail = "done", !.told = "error"], "failed",
            <<Notification(s, "error", "failure")>>)

\* Mutant of FailSettles: #fail waits for the audio pump, as finish() does, even
\* when it is the pump that called it.
FailSettlesAfterAudio(s) ==
  LET a == [ses[s] EXCEPT !.fail = "done"] IN
  /\ ses[s].fail = "waiting"
  /\ ses[s].pump \in {"none", "ended"}
  /\ IF isCurrent(s)
     THEN Settle(s, [a EXCEPT !.told = "error"], "failed",
                 <<Notification(s, "error", "failure")>>)
     ELSE Quietly(s, a)

\* The backends are cancelled: #fail reports the failure and settles.
FailSettles(s) ==
  LET a == [ses[s] EXCEPT !.fail = "done"] IN
  /\ ses[s].fail = "waiting"
  /\ IF isCurrent(s)
     THEN Settle(s, [a EXCEPT !.told = "error"], "failed",
                 <<Notification(s, "error", "failure")>>)
     ELSE Quietly(s, a)

\* Mutant of SelectResult: a result that is still streaming may be chosen.
SelectUnfinishedResult(s, choice) ==
  /\ isCurrent(s)
  /\ state \in {"polishing", "choosing"}
  /\ Complete(s, ses[s], choice, <<>>)

\* Mutant of SelectResult: it does not look at the state.
SelectFromAnyState(s, choice) ==
  /\ isCurrent(s)
  /\ IF choice = "polished" THEN ses[s].polished ELSE ses[s].transcript
  /\ Complete(s, ses[s], choice, <<>>)

SelectResult(s, choice) ==
  LET a == ses[s] IN
  /\ isCurrent(s)
  /\ state \in {"polishing", "choosing"}
  /\ IF choice = "polished" THEN a.polished ELSE a.transcript
  /\ Complete(s, [a EXCEPT !.request = IF @ = "live" THEN "aborted" ELSE @], choice, <<>>)

-------------------------------------------------------------------------------
(***************************************************************************)
(* #pumpAudio                                                              *)
(***************************************************************************)
FrameArrives(s) ==
  /\ ses[s].pump = "reading"
  /\ Quietly(s, [ses[s] EXCEPT !.pump = IF isCurrent(s) THEN "writing" ELSE "ended"])

FrameWritten(s) ==
  /\ ses[s].pump = "writing"
  /\ Quietly(s, [ses[s] EXCEPT !.pump = "reading"])

FrameWriteFails(s) ==
  /\ ses[s].pump = "writing"
  /\ Fail(s, [ses[s] EXCEPT !.pump = "failing"], [ses[s] EXCEPT !.pump = "ended"])

\* The frames end: a failure while recording, the normal end otherwise.
AudioEnds(s) ==
  LET a == [ses[s] EXCEPT !.pump = "ended"] IN
  /\ ses[s].pump = "reading"
  /\ IF isCurrent(s) /\ state = "recording"
     THEN Fail(s, [a EXCEPT !.pump = "failing"], a)
     ELSE Quietly(s, a)

AudioThrows(s) ==
  /\ ses[s].pump = "reading"
  /\ Fail(s, [ses[s] EXCEPT !.pump = "failing"], [ses[s] EXCEPT !.pump = "ended"])

AudioPumpFailed(s) ==
  /\ ses[s].pump = "failing"
  /\ ses[s].fail = "done"
  /\ Quietly(s, [ses[s] EXCEPT !.pump = "ended"])

-------------------------------------------------------------------------------
(***************************************************************************)
(* #consumeAsrEvents, #handleAsrEvent and #processTranscript.  When the    *)
(* event pump ends through #fail() nothing waits for it, so it is "ended"  *)
(* at once.                                                                *)
(***************************************************************************)
AsrPreview(s) ==
  /\ ses[s].events = "reading"
  /\ isCurrent(s)
  /\ outbox' = <<Notification(s, "preview", "text")>>
  /\ UNCHANGED <<coord, ses>>

\* Any event that reaches a pump whose session was settled.
StaleAsrEvent(s) ==
  /\ ses[s].events = "reading"
  /\ ~isCurrent(s)
  /\ Quietly(s, [ses[s] EXCEPT !.events = "ended"])

\* Mutant of AsrCompleted: the session need not be the current one.
StaleAsrCompleted(s) ==
  LET a == [ses[s] EXCEPT !.asr = "closed"] IN
  /\ ses[s].events = "reading"
  /\ IF state = "recognizing"
     THEN Enter(s, [a EXCEPT !.events = "processing"], "processing", <<>>)
     ELSE LET ended == [a EXCEPT !.events = "ended"] IN Fail(s, ended, ended)

AsrCompleted(s) ==
  LET a == [ses[s] EXCEPT !.asr = "closed"] IN
  /\ ses[s].events = "reading"
  /\ isCurrent(s)
  /\ IF state = "recognizing"
     THEN Enter(s, [a EXCEPT !.events = "processing"], "processing", <<>>)
     ELSE LET ended == [a EXCEPT !.events = "ended"] IN Fail(s, ended, ended)

\* An error event, or the stream ended or threw before a final transcript.
AsrFails(s) ==
  LET ended == [ses[s] EXCEPT !.events = "ended", !.asr = "closed"] IN
  /\ ses[s].events = "reading"
  /\ isCurrent(s)
  /\ Fail(s, ended, ended)

\* processTranscript() resolved with a text.  Nothing checks that the session is
\* still the current one before the polisher is started.
TranscriptProcessed(s) ==
  LET a == [ses[s] EXCEPT !.transcript = TRUE]
      \* recommended at once unless it is going to be polished
      results(polish) == <<Results(s, IF polish THEN "none" ELSE "transcript")>>
      shown == [a EXCEPT !.offered = @ \cup {"transcript"}]
      polishing == [a EXCEPT !.events = "polishing", !.request = "live"]
      ended == [a EXCEPT !.events = "ended"]
      \* #transition throws: the pump's catch finds the session cancelling
      throws(polish) == /\ ses' = [ses EXCEPT ![s] = [shown EXCEPT !.events = "ended"]]
                        /\ outbox' = results(polish)
                        /\ UNCHANGED coord
  IN
  /\ ses[s].events = "processing"
  /\ \E polish \in PolishDecisions(ses[s]) :
       \/ /\ ~isCurrent(s)
          /\ Quietly(s, IF polish THEN polishing ELSE ended)
       \/ /\ isCurrent(s) /\ state = "cancelling"
          /\ throws(polish)
       \/ /\ isCurrent(s) /\ state # "cancelling" /\ polish
          /\ Enter(s, [polishing EXCEPT !.offered = shown.offered], "polishing",
                   results(polish))
       \/ /\ isCurrent(s) /\ state # "cancelling" /\ ~polish
          /\ Complete(s, [shown EXCEPT !.events = "ended"], "transcript",
                      results(polish))

\* processTranscript() rejected, or its text is empty.
ProcessingFails(s) ==
  LET ended == [ses[s] EXCEPT !.events = "ended"] IN
  /\ ses[s].events = "processing"
  /\ Fail(s, ended, ended)

-------------------------------------------------------------------------------
(***************************************************************************)
(* #runPolisher.  It ends silently when the session has moved on.          *)
(***************************************************************************)
\* Mutant of PolishWanted: any session in "polishing" will do.
PolishWantedBySomeone(s) == state = "polishing"

PolishWanted(s) == isCurrent(s) /\ state = "polishing"

PolisherDone(a) ==
  [a EXCEPT !.events = "ended", !.request = IF @ = "live" THEN "done" ELSE @]

\* Mutant of PolishFallback: the session is left in "polishing".
PolishAbandoned(s, a) == Quietly(s, PolisherDone(a))

\* #finishPolishFallback, unless the session has moved on.
PolishFallback(s, a) ==
  IF PolishWanted(s)
  THEN Enter(s, [PolisherDone(a) EXCEPT !.polished = FALSE], "choosing",
             <<Results(s, "transcript")>>)
  ELSE Quietly(s, PolisherDone(a))

PolishDelta(s) ==
  /\ ses[s].events = "polishing"
  /\ IF PolishWanted(s)
     THEN /\ ses' = [ses EXCEPT ![s].delta = TRUE]
          /\ outbox' = <<Results(s, "streaming")>>
          /\ UNCHANGED coord
     ELSE Quietly(s, PolisherDone(ses[s]))

\* "completed" with a text: processPolished() validates it.
PolishCompleted(s) ==
  /\ ses[s].events = "polishing"
  /\ ses[s].delta
  /\ Quietly(s, IF PolishWanted(s) THEN [ses[s] EXCEPT !.events = "validating"]
                                   ELSE PolisherDone(ses[s]))

\* "error", "completed" without a text, or a stream that ends without either.
PolishUnavailable(s) ==
  /\ ses[s].events = "polishing"
  /\ PolishFallback(s, ses[s])

\* The stream throws, or processPolished() rejects: an aborted request is let go.
PolishThrows(s) ==
  /\ ses[s].events \in {"polishing", "validating"}
  /\ IF ses[s].request = "aborted"
     THEN Quietly(s, PolisherDone(ses[s]))
     ELSE PolishFallback(s, ses[s])

\* processPolished() resolved.
PolishValidated(s) ==
  LET a == [ses[s] EXCEPT !.polished = TRUE] IN
  /\ ses[s].events = "validating"
  /\ IF PolishWanted(s)
     THEN Enter(s, [PolisherDone(a) EXCEPT !.offered = Choices], "choosing",
                <<Results(s, "final")>>)
     ELSE Quietly(s, PolisherDone(a))

\* processPolished() resolved with an empty text.
PolishedEmpty(s) ==
  /\ ses[s].events = "validating"
  /\ PolishFallback(s, [ses[s] EXCEPT !.polished = FALSE])

-------------------------------------------------------------------------------
(***************************************************************************)
(* The coordinators of the other connections share the gate.               *)
(***************************************************************************)
OtherAcquires ==
  /\ gate = "none"
  /\ gate' = "other"
  /\ outbox' = <<>>
  /\ UNCHANGED <<state, active, lastSettled, ses>>

OtherReleases ==
  /\ gate = "other"
  /\ gate' = "none"
  /\ outbox' = <<>>
  /\ UNCHANGED <<state, active, lastSettled, ses>>

Init ==
  /\ state = "idle"
  /\ active = None
  /\ lastSettled = None
  /\ gate = "none"
  /\ ses = [s \in Sessions |-> NewSession]
  /\ outbox = <<>>

\* The client's requests; a disconnect is a Cancel.
ClientStep(s) ==
  \/ Start(s)
  \/ \E enabled \in Toggles : SetPolishingEnabled(s, enabled)
  \/ Finish(s)
  \/ Cancel(s)
  \/ \E choice \in Choices : SelectResult(s, choice)

StartStep(s) ==
  \/ AsrCreated(s)
  \/ AsrStarted(s)
  \/ StartAsrFails(s)
  \/ CaptureStarted(s)
  \/ CaptureStartFails(s)
  \/ StartThrows(s)

FinishStep(s) ==
  \/ CaptureStopped(s)
  \/ CaptureStopFails(s)
  \/ Drained(s)
  \/ AsrFinished(s)
  \/ AsrFinishFails(s)
  \/ FinishThrows(s)

AudioStep(s) ==
  \/ FrameArrives(s)
  \/ FrameWritten(s)
  \/ FrameWriteFails(s)
  \/ AudioEnds(s)
  \/ AudioThrows(s)
  \/ AudioPumpFailed(s)

AsrStep(s) ==
  \/ AsrPreview(s)
  \/ StaleAsrEvent(s)
  \/ AsrCompleted(s)
  \/ AsrFails(s)

TextStep(s) ==
  \/ TranscriptProcessed(s)
  \/ ProcessingFails(s)
  \/ PolishDelta(s)
  \/ PolishCompleted(s)
  \/ PolishUnavailable(s)
  \/ PolishThrows(s)
  \/ PolishValidated(s)
  \/ PolishedEmpty(s)

SessionStep(s) ==
  \/ ClientStep(s)
  \/ StartStep(s)
  \/ RecordingTimeout(s)
  \/ FinishStep(s)
  \/ CancelSettles(s)
  \/ FailSettles(s)
  \/ AudioStep(s)
  \/ AsrStep(s)
  \/ TextStep(s)

Next ==
  \/ \E s \in Sessions : SessionStep(s)
  \/ OtherAcquires
  \/ OtherReleases

Spec == Init /\ [][Next]_vars

-------------------------------------------------------------------------------
(***************************************************************************)
(* Fairness: every call the coordinator waits for answers.  The client is  *)
(* free to do nothing, and the microphone may record for ever, so neither  *)
(* has any; what bounds a recording is the timer.                          *)
(***************************************************************************)

\* The provider owes a final answer once asr.finish() was called (its final
\* timeout stands behind it) and ends its event stream once it is closed.
AsrAnswers(s) ==
  /\ ses[s].asr = "closed" \/ ses[s].finish \in {"asrFinishing", "resolved"}
  /\ StaleAsrEvent(s) \/ AsrCompleted(s) \/ AsrFails(s)

\* A capture that was stopped or cancelled has finitely many frames left.
AudioRunsOut(s) ==
  /\ ses[s].capture \in {"stopped", "closed"}
  /\ AudioEnds(s) \/ AudioThrows(s)

PolishEnds(s) ==
  \/ PolishCompleted(s) \/ PolishUnavailable(s) \/ PolishThrows(s)
  \/ PolishValidated(s) \/ PolishedEmpty(s)

Fairness ==
  \A s \in Sessions :
    /\ WF_vars(StartStep(s))
    /\ WF_vars(RecordingTimeout(s))
    /\ WF_vars(FinishStep(s))
    /\ WF_vars(CancelSettles(s))
    /\ WF_vars(FailSettles(s))
    /\ WF_vars(FrameWritten(s) \/ FrameWriteFails(s))
    /\ SF_vars(AudioRunsOut(s))
    /\ WF_vars(AudioPumpFailed(s))
    /\ WF_vars(AsrAnswers(s))
    /\ WF_vars(TranscriptProcessed(s) \/ ProcessingFails(s))
    /\ WF_vars(PolishEnds(s))

FairSpec == Spec /\ Fairness

-------------------------------------------------------------------------------
(***************************************************************************)
(* Properties.                                                             *)
(***************************************************************************)
isSettled(s) == ses[s].outcome # "none"

\* Every variable has its type; the transient states "completed", "cancelled"
\* and "failed" are never seen between two steps.
TypeOK ==
  /\ state \in SessionStates \ Outcomes
  /\ active \in Sessions \cup {None}
  /\ lastSettled \in Sessions \cup {None}
  /\ gate \in {"none", "self", "other"}
  /\ ses \in [Sessions -> ActiveSession]
  /\ outbox \in Seq([session : Sessions, method : Methods, value : NoteValues])

\* The daemon-wide gate is held exactly while a session is active, the
\* coordinator is idle exactly while none is, and the active session is the one
\* session that was started and not yet settled: whatever races to settle it,
\* the gate neither leaks nor is given away under a running session.
GateFollowsSession ==
  /\ (active = None) <=> (state = "idle")
  /\ (active # None) <=> (gate = "self")
  /\ \A s \in Sessions : active = s <=> (ses[s].start # "none" /\ ~isSettled(s))

\* Once a session is settled and its start() has answered, the microphone is not
\* recording for it and no provider connection is open, even when it was
\* cancelled or failed at some await in the middle of start().
NothingLeftRunning ==
  \A s \in Sessions :
    isSettled(s) /\ ses[s].start \in {"returned", "threw"} =>
      /\ ses[s].capture \notin {"starting", "open"}
      /\ ses[s].asr \notin {"created", "open"}

\* session.completed commits a result that an earlier session.results announced
\* as final: the client never commits a text it could not have shown.
CommittedResultWasOffered ==
  \A s \in Sessions : ses[s].told \in Choices => ses[s].told \in ses[s].offered

\* Once cancel() was accepted the session never commits a text, whatever the
\* recogniser, the text pipeline and the polisher still deliver.
CancelledNeverCommits ==
  \A s \in Sessions : ses[s].cancel # "none" => ses[s].told \notin Choices

\* session.start succeeds only for a session that announced "recording", or that
\* the client cancelled while it was starting; never for a failed one.
SuccessfulStartMeansRecording ==
  \A s \in Sessions :
    ses[s].start = "returned" =>
      ses[s].phase \notin {"none", "preparing"} \/ ses[s].outcome = "cancelled"

\* A polish request is only made for a session whose client was last told, while
\* recording, that polishing is on.
MarkerPromisesPolishing ==
  \A s \in Sessions : ses[s].request # "none" => ses[s].marker

\* Every state change is one that ALLOWED_TRANSITIONS permits, whichever handler or resumed
\* continuation makes it; settling passes through the outcome's state.
LegalTransitions ==
  [][ \/ state' \in AllowedTransitions[state]
      \/ \E s \in Sessions : /\ ~isSettled(s) /\ isSettled(s)'
                             /\ ses[s].outcome' \in AllowedTransitions[state]
                             /\ state' \in AllowedTransitions[ses[s].outcome'] ]_state

\* A settled session publishes nothing more: no preview, phase or second
\* terminal notification reaches the client late, from whatever still ran for it.
SilentAfterSettlement ==
  [][ \A i \in DOMAIN outbox' : ~isSettled(outbox'[i].session) ]_vars

\* What still runs for a session that is no longer active never changes the state
\* of the coordinator, whose active session may be another one by then.
StaleWorkIsHarmless ==
  [][ \A s \in Sessions :
        ses'[s] # ses[s] /\ active # s /\ active' # s => UNCHANGED coord ]_vars

\* "recording", the client's cue to ask the user to speak, is only announced when
\* the recogniser and the microphone are both open.
RecordingMeansReady ==
  [][ \A i \in DOMAIN outbox' :
        LET s == outbox'[i].session IN
        outbox'[i] = Notification(s, "phase", "recording") =>
          ses'[s].asr = "open" /\ ses'[s].capture = "open" ]_vars

\* The daemon's promise to its client (SessionLifecycle), read off the detailed
\* state.
Status(a) ==
  IF a.start = "none" THEN "new" ELSE IF a.outcome = "none" THEN "live" ELSE a.outcome

Told(a) == IF a.told \in Choices THEN "completed" ELSE a.told

Lifecycle == INSTANCE SessionLifecycle
               WITH status <- [s \in Sessions |-> Status(ses[s])],
                    told   <- [s \in Sessions |-> Told(ses[s])]

\* Each session gets exactly one outcome, with the one terminal notification that
\* belongs to it, and holds the gate from its start to its settlement.
ImplementsLifecycle == Lifecycle!Spec

\* What its RPC connection may rely on (SessionService), read off the same state.
StartCall(a) == IF a.start \in {"none", "returned", "threw"} THEN a.start ELSE "pending"
FinishCall(a) == IF a.finish \in {"none", "resolved", "rejected"} THEN a.finish ELSE "pending"
CancelCall(a) == IF a.cancel = "waiting" THEN "pending" ELSE a.cancel

Serves(s) ==
  [ start |-> StartCall(ses[s]), finish |-> FinishCall(ses[s]), cancel |-> CancelCall(ses[s]),
    failing |-> isCurrent(s) /\ ses[s].fail = "waiting",
    phase |-> ses[s].phase, offered |-> ses[s].offered ]

Service == INSTANCE SessionService
             WITH live <- active, last <- lastSettled, out <- outbox,
                  svc <- [s \in Sessions |-> Serves(s)]

\* Whatever the coordinator does behind its interface is a step its RPC connection
\* and, through it, the input method are prepared for.
ImplementsService == Service!Spec

\* A cancelled session is settled, and so is one whose failure was recorded, although its
\* backends are awaited first and the operation that met the failure is still suspended.
GivenUpIsSettled ==
  \A s \in Sessions :
    ses[s].cancel = "waiting" \/ ses[s].fail = "waiting" ~> isSettled(s)

\* Without any help from the client a recording is bounded by the timer.
RecordingEnds ==
  \A s \in Sessions : isCurrent(s) /\ state = "recording"
                        ~> ~(isCurrent(s) /\ state = "recording")

\* finish() accepted while recording leads to a choice of results or to the end of
\* the session: it never hangs on the audio pump it waits for.
FinishLeadsToResults ==
  \A s \in Sessions : ses[s].finish = "stopping"
                        ~> isSettled(s) \/ (isCurrent(s) /\ state = "choosing")

\* Every session.start is answered, and one that fails is reported to the client by
\* session.error unless the client cancelled it.
StartIsAnswered ==
  \A s \in Sessions :
    /\ ses[s].start # "none" ~> ses[s].start \in {"returned", "threw"}
    /\ ses[s].start = "threw" ~> ses[s].told = "error" \/ ses[s].outcome = "cancelled"

\* A session that is recording can still be finished: the comment of finish() says
\* it ends the given session normally and that repeating it is harmless.
FinishStillPossible ==
  \A s \in Sessions :
    isCurrent(s) /\ state = "recording" => ses[s].finish = "none"

===============================================================================
