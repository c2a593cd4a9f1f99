----------------------- MODULE SessionCoordinatorProofs -----------------------
(***************************************************************************)
(* Proofs about SessionCoordinator, for any set of sessions and any        *)
(* polishing configurations.                                               *)
(*                                                                         *)
(* The argument goes through the shapes of steps.  Whatever the thirty     *)
(* actions do to the record of a session, a step is one of four: it begins *)
(* a session, it works for one without settling it (and only the active    *)
(* one may publish or move the state), it settles the active one, or it is *)
(* another connection's.  StepShapes proves that once, action by action;   *)
(* most theorems are then an induction over four cases.  What a session    *)
(* commits needs an invariant about its results besides (CommitInv).       *)
(***************************************************************************)
EXTENDS SessionCoordinator, TLAPS

-------------------------------------------------------------------------------
(***************************************************************************)
(* The shapes of steps.                                                    *)
(***************************************************************************)
\* What the coordinator may publish about s.
NotesOf(s) == [session : {s}, method : Methods, value : NoteValues]

LiveStates == SessionStates \ ({"idle"} \cup Outcomes)

\* Record b succeeds record a of a session that this step does not settle.
Keeps(a, b) ==
  /\ b.start = "none" <=> a.start = "none"
  /\ b.outcome = a.outcome
  /\ b.told = a.told

Carries(a, b) == b \in ActiveSession /\ Keeps(a, b)

Works(s) ==
  /\ \E b \in ActiveSession : Carries(ses[s], b) /\ ses' = [ses EXCEPT ![s] = b]
  /\ outbox' \in Seq(NotesOf(s))
  /\ outbox' = <<>> \/ active = s
  /\ \/ UNCHANGED coord
     \/ /\ active = s
        /\ state' \in LiveStates
        /\ UNCHANGED <<active, lastSettled, gate>>

\* How the outcome of a session and its terminal notification belong together.
Fits(told, outcome, before) ==
  \/ outcome = "completed" /\ told \in Choices
  \/ outcome = "cancelled" /\ told = before
  \/ outcome = "failed" /\ told = "error"

Settles(s) ==
  /\ active = s
  /\ \E b \in ActiveSession :
       /\ b.start = "none" <=> ses[s].start = "none"
       /\ Fits(b.told, b.outcome, ses[s].told)
       /\ ses' = [ses EXCEPT ![s] = b]
  /\ outbox' \in Seq(NotesOf(s))
  /\ lastSettled' = s
  /\ active' = None
  /\ state' = "idle"
  /\ gate' = IF gate = "self" THEN "none" ELSE gate

Begins(s) ==
  /\ active = None
  /\ gate = "none"
  /\ ses[s].start = "none"
  /\ \E b \in ActiveSession : /\ b.start = "creating"
                              /\ b.outcome = ses[s].outcome
                              /\ b.told = ses[s].told
                              /\ ses' = [ses EXCEPT ![s] = b]
  /\ outbox' \in Seq(NotesOf(s))
  /\ state' = "starting"
  /\ active' = s
  /\ gate' = "self"
  /\ UNCHANGED lastSettled

-------------------------------------------------------------------------------
(***************************************************************************)
(* The helpers of the coordinator make steps of these shapes.              *)
(***************************************************************************)
LEMMA NotificationTyped ==
  ASSUME NEW s, NEW method \in Methods, NEW value \in NoteValues
  PROVE  Notification(s, method, value) \in NotesOf(s)
  BY DEF Notification, NotesOf

LEMMA PolishingStateTyped ==
  ASSUME NEW s, NEW enabled
  PROVE  PolishingState(s, enabled) \in NotesOf(s)
  <1>1. /\ "polishingState" \in Methods
        /\ (IF enabled THEN "on" ELSE "off") \in NoteValues
    BY DEF Methods, NoteValues
  <1> QED
    BY <1>1, NotificationTyped DEF PolishingState

LEMMA MarkerBoolean ==
  ASSUME NEW policy, NEW mode
  PROVE  Marker(policy, mode) \in BOOLEAN
  BY DEF Marker

LEMMA CarriesTransitive ==
  ASSUME NEW a, NEW b, NEW c, Carries(a, b), Carries(b, c)
  PROVE  Carries(a, c)
  BY DEF Carries, Keeps

\* abort() and the cancel() calls leave alone what settling is about.
LEMMA InterruptCarries ==
  ASSUME NEW a \in ActiveSession
  PROVE  Carries(a, Interrupt(a))
  <1> DEFINE request == IF a.request = "live" THEN "aborted" ELSE a.request
             capture == IF a.capture = "none" THEN "none" ELSE "closed"
             asr     == IF a.asr = "none" THEN "none" ELSE "closed"
  <1>1. /\ request \in {"none", "live", "aborted", "done"}
        /\ capture \in CaptureStates
        /\ asr \in AsrStates
    BY DEF ActiveSession, AsrStates, CaptureStates
  <1>2. Interrupt(a) = [a EXCEPT !.aborted = TRUE, !.request = request,
                                 !.capture = capture, !.asr = asr]
    BY DEF Interrupt
  <1> HIDE DEF request, capture, asr
  <1>3. Interrupt(a) \in ActiveSession
    BY <1>1, <1>2 DEF ActiveSession
  <1>4. Keeps(a, Interrupt(a))
    BY <1>2 DEF ActiveSession, Keeps
  <1> QED
    BY <1>3, <1>4 DEF Carries

LEMMA QuietlyWorks ==
  ASSUME NEW s \in Sessions, NEW b, Carries(ses[s], b), Quietly(s, b)
  PROVE  Works(s)
  <1>1. b \in ActiveSession
    BY DEF Carries
  <1>2. outbox' = <<>> /\ outbox' \in Seq(NotesOf(s))
    BY DEF Quietly
  <1> QED
    BY <1>1, <1>2 DEF Works, Quietly

LEMMA EnterWorks ==
  ASSUME NEW s \in Sessions, NEW b, Carries(ses[s], b), isCurrent(s),
         NEW to \in LiveStates \cap Phases, NEW before \in Seq(NotesOf(s)),
         Enter(s, b, to, before)
  PROVE  Works(s)
  <1>1. Carries(b, [b EXCEPT !.phase = to])
    <2>1. [b EXCEPT !.phase = to] \in ActiveSession
      BY DEF Carries, ActiveSession
    <2>2. Keeps(b, [b EXCEPT !.phase = to])
      BY DEF Carries, Keeps, ActiveSession
    <2> QED
      BY <2>1, <2>2 DEF Carries
  <1>2. Carries(ses[s], [b EXCEPT !.phase = to])
    BY <1>1, CarriesTransitive
  <1>3. Notification(s, "phase", to) \in NotesOf(s)
    <2>1. "phase" \in Methods /\ to \in NoteValues
      BY DEF Methods, NoteValues
    <2> QED
      BY <2>1, NotificationTyped
  <1>4. outbox' \in Seq(NotesOf(s))
    BY <1>3 DEF Enter
  <1> QED
    BY <1>2, <1>4 DEF Works, Enter, Transition, isCurrent, Carries

LEMMA FailWorks ==
  ASSUME NEW s \in Sessions, NEW began, NEW skipped,
         Carries(ses[s], began), Carries(ses[s], skipped), Fail(s, began, skipped)
  PROVE  Works(s)
  <1> DEFINE interrupted == Interrupt(began)
  <1>1. Carries(began, interrupted)
    BY InterruptCarries DEF Carries
  <1> HIDE DEF interrupted
  <1>2. Carries(interrupted, [interrupted EXCEPT !.fail = "waiting"])
    <2>1. [interrupted EXCEPT !.fail = "waiting"] \in ActiveSession
      BY <1>1 DEF Carries, ActiveSession
    <2>2. Keeps(interrupted, [interrupted EXCEPT !.fail = "waiting"])
      BY <1>1 DEF Carries, Keeps, ActiveSession
    <2> QED
      BY <2>1, <2>2 DEF Carries
  <1>3. Carries(ses[s], [interrupted EXCEPT !.fail = "waiting"])
    BY <1>1, <1>2, CarriesTransitive
  <1>4. CASE CanFail(s)
    BY <1>3, <1>4, QuietlyWorks DEF Fail, interrupted
  <1>5. CASE ~CanFail(s)
    BY <1>5, QuietlyWorks DEF Fail
  <1> QED
    BY <1>4, <1>5

LEMMA SettleSettles ==
  ASSUME NEW s \in Sessions, NEW b \in ActiveSession,
         b.start = "none" <=> ses[s].start = "none",
         isCurrent(s), NEW outcome \in Outcomes, NEW notices \in Seq(NotesOf(s)),
         Fits(b.told, outcome, ses[s].told),
         Settle(s, b, outcome, notices)
  PROVE  Settles(s)
  <1> DEFINE c == [b EXCEPT !.timer = FALSE, !.outcome = outcome]
  <1>1. /\ c \in ActiveSession
        /\ c.start = b.start
        /\ c.told = b.told
        /\ c.outcome = outcome
    BY DEF ActiveSession
  <1>2. ses' = [ses EXCEPT ![s] = c]
    BY DEF Settle
  <1> HIDE DEF c
  <1> QED
    BY <1>1, <1>2 DEF Settle, Settles, isCurrent

LEMMA CompleteSettles ==
  ASSUME NEW s \in Sessions, NEW b, Carries(ses[s], b), isCurrent(s),
         NEW choice \in Choices, NEW before \in Seq(NotesOf(s)),
         Complete(s, b, choice, before)
  PROVE  Settles(s)
  <1> DEFINE c == [b EXCEPT !.told = choice]
  <1>1. c \in ActiveSession /\ c.start = b.start /\ c.told = choice
    BY DEF Carries, ActiveSession
  <1>2. Append(before, Notification(s, "completed", choice)) \in Seq(NotesOf(s))
    <2>1. "completed" \in Methods /\ choice \in NoteValues
      BY DEF Methods, NoteValues
    <2>2. Notification(s, "completed", choice) \in NotesOf(s)
      BY <2>1, NotificationTyped
    <2> QED
      BY <2>2
  <1>3. Settle(s, c, "completed", Append(before, Notification(s, "completed", choice)))
    BY DEF Complete
  <1> HIDE DEF c
  <1> QED
    BY <1>1, <1>2, <1>3, SettleSettles DEF Carries, Keeps, Fits, Outcomes

-------------------------------------------------------------------------------
(***************************************************************************)
(* Every action makes a step of one of these shapes.                       *)
(***************************************************************************)
LEMMA StartBegins ==
  ASSUME TypeOK, NEW s \in Sessions, Start(s)
  PROVE  Begins(s)
  <1> ses[s] \in ActiveSession
    BY DEF TypeOK
  <1>1. PICK policy \in Policies :
          LET marker == Marker(policy, "auto") IN
          /\ ses' = [ses EXCEPT ![s].start = "creating", ![s].phase = "preparing",
                                ![s].policy = policy, ![s].marker = marker]
          /\ outbox' = <<Notification(s, "phase", "preparing"),
                         PolishingState(s, marker)>>
    BY DEF Start
  <1> DEFINE marker == Marker(policy, "auto")
             a == [ses[s] EXCEPT !.start = "creating", !.phase = "preparing"]
             b == [a EXCEPT !.policy = policy, !.marker = marker]
  <1>2. marker \in BOOLEAN /\ policy \in AllPolicies
    BY MarkerBoolean, PoliciesAreKnown
  <1>3. /\ "phase" \in Methods
        /\ "preparing" \in NoteValues \cap Phases
    BY DEF Methods, NoteValues, Phases
  <1>4. outbox' \in Seq(NotesOf(s))
    BY <1>1, <1>3, NotificationTyped, PolishingStateTyped
  <1>5. ses' = [ses EXCEPT ![s] = b]
    BY <1>1 DEF TypeOK
  <1> HIDE DEF marker
  <1>6. b.start = "creating" /\ b.outcome = ses[s].outcome /\ b.told = ses[s].told
    BY DEF ActiveSession
  <1>7. a \in ActiveSession
    BY <1>3 DEF ActiveSession
  <1> HIDE DEF a
  <1>8. b \in ActiveSession
    BY <1>2, <1>7 DEF ActiveSession
  <1> HIDE DEF b
  <1> QED
    BY <1>4, <1>5, <1>6, <1>8 DEF Start, Begins

LEMMA StartStepWorks ==
  ASSUME TypeOK, NEW s \in Sessions, StartStep(s)
  PROVE  Works(s)
  <1> ses[s] \in ActiveSession
    BY DEF TypeOK
  <1>1. CASE AsrCreated(s)
    <2> DEFINE b == [ses[s] EXCEPT !.start = "asrStarting", !.asr = "created"]
    <2>1. b \in ActiveSession
      BY DEF ActiveSession, AsrStates
    <2>2. Keeps(ses[s], b)
      BY <1>1 DEF AsrCreated, Keeps, ActiveSession
    <2> QED
      BY <1>1, <2>1, <2>2, QuietlyWorks DEF AsrCreated, Carries
  <1>2. CASE AsrStarted(s)
    <2> DEFINE asr == IF ses[s].aborted THEN "closed" ELSE "open"
               a == [ses[s] EXCEPT !.start = "capStarting", !.events = "reading"]
               b == [a EXCEPT !.asr = asr, !.capture = "starting"]
    <2>1. asr \in AsrStates /\ "starting" \in CaptureStates
      BY DEF AsrStates, CaptureStates
    <2>2. Quietly(s, b)
      BY <1>2 DEF AsrStarted
    <2> HIDE DEF asr
    <2>3. Keeps(ses[s], b)
      BY <1>2 DEF AsrStarted, Keeps, ActiveSession
    <2>4. a \in ActiveSession
      BY DEF ActiveSession
    <2> HIDE DEF a
    <2>5. b \in ActiveSession
      BY <2>1, <2>4 DEF ActiveSession
    <2> QED
      BY <2>2, <2>3, <2>5, QuietlyWorks DEF Carries
  <1>3. CASE StartAsrFails(s)
    <2> DEFINE asr == IF ses[s].asr = "none" THEN "none" ELSE "closed"
               a == [ses[s] EXCEPT !.asr = asr]
               b == [a EXCEPT !.start = "failing"]
               c == [a EXCEPT !.start = "threw"]
    <2>1. asr \in AsrStates
      BY DEF AsrStates
    <2>2. Fail(s, b, c)
      BY <1>3 DEF StartAsrFails
    <2> HIDE DEF asr
    <2>3. b \in ActiveSession
      BY <2>1 DEF ActiveSession
    <2>4. c \in ActiveSession
      BY <2>1 DEF ActiveSession
    <2>5. Keeps(ses[s], b) /\ Keeps(ses[s], c)
      BY <1>3 DEF StartAsrFails, Keeps, ActiveSession
    <2> QED
      BY <2>2, <2>3, <2>4, <2>5, FailWorks DEF Carries
  <1>4. CASE CaptureStarted(s)
    <2> DEFINE capture == IF ses[s].aborted THEN "closed" ELSE "open"
               a == [ses[s] EXCEPT !.capture = capture]
               recording == [a EXCEPT !.start = "returned", !.timer = TRUE,
                                      !.pump = "reading"]
               undoing == [a EXCEPT !.start = "undoing", !.capture = "closed"]
               threw == [a EXCEPT !.start = "threw"]
    <2>1. capture \in CaptureStates
      BY DEF CaptureStates
    <2>2. \/ Quietly(s, undoing)
          \/ isCurrent(s) /\ Enter(s, recording, "recording", <<>>)
          \/ Quietly(s, threw)
          \/ Quietly(s, recording)
      BY <1>4 DEF CaptureStarted
    <2> HIDE DEF capture
    <2>3. recording \in ActiveSession
      BY <2>1 DEF ActiveSession
    <2>4. undoing \in ActiveSession
      BY <2>1 DEF ActiveSession, CaptureStates
    <2>5. threw \in ActiveSession
      BY <2>1 DEF ActiveSession
    <2>6. Keeps(ses[s], recording) /\ Keeps(ses[s], undoing) /\ Keeps(ses[s], threw)
      BY <1>4 DEF CaptureStarted, Keeps, ActiveSession
    <2>7. "recording" \in LiveStates \cap Phases
      BY DEF LiveStates, SessionStates, AllowedTransitions, Outcomes, Phases
    <2> HIDE DEF recording, undoing, threw
    <2>8. <<>> \in Seq(NotesOf(s))
      OBVIOUS
    <2> QED
      BY <2>2, <2>3, <2>4, <2>5, <2>6, <2>7, <2>8, QuietlyWorks, EnterWorks DEF Carries
  <1>5. CASE CaptureStartFails(s)
    <2> DEFINE a == [ses[s] EXCEPT !.capture = "closed"]
               b == [a EXCEPT !.start = "failing"]
               c == [a EXCEPT !.start = "threw"]
    <2>1. b \in ActiveSession
      BY DEF ActiveSession, CaptureStates
    <2>2. c \in ActiveSession
      BY DEF ActiveSession, CaptureStates
    <2>3. Keeps(ses[s], b) /\ Keeps(ses[s], c)
      BY <1>5 DEF CaptureStartFails, Keeps, ActiveSession
    <2> QED
      BY <1>5, <2>1, <2>2, <2>3, FailWorks DEF CaptureStartFails, Carries
  <1>6. CASE StartThrows(s)
    <2> DEFINE b == [ses[s] EXCEPT !.start = "threw"]
    <2>1. b \in ActiveSession
      BY DEF ActiveSession
    <2>2. Keeps(ses[s], b)
      BY <1>6 DEF StartThrows, Keeps, ActiveSession
    <2> QED
      BY <1>6, <2>1, <2>2, QuietlyWorks DEF StartThrows, Carries
  <1> QED
    BY <1>1, <1>2, <1>3, <1>4, <1>5, <1>6 DEF StartStep

LEMMA FinishStepWorks ==
  ASSUME TypeOK, NEW s \in Sessions, FinishStep(s)
  PROVE  Works(s)
  <1> ses[s] \in ActiveSession
    BY DEF TypeOK
  <1>1. CASE CaptureStopped(s)
    <2> DEFINE capture == IF ses[s].capture = "open" THEN "stopped" ELSE ses[s].capture
               b == [ses[s] EXCEPT !.finish = "draining", !.capture = capture]
    <2>1. capture \in CaptureStates
      BY DEF ActiveSession, CaptureStates
    <2>2. Quietly(s, b)
      BY <1>1 DEF CaptureStopped
    <2> HIDE DEF capture
    <2>3. b \in ActiveSession
      BY <2>1 DEF ActiveSession
    <2>4. Keeps(ses[s], b)
      BY DEF Keeps, ActiveSession
    <2> QED
      BY <2>2, <2>3, <2>4, QuietlyWorks DEF Carries
  <1>2. CASE CaptureStopFails(s)
    <2> DEFINE b == [ses[s] EXCEPT !.finish = "failing"]
               c == [ses[s] EXCEPT !.finish = "rejected"]
    <2>1. b \in ActiveSession
      BY DEF ActiveSession
    <2>2. c \in ActiveSession
      BY DEF ActiveSession
    <2>3. Keeps(ses[s], b) /\ Keeps(ses[s], c)
      BY <1>2 DEF CaptureStopFails, Keeps, ActiveSession
    <2> QED
      BY <1>2, <2>1, <2>2, <2>3, FailWorks DEF CaptureStopFails, Carries
  <1>3. CASE Drained(s)
    <2> DEFINE rejected == [ses[s] EXCEPT !.finish = "rejected"]
               resolved == [ses[s] EXCEPT !.finish = "resolved"]
               finishing == [ses[s] EXCEPT !.finish = "asrFinishing"]
    <2>1. \/ Quietly(s, rejected)
          \/ Quietly(s, resolved)
          \/ isCurrent(s) /\ Enter(s, finishing, "recognizing", <<>>)
      BY <1>3 DEF Drained
    <2>2. rejected \in ActiveSession
      BY DEF ActiveSession
    <2>3. resolved \in ActiveSession
      BY DEF ActiveSession
    <2>4. finishing \in ActiveSession
      BY DEF ActiveSession
    <2>5. Keeps(ses[s], rejected) /\ Keeps(ses[s], resolved) /\ Keeps(ses[s], finishing)
      BY DEF Keeps, ActiveSession
    <2>6. "recognizing" \in LiveStates \cap Phases
      BY DEF LiveStates, SessionStates, AllowedTransitions, Outcomes, Phases
    <2> HIDE DEF rejected, resolved, finishing
    <2>7. <<>> \in Seq(NotesOf(s))
      OBVIOUS
    <2> QED
      BY <2>1, <2>2, <2>3, <2>4, <2>5, <2>6, <2>7, QuietlyWorks, EnterWorks DEF Carries
  <1>4. CASE AsrFinished(s)
    <2> DEFINE b == [ses[s] EXCEPT !.finish = "resolved"]
    <2>1. b \in ActiveSession
      BY DEF ActiveSession
    <2>2. Keeps(ses[s], b)
      BY <1>4 DEF AsrFinished, Keeps, ActiveSession
    <2> QED
      BY <1>4, <2>1, <2>2, QuietlyWorks DEF AsrFinished, Carries
  <1>5. CASE AsrFinishFails(s)
    <2> DEFINE resolved == [ses[s] EXCEPT !.finish = "resolved"]
               failing == [ses[s] EXCEPT !.finish = "failing"]
               rejected == [ses[s] EXCEPT !.finish = "rejected"]
    <2>1. Quietly(s, resolved) \/ Fail(s, failing, rejected)
      BY <1>5 DEF AsrFinishFails
    <2>2. resolved \in ActiveSession
      BY DEF ActiveSession
    <2>3. failing \in ActiveSession
      BY DEF ActiveSession
    <2>4. rejected \in ActiveSession
      BY DEF ActiveSession
    <2>5. Keeps(ses[s], resolved) /\ Keeps(ses[s], failing) /\ Keeps(ses[s], rejected)
      BY DEF Keeps, ActiveSession
    <2> HIDE DEF resolved, failing, rejected
    <2> QED
      BY <2>1, <2>2, <2>3, <2>4, <2>5, QuietlyWorks, FailWorks DEF Carries
  <1>6. CASE FinishThrows(s)
    <2> DEFINE b == [ses[s] EXCEPT !.finish = "rejected"]
    <2>1. b \in ActiveSession
      BY DEF ActiveSession
    <2>2. Keeps(ses[s], b)
      BY <1>6 DEF FinishThrows, Keeps, ActiveSession
    <2> QED
      BY <1>6, <2>1, <2>2, QuietlyWorks DEF FinishThrows, Carries
  <1> QED
    BY <1>1, <1>2, <1>3, <1>4, <1>5, <1>6 DEF FinishStep

LEMMA AudioStepWorks ==
  ASSUME TypeOK, NEW s \in Sessions, AudioStep(s)
  PROVE  Works(s)
  <1> ses[s] \in ActiveSession
    BY DEF TypeOK
  <1>1. CASE FrameArrives(s)
    <2> DEFINE pump == IF isCurrent(s) THEN "writing" ELSE "ended"
               b == [ses[s] EXCEPT !.pump = pump]
    <2>1. pump \in {"none", "reading", "writing", "failing", "ended"}
      OBVIOUS
    <2>2. Quietly(s, b)
      BY <1>1 DEF FrameArrives
    <2> HIDE DEF pump
    <2>3. b \in ActiveSession
      BY <2>1 DEF ActiveSession
    <2>4. Keeps(ses[s], b)
      BY DEF Keeps, ActiveSession
    <2> QED
      BY <2>2, <2>3, <2>4, QuietlyWorks DEF Carries
  <1>2. CASE FrameWritten(s)
    <2> DEFINE b == [ses[s] EXCEPT !.pump = "reading"]
    <2>1. b \in ActiveSession
      BY DEF ActiveSession
    <2>2. Keeps(ses[s], b)
      BY <1>2 DEF FrameWritten, Keeps, ActiveSession
    <2> QED
      BY <1>2, <2>1, <2>2, QuietlyWorks DEF FrameWritten, Carries
  <1>3. CASE FrameWriteFails(s)
    <2> DEFINE b == [ses[s] EXCEPT !.pump = "failing"]
               c == [ses[s] EXCEPT !.pump = "ended"]
    <2>1. b \in ActiveSession
      BY DEF ActiveSession
    <2>2. c \in ActiveSession
      BY DEF ActiveSession
    <2>3. Keeps(ses[s], b) /\ Keeps(ses[s], c)
      BY <1>3 DEF FrameWriteFails, Keeps, ActiveSession
    <2> QED
      BY <1>3, <2>1, <2>2, <2>3, FailWorks DEF FrameWriteFails, Carries
  <1>4. CASE AudioEnds(s)
    <2> DEFINE b == [ses[s] EXCEPT !.pump = "ended"]
               c == [b EXCEPT !.pump = "failing"]
    <2>1. Fail(s, c, b) \/ Quietly(s, b)
      BY <1>4 DEF AudioEnds
    <2>2. b \in ActiveSession
      BY DEF ActiveSession
    <2>3. c \in ActiveSession
      BY DEF ActiveSession
    <2>4. Keeps(ses[s], b) /\ Keeps(ses[s], c)
      BY DEF Keeps, ActiveSession
    <2> HIDE DEF b, c
    <2> QED
      BY <2>1, <2>2, <2>3, <2>4, QuietlyWorks, FailWorks DEF Carries
  <1>5. CASE AudioThrows(s)
    <2> DEFINE b == [ses[s] EXCEPT !.pump = "failing"]
               c == [ses[s] EXCEPT !.pump = "ended"]
    <2>1. b \in ActiveSession
      BY DEF ActiveSession
    <2>2. c \in ActiveSession
      BY DEF ActiveSession
    <2>3. Keeps(ses[s], b) /\ Keeps(ses[s], c)
      BY <1>5 DEF AudioThrows, Keeps, ActiveSession
    <2> QED
      BY <1>5, <2>1, <2>2, <2>3, FailWorks DEF AudioThrows, Carries
  <1>6. CASE AudioPumpFailed(s)
    <2> DEFINE b == [ses[s] EXCEPT !.pump = "ended"]
    <2>1. b \in ActiveSession
      BY DEF ActiveSession
    <2>2. Keeps(ses[s], b)
      BY <1>6 DEF AudioPumpFailed, Keeps, ActiveSession
    <2> QED
      BY <1>6, <2>1, <2>2, QuietlyWorks DEF AudioPumpFailed, Carries
  <1> QED
    BY <1>1, <1>2, <1>3, <1>4, <1>5, <1>6 DEF AudioStep

LEMMA AsrStepWorks ==
  ASSUME TypeOK, NEW s \in Sessions, AsrStep(s)
  PROVE  Works(s)
  <1> ses[s] \in ActiveSession
    BY DEF TypeOK
  <1>1. CASE AsrPreview(s)
    <2>1. outbox' \in Seq(NotesOf(s))
      <3>1. "preview" \in Methods /\ "text" \in NoteValues
        BY DEF Methods, NoteValues
      <3> QED
        BY <1>1, <3>1, NotificationTyped DEF AsrPreview
    <2>2. Carries(ses[s], ses[s])
      BY DEF Carries, Keeps
    <2>3. ses' = [ses EXCEPT ![s] = ses[s]]
      BY <1>1 DEF AsrPreview, TypeOK
    <2> QED
      BY <1>1, <2>1, <2>2, <2>3 DEF AsrPreview, Works, isCurrent
  <1>2. CASE StaleAsrEvent(s)
    <2> DEFINE b == [ses[s] EXCEPT !.events = "ended"]
    <2>1. b \in ActiveSession
      BY DEF ActiveSession
    <2>2. Keeps(ses[s], b)
      BY <1>2 DEF StaleAsrEvent, Keeps, ActiveSession
    <2> QED
      BY <1>2, <2>1, <2>2, QuietlyWorks DEF StaleAsrEvent, Carries
  <1>3. CASE AsrCompleted(s)
    <2> DEFINE a == [ses[s] EXCEPT !.asr = "closed"]
               processing == [a EXCEPT !.events = "processing"]
               ended == [a EXCEPT !.events = "ended"]
    <2>1. \/ isCurrent(s) /\ Enter(s, processing, "processing", <<>>)
          \/ Fail(s, ended, ended)
      BY <1>3 DEF AsrCompleted
    <2>2. Keeps(ses[s], processing) /\ Keeps(ses[s], ended)
      BY DEF Keeps, ActiveSession
    <2>3. a \in ActiveSession
      BY DEF ActiveSession, AsrStates
    <2> HIDE DEF a
    <2>4. processing \in ActiveSession
      BY <2>3 DEF ActiveSession
    <2>5. ended \in ActiveSession
      BY <2>3 DEF ActiveSession
    <2>6. "processing" \in LiveStates \cap Phases
      BY DEF LiveStates, SessionStates, AllowedTransitions, Outcomes, Phases
    <2> HIDE DEF processing, ended
    <2>7. <<>> \in Seq(NotesOf(s))
      OBVIOUS
    <2> QED
      BY <2>1, <2>2, <2>4, <2>5, <2>6, <2>7, FailWorks, EnterWorks DEF Carries
  <1>4. CASE AsrFails(s)
    <2> DEFINE ended == [ses[s] EXCEPT !.events = "ended", !.asr = "closed"]
    <2>1. ended \in ActiveSession
      BY DEF ActiveSession, AsrStates
    <2>2. Keeps(ses[s], ended)
      BY DEF Keeps, ActiveSession
    <2> HIDE DEF ended
    <2>3. Fail(s, ended, ended)
      BY <1>4 DEF AsrFails, ended
    <2> QED
      BY <2>1, <2>2, <2>3, FailWorks DEF Carries
  <1> QED
    BY <1>1, <1>2, <1>3, <1>4 DEF AsrStep

LEMMA PolisherDoneCarries ==
  ASSUME NEW a \in ActiveSession
  PROVE  Carries(a, PolisherDone(a))
  <1> DEFINE request == IF a.request = "live" THEN "done" ELSE a.request
  <1>1. request \in {"none", "live", "aborted", "done"}
    BY DEF ActiveSession
  <1>2. PolisherDone(a) = [a EXCEPT !.events = "ended", !.request = request]
    BY DEF PolisherDone
  <1> HIDE DEF request
  <1>3. PolisherDone(a) \in ActiveSession
    BY <1>1, <1>2 DEF ActiveSession
  <1>4. Keeps(a, PolisherDone(a))
    BY <1>2 DEF Keeps, ActiveSession
  <1> QED
    BY <1>3, <1>4 DEF Carries

LEMMA ResultsTyped ==
  ASSUME NEW s, NEW shown \in {"none", "streaming", "final", "transcript"}
  PROVE  Results(s, shown) \in NotesOf(s)
  <1>1. "results" \in Methods /\ shown \in NoteValues
    BY DEF Methods, NoteValues, Choices
  <1> QED
    BY <1>1, NotificationTyped DEF Results

LEMMA ChoosingIsLive == "choosing" \in LiveStates \cap Phases
  BY DEF LiveStates, SessionStates, AllowedTransitions, Outcomes, Phases

LEMMA PolishFallbackWorks ==
  ASSUME NEW s \in Sessions, NEW a, Carries(ses[s], a), PolishFallback(s, a)
  PROVE  Works(s)
  <1> DEFINE done == PolisherDone(a)
             choosing == [done EXCEPT !.polished = FALSE]
             notes == <<Results(s, "transcript")>>
  <1>1. \/ isCurrent(s) /\ Enter(s, choosing, "choosing", notes)
        \/ Quietly(s, done)
    BY DEF PolishFallback, PolishWanted
  <1>2. Carries(a, done)
    BY PolisherDoneCarries DEF Carries
  <1> HIDE DEF done
  <1>3. Carries(done, choosing)
    <2>1. choosing \in ActiveSession
      BY <1>2 DEF Carries, ActiveSession
    <2>2. Keeps(done, choosing)
      BY <1>2 DEF Carries, Keeps, ActiveSession
    <2> QED
      BY <2>1, <2>2 DEF Carries
  <1> HIDE DEF choosing
  <1>4. Carries(ses[s], done) /\ Carries(ses[s], choosing)
    BY <1>2, <1>3, CarriesTransitive
  <1>5. notes \in Seq(NotesOf(s))
    BY ResultsTyped
  <1> HIDE DEF notes
  <1> QED
    BY <1>1, <1>4, <1>5, ChoosingIsLive, QuietlyWorks, EnterWorks

LEMMA TranscriptProcessedShape ==
  ASSUME TypeOK, NEW s \in Sessions, TranscriptProcessed(s)
  PROVE  Works(s) \/ Settles(s)
  <1> ses[s] \in ActiveSession
    BY DEF TypeOK
  <1> DEFINE a == [ses[s] EXCEPT !.transcript = TRUE]
             offered == a.offered \cup {"transcript"}
             shown == [a EXCEPT !.offered = offered]
             begun == [a EXCEPT !.events = "polishing"]
             polishing == [begun EXCEPT !.request = "live"]
             visible == [polishing EXCEPT !.offered = offered]
             ended == [a EXCEPT !.events = "ended"]
             over == [shown EXCEPT !.events = "ended"]
             notes(polish) == <<Results(s, IF polish THEN "none" ELSE "transcript")>>
  <1>0. PICK polish :
          \/ Quietly(s, polishing)
          \/ Quietly(s, ended)
          \/ /\ isCurrent(s)
             /\ ses' = [ses EXCEPT ![s] = over]
             /\ outbox' = notes(polish)
             /\ UNCHANGED coord
          \/ isCurrent(s) /\ Enter(s, visible, "polishing", notes(polish))
          \/ isCurrent(s) /\ Complete(s, over, "transcript", notes(polish))
    BY DEF TranscriptProcessed
  <1> DEFINE results == <<Results(s, IF polish THEN "none" ELSE "transcript")>>
  <1>1. \/ Quietly(s, polishing)
        \/ Quietly(s, ended)
        \/ /\ isCurrent(s)
           /\ ses' = [ses EXCEPT ![s] = over]
           /\ outbox' = results
           /\ UNCHANGED coord
        \/ isCurrent(s) /\ Enter(s, visible, "polishing", results)
        \/ isCurrent(s) /\ Complete(s, over, "transcript", results)
    BY <1>0
  <1> HIDE DEF notes
  <1>2. /\ Keeps(ses[s], polishing)
        /\ Keeps(ses[s], ended)
        /\ Keeps(ses[s], over)
        /\ Keeps(ses[s], visible)
    BY DEF Keeps, ActiveSession
  <1>3. a \in ActiveSession
    BY DEF ActiveSession
  <1>4. offered \in SUBSET Choices
    BY <1>3 DEF ActiveSession, Choices
  <1> HIDE DEF a, offered
  <1>5. polishing \in ActiveSession
    <2>1. begun \in ActiveSession
      BY <1>3 DEF ActiveSession
    <2> HIDE DEF begun
    <2> QED
      BY <2>1 DEF ActiveSession
  <1>6. ended \in ActiveSession
    BY <1>3 DEF ActiveSession
  <1>7. over \in ActiveSession
    <2>1. shown \in ActiveSession
      BY <1>3, <1>4 DEF ActiveSession
    <2> HIDE DEF shown
    <2> QED
      BY <2>1 DEF ActiveSession
  <1> HIDE DEF polishing
  <1>8. visible \in ActiveSession
    BY <1>4, <1>5 DEF ActiveSession
  <1> HIDE DEF ended, over, visible
  <1>9. results \in Seq(NotesOf(s))
    BY ResultsTyped
  <1>10. "polishing" \in LiveStates \cap Phases
    BY DEF LiveStates, SessionStates, AllowedTransitions, Outcomes, Phases
  <1>11. "transcript" \in Choices
    BY DEF Choices
  <1> HIDE DEF results
  <1>12. CASE isCurrent(s) /\ ses' = [ses EXCEPT ![s] = over] /\ outbox' = results
              /\ UNCHANGED coord
    BY <1>2, <1>7, <1>9, <1>12 DEF Works, Carries, isCurrent
  <1> QED
    BY <1>1, <1>2, <1>5, <1>6, <1>7, <1>8, <1>9, <1>10, <1>11, <1>12,
       QuietlyWorks, EnterWorks, CompleteSettles DEF Carries

LEMMA TextStepShape ==
  ASSUME TypeOK, NEW s \in Sessions, TextStep(s)
  PROVE  Works(s) \/ Settles(s)
  <1> ses[s] \in ActiveSession
    BY DEF TypeOK
  <1>a. Carries(ses[s], PolisherDone(ses[s])) /\ Carries(ses[s], ses[s])
    BY PolisherDoneCarries DEF Carries, Keeps
  <1>1. CASE TranscriptProcessed(s)
    BY <1>1, TranscriptProcessedShape
  <1>2. CASE ProcessingFails(s)
    <2> DEFINE ended == [ses[s] EXCEPT !.events = "ended"]
    <2>1. ended \in ActiveSession
      BY DEF ActiveSession
    <2>2. Keeps(ses[s], ended)
      BY DEF Keeps, ActiveSession
    <2> QED
      BY <1>2, <2>1, <2>2, FailWorks DEF ProcessingFails, Carries
  <1>3. CASE PolishDelta(s)
    <2> DEFINE b == [ses[s] EXCEPT !.delta = TRUE]
    <2>1. b \in ActiveSession
      BY DEF ActiveSession
    <2>2. Keeps(ses[s], b)
      BY DEF Keeps, ActiveSession
    <2>3. CASE PolishWanted(s)
      <3>1. /\ ses' = [ses EXCEPT ![s] = b]
            /\ outbox' = <<Results(s, "streaming")>>
            /\ UNCHANGED coord
        BY <1>3, <2>3 DEF PolishDelta, TypeOK
      <3>2. outbox' \in Seq(NotesOf(s))
        BY <3>1, ResultsTyped
      <3> HIDE DEF b
      <3> QED
        BY <2>1, <2>2, <2>3, <3>1, <3>2 DEF Works, Carries, PolishWanted, isCurrent
    <2>4. CASE ~PolishWanted(s)
      BY <1>3, <1>a, <2>4, QuietlyWorks DEF PolishDelta
    <2> QED
      BY <2>3, <2>4
  <1>4. CASE PolishCompleted(s)
    <2> DEFINE b == [ses[s] EXCEPT !.events = "validating"]
    <2>1. b \in ActiveSession
      BY DEF ActiveSession
    <2>2. Keeps(ses[s], b)
      BY DEF Keeps, ActiveSession
    <2>3. Quietly(s, b) \/ Quietly(s, PolisherDone(ses[s]))
      BY <1>4 DEF PolishCompleted
    <2> HIDE DEF b
    <2> QED
      BY <1>a, <2>1, <2>2, <2>3, QuietlyWorks DEF Carries
  <1>5. CASE PolishUnavailable(s)
    BY <1>5, <1>a, PolishFallbackWorks DEF PolishUnavailable
  <1>6. CASE PolishThrows(s)
    BY <1>6, <1>a, QuietlyWorks, PolishFallbackWorks DEF PolishThrows
  <1>7. CASE PolishValidated(s)
    <2> DEFINE a == [ses[s] EXCEPT !.polished = TRUE]
               done == PolisherDone(a)
               choosing == [done EXCEPT !.offered = Choices]
               notes == <<Results(s, "final")>>
    <2>1. \/ isCurrent(s) /\ Enter(s, choosing, "choosing", notes)
          \/ Quietly(s, done)
      BY <1>7 DEF PolishValidated, PolishWanted
    <2>2. a \in ActiveSession
      BY DEF ActiveSession
    <2>3. Keeps(ses[s], a)
      BY DEF Keeps, ActiveSession
    <2> HIDE DEF a
    <2>4. Carries(a, done)
      BY <2>2, PolisherDoneCarries
    <2> HIDE DEF done
    <2>5. choosing \in ActiveSession
      BY <2>4 DEF Carries, ActiveSession
    <2>6. Keeps(done, choosing)
      BY <2>4 DEF Carries, Keeps, ActiveSession
    <2> HIDE DEF choosing
    <2>7. Carries(ses[s], done) /\ Carries(ses[s], choosing)
      BY <2>2, <2>3, <2>4, <2>5, <2>6 DEF Carries, Keeps
    <2>8. notes \in Seq(NotesOf(s))
      BY ResultsTyped
    <2> HIDE DEF notes
    <2> QED
      BY <2>1, <2>7, <2>8, ChoosingIsLive, QuietlyWorks, EnterWorks
  <1>8. CASE PolishedEmpty(s)
    <2> DEFINE b == [ses[s] EXCEPT !.polished = FALSE]
    <2>1. b \in ActiveSession
      BY DEF ActiveSession
    <2>2. Keeps(ses[s], b)
      BY DEF Keeps, ActiveSession
    <2>3. PolishFallback(s, b)
      BY <1>8 DEF PolishedEmpty
    <2> HIDE DEF b
    <2> QED
      BY <2>1, <2>2, <2>3, PolishFallbackWorks DEF Carries
  <1> QED
    BY <1>1, <1>2, <1>3, <1>4, <1>5, <1>6, <1>7, <1>8 DEF TextStep

LEMMA ClientStepShape ==
  ASSUME TypeOK, NEW s \in Sessions, ClientStep(s)
  PROVE  Begins(s) \/ Works(s) \/ Settles(s)
  <1> ses[s] \in ActiveSession
    BY DEF TypeOK
  <1>1. CASE Start(s)
    BY <1>1, StartBegins
  <1>2. CASE \E enabled \in Toggles : SetPolishingEnabled(s, enabled)
    <2>1. PICK enabled \in Toggles : SetPolishingEnabled(s, enabled)
      BY <1>2
    <2> DEFINE mode == IF enabled THEN "forceOn" ELSE "forceOff"
               marker == Marker(ses[s].policy, mode)
               b == [ses[s] EXCEPT !.mode = mode, !.marker = marker]
               notes == IF marker = ses[s].marker THEN <<>>
                        ELSE <<PolishingState(s, marker)>>
    <2>2. mode \in Modes /\ marker \in BOOLEAN
      BY MarkerBoolean DEF Modes
    <2>3. /\ isCurrent(s)
          /\ ses' = [ses EXCEPT ![s] = b]
          /\ outbox' = notes
          /\ UNCHANGED coord
      BY <2>1 DEF SetPolishingEnabled, TypeOK
    <2>4. notes \in Seq(NotesOf(s))
      BY PolishingStateTyped
    <2> HIDE DEF mode, marker, notes
    <2>5. Keeps(ses[s], b)
      BY DEF Keeps, ActiveSession
    <2>6. b \in ActiveSession
      BY <2>2 DEF ActiveSession
    <2> HIDE DEF b
    <2> QED
      BY <2>3, <2>4, <2>5, <2>6 DEF Works, Carries, isCurrent
  <1>3. CASE Finish(s)
    <2> DEFINE b == [ses[s] EXCEPT !.finish = "stopping", !.timer = FALSE]
               c == [ses[s] EXCEPT !.finish = "rejected"]
    <2>1. \/ /\ Transition("finishing")
             /\ ses' = [ses EXCEPT ![s] = b]
             /\ outbox' = <<>>
          \/ Quietly(s, c)
      BY <1>3 DEF Finish, TypeOK
    <2>2. isCurrent(s)
      BY <1>3 DEF Finish
    <2>3. Keeps(ses[s], b) /\ Keeps(ses[s], c)
      BY DEF Keeps, ActiveSession
    <2>4. b \in ActiveSession
      BY DEF ActiveSession
    <2>5. c \in ActiveSession
      BY DEF ActiveSession
    <2>6. "finishing" \in LiveStates /\ <<>> \in Seq(NotesOf(s))
      BY DEF LiveStates, SessionStates, AllowedTransitions, Outcomes
    <2> HIDE DEF b, c
    <2>7. CASE /\ Transition("finishing")
               /\ ses' = [ses EXCEPT ![s] = b]
               /\ outbox' = <<>>
      BY <2>2, <2>3, <2>4, <2>6, <2>7 DEF Works, Carries, Transition, isCurrent
    <2> QED
      BY <2>1, <2>3, <2>5, <2>7, QuietlyWorks DEF Carries
  <1>4. CASE Cancel(s)
    <2> DEFINE interrupted == Interrupt(ses[s])
               b == [interrupted EXCEPT !.cancel = "waiting"]
    <2>1. /\ Transition("cancelling")
          /\ ses' = [ses EXCEPT ![s] = b]
          /\ outbox' = <<>>
          /\ isCurrent(s)
      BY <1>4 DEF Cancel, TypeOK
    <2>2. Carries(ses[s], interrupted)
      BY InterruptCarries
    <2> HIDE DEF interrupted
    <2>3. b \in ActiveSession
      BY <2>2 DEF Carries, ActiveSession
    <2>4. Keeps(interrupted, b)
      BY <2>2 DEF Carries, Keeps, ActiveSession
    <2> HIDE DEF b
    <2>5. Carries(ses[s], b)
      BY <2>2, <2>3, <2>4 DEF Carries, Keeps
    <2>6. "cancelling" \in LiveStates /\ <<>> \in Seq(NotesOf(s))
      BY DEF LiveStates, SessionStates, AllowedTransitions, Outcomes
    <2> QED
      BY <2>1, <2>3, <2>5, <2>6 DEF Works, Transition, isCurrent
  <1>5. CASE \E choice \in Choices : SelectResult(s, choice)
    <2>1. PICK choice \in Choices : SelectResult(s, choice)
      BY <1>5
    <2> DEFINE request == IF ses[s].request = "live" THEN "aborted" ELSE ses[s].request
               b == [ses[s] EXCEPT !.request = request]
    <2>2. request \in {"none", "live", "aborted", "done"}
      BY DEF ActiveSession
    <2>3. isCurrent(s) /\ Complete(s, b, choice, <<>>)
      BY <2>1 DEF SelectResult
    <2> HIDE DEF request
    <2>4. b \in ActiveSession
      BY <2>2 DEF ActiveSession
    <2>5. Keeps(ses[s], b)
      BY DEF Keeps, ActiveSession
    <2> HIDE DEF b
    <2>6. <<>> \in Seq(NotesOf(s))
      OBVIOUS
    <2> QED
      BY <2>3, <2>4, <2>5, <2>6, CompleteSettles DEF Carries
  <1> QED
    BY <1>1, <1>2, <1>3, <1>4, <1>5 DEF ClientStep

LEMMA RecordingTimeoutWorks ==
  ASSUME TypeOK, NEW s \in Sessions, RecordingTimeout(s)
  PROVE  Works(s)
  <1> ses[s] \in ActiveSession
    BY DEF TypeOK
  <1> DEFINE b == [ses[s] EXCEPT !.timer = FALSE]
  <1>1. b \in ActiveSession
    BY DEF ActiveSession
  <1>2. Keeps(ses[s], b)
    BY DEF Keeps, ActiveSession
  <1>3. Fail(s, b, b)
    BY DEF RecordingTimeout
  <1> HIDE DEF b
  <1> QED
    BY <1>1, <1>2, <1>3, FailWorks DEF Carries

LEMMA CancelSettlesShape ==
  ASSUME TypeOK, NEW s \in Sessions, CancelSettles(s)
  PROVE  Works(s) \/ Settles(s)
  <1> ses[s] \in ActiveSession
    BY DEF TypeOK
  <1> DEFINE b == [ses[s] EXCEPT !.cancel = "done"]
  <1>1. b \in ActiveSession
    BY DEF ActiveSession
  <1>2. Keeps(ses[s], b)
    BY DEF Keeps, ActiveSession
  <1>3. \/ isCurrent(s) /\ Settle(s, b, "cancelled", <<>>)
        \/ Quietly(s, b)
    BY DEF CancelSettles
  <1> HIDE DEF b
  <1>4. <<>> \in Seq(NotesOf(s)) /\ "cancelled" \in Outcomes
    BY DEF Outcomes
  <1> QED
    BY <1>1, <1>2, <1>3, <1>4, SettleSettles, QuietlyWorks DEF Carries, Keeps, Fits

LEMMA FailSettlesShape ==
  ASSUME TypeOK, NEW s \in Sessions, FailSettles(s)
  PROVE  Works(s) \/ Settles(s)
  <1> ses[s] \in ActiveSession
    BY DEF TypeOK
  <1> DEFINE b == [ses[s] EXCEPT !.fail = "done"]
             c == [b EXCEPT !.told = "error"]
             notes == <<Notification(s, "error", "failure")>>
  <1>1. \/ isCurrent(s) /\ Settle(s, c, "failed", notes)
        \/ Quietly(s, b)
    BY DEF FailSettles
  <1>2. b \in ActiveSession
    BY DEF ActiveSession
  <1>3. Keeps(ses[s], b)
    BY DEF Keeps, ActiveSession
  <1>4. (c.start = "none" <=> ses[s].start = "none") /\ c.told = "error"
    BY DEF ActiveSession
  <1> HIDE DEF b
  <1>5. c \in ActiveSession
    BY <1>2 DEF ActiveSession
  <1> HIDE DEF c
  <1>6. notes \in Seq(NotesOf(s))
    <2>1. "error" \in Methods /\ "failure" \in NoteValues
      BY DEF Methods, NoteValues
    <2> QED
      BY <2>1, NotificationTyped
  <1> HIDE DEF notes
  <1>7. "failed" \in Outcomes
    BY DEF Outcomes
  <1> QED
    BY <1>1, <1>2, <1>3, <1>4, <1>5, <1>6, <1>7, SettleSettles, QuietlyWorks
    DEF Carries, Fits

LEMMA StepShapes ==
  ASSUME TypeOK, NEW s \in Sessions, SessionStep(s)
  PROVE  Begins(s) \/ Works(s) \/ Settles(s)
  BY ClientStepShape, StartStepWorks, RecordingTimeoutWorks, FinishStepWorks,
     CancelSettlesShape, FailSettlesShape, AudioStepWorks, AsrStepWorks,
     TextStepShape DEF SessionStep

-------------------------------------------------------------------------------
(***************************************************************************)
(* The inductive invariant.  GateFollowsSession alone is not inductive:    *)
(* Start would make a session active that was already settled, were it     *)
(* not for Untouched, and cancelling would leave a notification behind     *)
(* that a cancelled session does not have, were it not for Untold.         *)
(***************************************************************************)
Untouched == \A s \in Sessions : ses[s].start = "none" => ~isSettled(s)

Untold == \A s \in Sessions : ~isSettled(s) => ses[s].told = "none"

Inv == TypeOK /\ GateFollowsSession /\ Untouched /\ Untold

LEMMA InvInit == Init => Inv
  <1> SUFFICES ASSUME Init PROVE Inv
    OBVIOUS
  <1>1. NewSession \in ActiveSession
    BY DEF NewSession, ActiveSession, AsrStates, CaptureStates, AllPolicies, Modes,
           Outcomes, Choices, Phases
  <1>2. \A s \in Sessions : ses[s] = NewSession
    BY DEF Init
  <1>3. NewSession.start = "none" /\ NewSession.outcome = "none" /\ NewSession.told = "none"
    BY DEF NewSession
  <1>4. TypeOK
    BY <1>1 DEF Init, TypeOK, SessionStates, AllowedTransitions, Outcomes
  <1>5. GateFollowsSession
    BY <1>2, <1>3, NoneIsNoSession DEF Init, GateFollowsSession, isSettled
  <1>6. Untouched /\ Untold
    BY <1>2, <1>3 DEF Untouched, Untold, isSettled
  <1> QED
    BY <1>4, <1>5, <1>6 DEF Inv

LEMMA NotesTyped ==
  ASSUME NEW s \in Sessions, outbox' \in Seq(NotesOf(s))
  PROVE  outbox' \in Seq([session : Sessions, method : Methods, value : NoteValues])
  <1> DEFINE all == [session : Sessions, method : Methods, value : NoteValues]
  <1>1. NotesOf(s) \subseteq all
    BY DEF NotesOf
  <1> HIDE DEF all
  <1>2. \A i \in 1..Len(outbox') : outbox'[i] \in all
    BY <1>1
  <1>3. outbox' \in Seq(all)
    BY <1>2
  <1> QED
    BY <1>3 DEF all

LEMMA OneRecordChanges ==
  ASSUME TypeOK, NEW s \in Sessions, NEW b \in ActiveSession,
         ses' = [ses EXCEPT ![s] = b]
  PROVE  /\ ses' \in [Sessions -> ActiveSession]
         /\ ses'[s] = b
         /\ \A t \in Sessions \ {s} : ses'[t] = ses[t]
  BY DEF TypeOK

LEMMA BeginsKeepsInv ==
  ASSUME Inv, NEW s \in Sessions, Begins(s)
  PROVE  Inv'
  <1>1. PICK b \in ActiveSession : /\ b.start = "creating"
                                   /\ b.outcome = ses[s].outcome
                                   /\ b.told = ses[s].told
                                   /\ ses' = [ses EXCEPT ![s] = b]
    BY DEF Begins
  <1>2. /\ ses' \in [Sessions -> ActiveSession]
        /\ ses'[s] = b
        /\ \A t \in Sessions \ {s} : ses'[t] = ses[t]
    BY <1>1, OneRecordChanges DEF Inv
  <1>3. TypeOK'
    BY <1>2, NotesTyped
    DEF Begins, Inv, TypeOK, SessionStates, AllowedTransitions, Outcomes
  <1>4. GateFollowsSession'
    BY <1>1, <1>2, NoneIsNoSession
    DEF Begins, Inv, GateFollowsSession, Untouched, isSettled
  <1>5. Untouched' /\ Untold'
    BY <1>1, <1>2 DEF Begins, Inv, Untouched, Untold, isSettled
  <1> QED
    BY <1>3, <1>4, <1>5 DEF Inv

LEMMA WorksKeepsInv ==
  ASSUME Inv, NEW s \in Sessions, Works(s)
  PROVE  Inv'
  <1>1. PICK b \in ActiveSession : Keeps(ses[s], b) /\ ses' = [ses EXCEPT ![s] = b]
    BY DEF Works, Carries
  <1>2. /\ ses' \in [Sessions -> ActiveSession]
        /\ ses'[s] = b
        /\ \A t \in Sessions \ {s} : ses'[t] = ses[t]
    BY <1>1, OneRecordChanges DEF Inv
  <1>3. TypeOK'
    BY <1>2, NotesTyped DEF Works, Inv, TypeOK, LiveStates, coord
  <1>4. GateFollowsSession'
    BY <1>1, <1>2, NoneIsNoSession
    DEF Works, Keeps, Inv, GateFollowsSession, LiveStates, isSettled, coord
  <1>5. Untouched' /\ Untold'
    BY <1>1, <1>2 DEF Keeps, Inv, Untouched, Untold, isSettled
  <1> QED
    BY <1>3, <1>4, <1>5 DEF Inv

LEMMA SettlesKeepsInv ==
  ASSUME Inv, NEW s \in Sessions, Settles(s)
  PROVE  Inv'
  <1>1. PICK b \in ActiveSession : /\ b.start = "none" <=> ses[s].start = "none"
                                   /\ Fits(b.told, b.outcome, ses[s].told)
                                   /\ ses' = [ses EXCEPT ![s] = b]
    BY DEF Settles
  <1>2. /\ ses' \in [Sessions -> ActiveSession]
        /\ ses'[s] = b
        /\ \A t \in Sessions \ {s} : ses'[t] = ses[t]
    BY <1>1, OneRecordChanges DEF Inv
  <1>3. b.outcome # "none"
    BY <1>1 DEF Fits
  <1>4. TypeOK'
    BY <1>2, NotesTyped
    DEF Settles, Inv, TypeOK, SessionStates, AllowedTransitions, Outcomes
  <1>5. GateFollowsSession'
    BY <1>2, <1>3, NoneIsNoSession DEF Settles, Inv, GateFollowsSession, isSettled
  <1>6. Untouched' /\ Untold'
    BY <1>1, <1>2, <1>3
    DEF Settles, Inv, GateFollowsSession, Untouched, Untold, isSettled
  <1> QED
    BY <1>4, <1>5, <1>6 DEF Inv

LEMMA OthersKeepInv ==
  ASSUME Inv, OtherAcquires \/ OtherReleases \/ UNCHANGED vars
  PROVE  Inv'
  <1>1. TypeOK'
    <2> DEFINE all == [session : Sessions, method : Methods, value : NoteValues]
    <2>1. outbox' = <<>> \/ outbox' = outbox
      BY DEF OtherAcquires, OtherReleases, vars
    <2> HIDE DEF all
    <2>2. <<>> \in Seq(all)
      OBVIOUS
    <2>3. outbox' \in Seq(all)
      BY <2>1, <2>2 DEF Inv, TypeOK, all
    <2> QED
      BY <2>3 DEF Inv, TypeOK, OtherAcquires, OtherReleases, vars, all
  <1>2. GateFollowsSession'
    BY DEF Inv, GateFollowsSession, isSettled, OtherAcquires, OtherReleases, vars
  <1>3. Untouched' /\ Untold'
    BY DEF Inv, Untouched, Untold, isSettled, OtherAcquires, OtherReleases, vars
  <1> QED
    BY <1>1, <1>2, <1>3 DEF Inv

LEMMA NextShapes ==
  ASSUME TypeOK, [Next]_vars
  PROVE  \/ \E s \in Sessions : Begins(s) \/ Works(s) \/ Settles(s)
         \/ OtherAcquires \/ OtherReleases \/ UNCHANGED vars
  BY StepShapes DEF Next

LEMMA Invariance == Spec => []Inv
  <1>1. Inv /\ [Next]_vars => Inv'
    BY NextShapes, BeginsKeepsInv, WorksKeepsInv, SettlesKeepsInv, OthersKeepInv DEF Inv
  <1> QED
    BY <1>1, InvInit, PTL DEF Spec

-------------------------------------------------------------------------------
(***************************************************************************)
(* What the coordinator guarantees.                                        *)
(***************************************************************************)
\* Every record of a session keeps to its type and the coordinator never rests in
\* a transient state, through every interleaving of its suspended operations.
THEOREM TypeCorrect == Spec => []TypeOK
  <1>1. Inv => TypeOK
    BY DEF Inv
  <1> QED
    BY <1>1, Invariance, PTL

\* The session gate shared by all connections is held exactly while a session of
\* this one lives, and #active is that session.
THEOREM GateCorrect == Spec => []GateFollowsSession
  <1>1. Inv => GateFollowsSession
    BY DEF Inv
  <1> QED
    BY <1>1, Invariance, PTL

\* No notification is published about a session that was settled, by whatever
\* operation of it is still suspended.
THEOREM SilenceCorrect == Spec => SilentAfterSettlement
  <1>1. ASSUME Inv, [Next]_vars
        PROVE  [\A i \in DOMAIN outbox' : ~isSettled(outbox'[i].session)]_vars
    <2>1. ASSUME NEW s \in Sessions, Begins(s) \/ Works(s) \/ Settles(s),
                 NEW i \in DOMAIN outbox'
          PROVE  ~isSettled(outbox'[i].session)
      <3>1. outbox' \in Seq(NotesOf(s))
        BY <2>1 DEF Begins, Works, Settles
      <3>2. outbox'[i] \in NotesOf(s)
        BY <2>1, <3>1
      <3>3. outbox'[i].session = s
        BY <3>2 DEF NotesOf
      <3>4. outbox' # <<>>
        BY <2>1
      <3>5. ses[s].start = "none" \/ active = s
        BY <2>1, <3>4 DEF Begins, Works, Settles
      <3> QED
        BY <1>1, <3>3, <3>5 DEF Inv, GateFollowsSession, Untouched
    <2>2. ASSUME OtherAcquires \/ OtherReleases, NEW i \in DOMAIN outbox'
          PROVE  ~isSettled(outbox'[i].session)
      BY <2>2 DEF OtherAcquires, OtherReleases
    <2> QED
      BY <1>1, <2>1, <2>2, NextShapes DEF Inv
  <1> QED
    BY <1>1, Invariance, PTL DEF Spec, SilentAfterSettlement

\* What still runs for a session that is not active leaves the coordinator alone.
THEOREM StaleWorkCorrect == Spec => StaleWorkIsHarmless
  <1>1. ASSUME Inv, [Next]_vars
        PROVE  [\A s \in Sessions :
                  ses'[s] # ses[s] /\ active # s /\ active' # s => UNCHANGED coord]_vars
    <2>1. ASSUME NEW s \in Sessions, Begins(s) \/ Works(s) \/ Settles(s),
                 NEW t \in Sessions, ses'[t] # ses[t], active # t, active' # t
          PROVE  UNCHANGED coord
      <3>1. PICK b \in ActiveSession : ses' = [ses EXCEPT ![s] = b]
        BY <2>1 DEF Begins, Works, Settles
      <3>2. t = s
        BY <2>1, <3>1, OneRecordChanges DEF Inv
      <3> QED
        BY <2>1, <3>2 DEF Begins, Works, Settles
    <2>2. ASSUME OtherAcquires \/ OtherReleases, NEW t \in Sessions
          PROVE  ses'[t] = ses[t]
      BY <2>2 DEF OtherAcquires, OtherReleases
    <2> QED
      BY <1>1, <2>1, <2>2, NextShapes DEF Inv
  <1> QED
    BY <1>1, Invariance, PTL DEF Spec, StaleWorkIsHarmless

-------------------------------------------------------------------------------
(***************************************************************************)
(* The coordinator implements SessionLifecycle.                            *)
(***************************************************************************)
statuses == [s \in Sessions |-> Status(ses[s])]
notices  == [s \in Sessions |-> Told(ses[s])]

LEMMA InitMaps == Init => Lifecycle!Init
  <1> SUFFICES ASSUME Init PROVE Lifecycle!Init
    OBVIOUS
  <1>1. ASSUME NEW s \in Sessions
        PROVE  Status(ses[s]) = "new" /\ Told(ses[s]) = "none"
    BY DEF Init, NewSession, Status, Told, Choices
  <1> QED
    BY <1>1 DEF Init, Lifecycle!Init

LEMMA BeginsOpens ==
  ASSUME Inv, NEW s \in Sessions, Begins(s)
  PROVE  Lifecycle!Open(s)
  <1>1. PICK b \in ActiveSession : /\ b.start = "creating"
                                   /\ b.outcome = ses[s].outcome
                                   /\ b.told = ses[s].told
                                   /\ ses' = [ses EXCEPT ![s] = b]
    BY DEF Begins
  <1>2. /\ ses'[s] = b
        /\ \A t \in Sessions \ {s} : ses'[t] = ses[t]
    BY <1>1, OneRecordChanges DEF Inv
  <1>3. Status(ses[s]) = "new" /\ Status(b) = "live" /\ Told(b) = Told(ses[s])
    BY <1>1 DEF Begins, Status, Told, Inv, Untouched, isSettled
  <1>4. [t \in Sessions |-> Status(ses'[t])] = [statuses EXCEPT ![s] = "live"]
    <2>1. \A t \in Sessions :
            Status(ses'[t]) = IF t = s THEN "live" ELSE Status(ses[t])
      BY <1>2, <1>3
    <2> QED
      BY <2>1 DEF statuses
  <1>5. [t \in Sessions |-> Told(ses'[t])] = notices
    BY <1>2, <1>3 DEF notices
  <1> QED
    BY <1>3, <1>4, <1>5 DEF Begins, Lifecycle!Open, statuses, notices

LEMMA WorksStutters ==
  ASSUME Inv, NEW s \in Sessions, Works(s)
  PROVE  UNCHANGED Lifecycle!vars
  <1>1. PICK b \in ActiveSession : Keeps(ses[s], b) /\ ses' = [ses EXCEPT ![s] = b]
    BY DEF Works, Carries
  <1>2. /\ ses'[s] = b
        /\ \A t \in Sessions \ {s} : ses'[t] = ses[t]
    BY <1>1, OneRecordChanges DEF Inv
  <1>3. Status(b) = Status(ses[s]) /\ Told(b) = Told(ses[s])
    BY <1>1 DEF Keeps, Status, Told
  <1>4. [t \in Sessions |-> Status(ses'[t])] = statuses
    BY <1>2, <1>3 DEF statuses
  <1>5. [t \in Sessions |-> Told(ses'[t])] = notices
    BY <1>2, <1>3 DEF notices
  <1>6. gate' = gate
    BY DEF Works, coord
  <1> QED
    BY <1>4, <1>5, <1>6 DEF Lifecycle!vars, statuses, notices

LEMMA SettlesCloses ==
  ASSUME Inv, NEW s \in Sessions, Settles(s)
  PROVE  \E o \in Lifecycle!Outcomes : Lifecycle!Close(s, o)
  <1>1. PICK b \in ActiveSession : /\ b.start = "none" <=> ses[s].start = "none"
                                   /\ Fits(b.told, b.outcome, ses[s].told)
                                   /\ ses' = [ses EXCEPT ![s] = b]
    BY DEF Settles
  <1>2. /\ ses'[s] = b
        /\ \A t \in Sessions \ {s} : ses'[t] = ses[t]
    BY <1>1, OneRecordChanges DEF Inv
  <1>3. ses[s].start # "none" /\ ~isSettled(s) /\ gate = "self" /\ ses[s].told = "none"
    BY NoneIsNoSession DEF Settles, Inv, GateFollowsSession, Untold
  <1>4. Status(ses[s]) = "live"
    BY <1>3 DEF Status, isSettled
  <1>5. b.outcome \in Lifecycle!Outcomes
    BY <1>1 DEF Fits, Lifecycle!Outcomes
  <1>6. Status(b) = b.outcome
    BY <1>1, <1>3, <1>5 DEF Status, Lifecycle!Outcomes
  <1>7. Told(b) = Lifecycle!Notice[b.outcome]
    BY <1>1, <1>3 DEF Fits, Told, Lifecycle!Notice, Lifecycle!Outcomes, Choices
  <1>8. [t \in Sessions |-> Status(ses'[t])] = [statuses EXCEPT ![s] = b.outcome]
    BY <1>2, <1>6 DEF statuses
  <1>9. [t \in Sessions |-> Told(ses'[t])]
          = [notices EXCEPT ![s] = Lifecycle!Notice[b.outcome]]
    BY <1>2, <1>7 DEF notices
  <1>10. gate' = "none"
    BY <1>3 DEF Settles
  <1> QED
    BY <1>4, <1>5, <1>8, <1>9, <1>10 DEF Lifecycle!Close, statuses, notices

\* Each session is settled exactly once, with the one terminal notification that
\* belongs to how it ended, and the gate is taken for precisely that long.
THEOREM LifecycleCorrect == Spec => ImplementsLifecycle
  <1>1. ASSUME Inv, [Next]_vars
        PROVE  [Lifecycle!Next]_(Lifecycle!vars)
    <2>1. ASSUME NEW s \in Sessions, Begins(s) \/ Works(s) \/ Settles(s)
          PROVE  Lifecycle!Next \/ UNCHANGED Lifecycle!vars
      BY <1>1, <2>1, BeginsOpens, WorksStutters, SettlesCloses DEF Lifecycle!Next
    <2>2. CASE OtherAcquires
      BY <2>2 DEF OtherAcquires, Lifecycle!Next, Lifecycle!OtherOpens
    <2>3. CASE OtherReleases
      BY <2>3 DEF OtherReleases, Lifecycle!Next, Lifecycle!OtherCloses
    <2>4. CASE UNCHANGED vars
      BY <2>4 DEF vars, Lifecycle!vars
    <2> QED
      BY <1>1, <2>1, <2>2, <2>3, <2>4, NextShapes DEF Inv
  <1> QED
    BY <1>1, InitMaps, Invariance, PTL DEF Spec, ImplementsLifecycle, Lifecycle!Spec

-------------------------------------------------------------------------------
(***************************************************************************)
(* What text a session commits: never one that was not offered as final,   *)
(* and none once it was cancelled.  Most steps do not touch what that      *)
(* depends on (Innocent).  The others are the first cancel(), the two      *)
(* steps that offer a result (TranscriptProcessed and PolishValidated) and *)
(* the two that commit one (TranscriptProcessed too, and SelectResult).    *)
(***************************************************************************)
Polishing == {"polishing", "validating"}

\* Record a, of a session that is active or not, when the coordinator is in state st.
\* The polisher runs for the active session only in "polishing" (or "cancelling"), so
\* that what it ends with is offered; a cancelled session stays in "cancelling" until it is settled.
Sound(a, live, st) ==
  /\ a.start = "none" =>
       a.events = "none" /\ a.cancel = "none" /\ ~a.transcript /\ ~a.polished
  /\ a.told \in Choices => a.told \in a.offered /\ a.cancel = "none"
  /\ live =>
       /\ a.cancel # "none" => st = "cancelling"
       /\ a.events \in Polishing => st \in {"polishing", "cancelling"}
       /\ st # "cancelling" /\ a.transcript => "transcript" \in a.offered
       /\ st # "cancelling" /\ a.polished => "polished" \in a.offered

SoundNow(s) == Sound(ses[s], active = s, state)

CommitInv == \A s \in Sessions : SoundNow(s)

\* From record a to record b nothing changes that a commit depends on.
Innocent(a, b) ==
  /\ b.start = "none" <=> a.start = "none"
  /\ b.cancel = "none" <=> a.cancel = "none"
  /\ b.transcript = a.transcript
  /\ b.polished => a.polished
  /\ b.offered = a.offered
  /\ b.told = a.told \/ b.told \notin Choices
  /\ b.events # a.events => a.start # "none"
  /\ b.events \in Polishing => a.events \in Polishing

-------------------------------------------------------------------------------
(***************************************************************************)
(* The helpers of the coordinator.                                         *)
(***************************************************************************)
LEMMA InnocentTransitive ==
  ASSUME NEW a, NEW b, NEW c, Innocent(a, b), Innocent(b, c)
  PROVE  Innocent(a, c)
  BY DEF Innocent

\* The coordinator stays where it is, settles the session, or moves on to a state in
\* which the session may be.
LEMMA InnocentSound ==
  ASSUME TypeOK, NEW s \in Sessions, SoundNow(s), NEW b, Innocent(ses[s], b),
         ses' = [ses EXCEPT ![s] = b],
         \/ UNCHANGED coord
         \/ active' = None
         \/ /\ active' = active
            /\ active = s => /\ state # "cancelling"
                             /\ b.events \in Polishing => state' = "polishing"
  PROVE  SoundNow(s)'
  <1>1. ses'[s] = b
    BY DEF TypeOK
  <1>2. active' = s => active = s
    BY NoneIsNoSession DEF coord
  <1> DEFINE a == ses[s]
             live == active = s
             later == active' = s
  <1>3. Sound(a, live, state) /\ Innocent(a, b)
    BY DEF SoundNow
  <1>4. later => /\ live
                 /\ \/ state' = state
                    \/ state # "cancelling" /\ (b.events \in Polishing => state' = "polishing")
    BY <1>2, NoneIsNoSession DEF coord
  <1> HIDE DEF a, live, later
  <1>5. b.start = "none" =>
          b.events = "none" /\ b.cancel = "none" /\ ~b.transcript /\ ~b.polished
    BY <1>3 DEF Sound, Innocent
  <1>6. b.told \in Choices => b.told \in b.offered /\ b.cancel = "none"
    BY <1>3 DEF Sound, Innocent
  <1>7. later => /\ b.cancel # "none" => state' = "cancelling"
                 /\ b.events \in Polishing => state' \in {"polishing", "cancelling"}
    BY <1>3, <1>4 DEF Sound, Innocent
  <1>8. later => /\ state' # "cancelling" /\ b.transcript => "transcript" \in b.offered
                 /\ state' # "cancelling" /\ b.polished => "polished" \in b.offered
    BY <1>3, <1>4 DEF Sound, Innocent
  <1>9. Sound(b, later, state')
    BY <1>5, <1>6, <1>7, <1>8 DEF Sound
  <1> QED
    BY <1>1, <1>9 DEF SoundNow, later

LEMMA QuietlySound ==
  ASSUME TypeOK, NEW s \in Sessions, SoundNow(s), NEW b, Innocent(ses[s], b), Quietly(s, b)
  PROVE  SoundNow(s)'
  BY InnocentSound DEF Quietly

LEMMA InterruptInnocent ==
  ASSUME NEW a \in ActiveSession
  PROVE  Innocent(a, [Interrupt(a) EXCEPT !.fail = "waiting"])
  <1> DEFINE b == Interrupt(a)
  <1>1. b \in ActiveSession
    BY InterruptCarries DEF Carries
  <1>2. Innocent(a, b)
    BY DEF Interrupt, Innocent, ActiveSession
  <1> HIDE DEF b
  <1>3. Innocent(b, [b EXCEPT !.fail = "waiting"])
    BY <1>1 DEF Innocent, ActiveSession
  <1> QED
    BY <1>2, <1>3, InnocentTransitive DEF b

LEMMA FailSound ==
  ASSUME TypeOK, NEW s \in Sessions, SoundNow(s), NEW began \in ActiveSession, NEW skipped,
         Innocent(ses[s], began), Innocent(ses[s], skipped), Fail(s, began, skipped)
  PROVE  SoundNow(s)'
  <1>1. Innocent(ses[s], [Interrupt(began) EXCEPT !.fail = "waiting"])
    BY InterruptInnocent, InnocentTransitive
  <1> QED
    BY <1>1, QuietlySound DEF Fail

\* The active session goes on to another state, which is that of its polisher if
\* there is one.
LEMMA EnterSound ==
  ASSUME TypeOK, NEW s \in Sessions, SoundNow(s), NEW b, NEW to, NEW before,
         Innocent(ses[s], [b EXCEPT !.phase = to]),
         isCurrent(s), state # "cancelling",
         [b EXCEPT !.phase = to].events \in Polishing => to = "polishing",
         Enter(s, b, to, before)
  PROVE  SoundNow(s)'
  BY InnocentSound DEF Enter, Transition

\* The records of the other sessions stay, and so does what they depend on.
LEMMA OtherSessionsSound ==
  ASSUME Inv, CommitInv, NEW s \in Sessions, Begins(s) \/ Works(s) \/ Settles(s),
         NEW t \in Sessions \ {s}
  PROVE  SoundNow(t)'
  <1>1. PICK b \in ActiveSession : ses' = [ses EXCEPT ![s] = b]
    BY DEF Begins, Works, Settles
  <1>2. ses'[t] = ses[t]
    BY <1>1, OneRecordChanges DEF Inv
  <1>3. active' = t => active = t /\ state' = state
    BY NoneIsNoSession DEF Begins, Works, Settles, coord
  <1> QED
    BY <1>2, <1>3 DEF CommitInv, SoundNow, Sound

-------------------------------------------------------------------------------
(***************************************************************************)
(* The actions, by the record they leave.                                  *)
(***************************************************************************)
LEMMA StartStepSound ==
  ASSUME TypeOK, NEW s \in Sessions, SoundNow(s), StartStep(s)
  PROVE  SoundNow(s)'
  <1> ses[s] \in ActiveSession
    BY DEF TypeOK
  <1>1. CASE AsrCreated(s)
    <2>1. Innocent(ses[s], [ses[s] EXCEPT !.start = "asrStarting", !.asr = "created"])
      BY <1>1 DEF AsrCreated, Innocent, ActiveSession
    <2> QED
      BY <1>1, <2>1, QuietlySound DEF AsrCreated
  <1>2. CASE AsrStarted(s)
    <2> DEFINE asr == IF ses[s].aborted THEN "closed" ELSE "open"
               b == [ses[s] EXCEPT !.start = "capStarting", !.asr = asr,
                                   !.events = "reading", !.capture = "starting"]
    <2>1. Quietly(s, b)
      BY <1>2 DEF AsrStarted
    <2> HIDE DEF asr
    <2>2. Innocent(ses[s], b)
      BY <1>2 DEF AsrStarted, Innocent, ActiveSession, Polishing
    <2> QED
      BY <2>1, <2>2, QuietlySound
  <1>3. CASE StartAsrFails(s)
    <2> DEFINE asr == IF ses[s].asr = "none" THEN "none" ELSE "closed"
               a == [ses[s] EXCEPT !.asr = asr]
               b == [a EXCEPT !.start = "failing"]
               c == [a EXCEPT !.start = "threw"]
    <2>1. Fail(s, b, c)
      BY <1>3 DEF StartAsrFails
    <2>2. asr \in AsrStates
      BY DEF AsrStates
    <2> HIDE DEF asr
    <2>3. b \in ActiveSession
      BY <2>2 DEF ActiveSession
    <2>4. Innocent(ses[s], b) /\ Innocent(ses[s], c)
      BY <1>3 DEF StartAsrFails, Innocent, ActiveSession
    <2> QED
      BY <2>1, <2>3, <2>4, FailSound
  <1>4. CASE CaptureStarted(s)
    <2> DEFINE capture == IF ses[s].aborted THEN "closed" ELSE "open"
               a == [ses[s] EXCEPT !.capture = capture]
               recording == [a EXCEPT !.start = "returned", !.timer = TRUE,
                                      !.pump = "reading"]
               undoing == [a EXCEPT !.start = "undoing", !.capture = "closed"]
               threw == [a EXCEPT !.start = "threw"]
    <2>1. \/ /\ isCurrent(s) /\ state = "starting"
             /\ Enter(s, recording, "recording", <<>>)
          \/ Quietly(s, recording) \/ Quietly(s, undoing) \/ Quietly(s, threw)
      BY <1>4 DEF CaptureStarted
    <2> HIDE DEF capture
    <2>2. /\ Innocent(ses[s], recording)
          /\ Innocent(ses[s], undoing)
          /\ Innocent(ses[s], threw)
      BY <1>4 DEF CaptureStarted, Innocent, ActiveSession
    <2>3. ASSUME isCurrent(s), state = "starting", Enter(s, recording, "recording", <<>>)
          PROVE  SoundNow(s)'
      <3>1. /\ Innocent(ses[s], [recording EXCEPT !.phase = "recording"])
            /\ [recording EXCEPT !.phase = "recording"].events = ses[s].events
        BY <1>4 DEF CaptureStarted, Innocent, ActiveSession
      <3>2. ses[s].events \notin Polishing
        BY <2>3 DEF SoundNow, Sound, isCurrent
      <3> HIDE DEF recording
      <3> QED
        BY <2>3, <3>1, <3>2, EnterSound
    <2> HIDE DEF recording, undoing, threw
    <2> QED
      BY <2>1, <2>2, <2>3, QuietlySound
  <1>5. CASE CaptureStartFails(s)
    <2> DEFINE a == [ses[s] EXCEPT !.capture = "closed"]
               b == [a EXCEPT !.start = "failing"]
               c == [a EXCEPT !.start = "threw"]
    <2>1. b \in ActiveSession
      BY DEF ActiveSession, CaptureStates
    <2>2. Innocent(ses[s], b) /\ Innocent(ses[s], c)
      BY <1>5 DEF CaptureStartFails, Innocent, ActiveSession
    <2> QED
      BY <1>5, <2>1, <2>2, FailSound DEF CaptureStartFails
  <1>6. CASE StartThrows(s)
    <2>1. Innocent(ses[s], [ses[s] EXCEPT !.start = "threw"])
      BY <1>6 DEF StartThrows, Innocent, ActiveSession
    <2> QED
      BY <1>6, <2>1, QuietlySound DEF StartThrows
  <1> QED
    BY <1>1, <1>2, <1>3, <1>4, <1>5, <1>6 DEF StartStep

LEMMA FinishStepSound ==
  ASSUME TypeOK, NEW s \in Sessions, SoundNow(s), FinishStep(s)
  PROVE  SoundNow(s)'
  <1> ses[s] \in ActiveSession
    BY DEF TypeOK
  <1> DEFINE to(finish) == [ses[s] EXCEPT !.finish = finish]
  <1>1. ASSUME NEW finish
        PROVE  Innocent(ses[s], to(finish))
    BY DEF Innocent, ActiveSession
  <1>2. to("failing") \in ActiveSession
    BY DEF ActiveSession
  <1>3. CASE CaptureStopped(s)
    <2> DEFINE capture == IF ses[s].capture = "open" THEN "stopped" ELSE ses[s].capture
               b == [ses[s] EXCEPT !.finish = "draining", !.capture = capture]
    <2>1. Quietly(s, b)
      BY <1>3 DEF CaptureStopped
    <2> HIDE DEF capture
    <2>2. Innocent(ses[s], b)
      BY DEF Innocent, ActiveSession
    <2> QED
      BY <2>1, <2>2, QuietlySound
  <1>4. CASE Drained(s)
    <2>1. \/ Quietly(s, to("rejected")) \/ Quietly(s, to("resolved"))
          \/ /\ isCurrent(s) /\ state = "finishing"
             /\ Enter(s, to("asrFinishing"), "recognizing", <<>>)
      BY <1>4 DEF Drained
    <2>2. ASSUME isCurrent(s), state = "finishing",
                 Enter(s, to("asrFinishing"), "recognizing", <<>>)
          PROVE  SoundNow(s)'
      <3>1. /\ Innocent(ses[s], [to("asrFinishing") EXCEPT !.phase = "recognizing"])
            /\ [to("asrFinishing") EXCEPT !.phase = "recognizing"].events = ses[s].events
        BY DEF Innocent, ActiveSession
      <3>2. ses[s].events \notin Polishing
        BY <2>2 DEF SoundNow, Sound, isCurrent
      <3> HIDE DEF to
      <3> QED
        BY <2>2, <3>1, <3>2, EnterSound
    <2> HIDE DEF to
    <2> QED
      BY <1>1, <2>1, <2>2, QuietlySound
  <1>5. \/ Quietly(s, to("resolved")) \/ Quietly(s, to("rejected"))
        \/ Fail(s, to("failing"), to("rejected"))
        \/ CaptureStopped(s) \/ Drained(s)
    BY DEF FinishStep, CaptureStopFails, AsrFinished, AsrFinishFails, FinishThrows
  <1> HIDE DEF to
  <1> QED
    BY <1>1, <1>2, <1>3, <1>4, <1>5, QuietlySound, FailSound

LEMMA AudioStepSound ==
  ASSUME TypeOK, NEW s \in Sessions, SoundNow(s), AudioStep(s) \/ RecordingTimeout(s)
  PROVE  SoundNow(s)'
  <1> ses[s] \in ActiveSession
    BY DEF TypeOK
  <1> DEFINE to(pump) == [ses[s] EXCEPT !.pump = pump]
             unarmed == [ses[s] EXCEPT !.timer = FALSE]
  <1>1. /\ \A pump : Innocent(ses[s], to(pump))
        /\ Innocent(ses[s], unarmed)
    BY DEF Innocent, ActiveSession
  <1>2. to("failing") \in ActiveSession /\ unarmed \in ActiveSession
    <2>1. to("failing") \in ActiveSession
      BY DEF ActiveSession
    <2>2. unarmed \in ActiveSession
      BY DEF ActiveSession
    <2> QED
      BY <2>1, <2>2
  <1>3. \/ Quietly(s, to("writing")) \/ Quietly(s, to("ended")) \/ Quietly(s, to("reading"))
        \/ Fail(s, to("failing"), to("ended"))
        \/ Fail(s, unarmed, unarmed)
    <2>1. ASSUME AudioEnds(s)
          PROVE  Fail(s, to("failing"), to("ended")) \/ Quietly(s, to("ended"))
      <3>1. [to("ended") EXCEPT !.pump = "failing"] = to("failing")
        BY DEF ActiveSession
      <3> QED
        BY <2>1, <3>1 DEF AudioEnds
    <2> QED
      BY <2>1 DEF AudioStep, FrameArrives, FrameWritten, FrameWriteFails, AudioThrows,
                  AudioPumpFailed, RecordingTimeout
  <1> HIDE DEF to, unarmed
  <1> QED
    BY <1>1, <1>2, <1>3, QuietlySound, FailSound

LEMMA AsrStepSound ==
  ASSUME TypeOK, NEW s \in Sessions, SoundNow(s), AsrStep(s)
  PROVE  SoundNow(s)'
  <1> ses[s] \in ActiveSession
    BY DEF TypeOK
  <1> DEFINE closed == [ses[s] EXCEPT !.asr = "closed"]
             ended == [closed EXCEPT !.events = "ended"]
             processing == [closed EXCEPT !.events = "processing"]
  <1>1. CASE AsrPreview(s)
    BY <1>1 DEF AsrPreview, SoundNow, Sound, coord
  <1>2. CASE StaleAsrEvent(s)
    <2>1. Innocent(ses[s], [ses[s] EXCEPT !.events = "ended"])
      BY <1>2 DEF StaleAsrEvent, Innocent, ActiveSession, Polishing, SoundNow, Sound
    <2> QED
      BY <1>2, <2>1, QuietlySound DEF StaleAsrEvent
  <1>3. CASE AsrCompleted(s) \/ AsrFails(s)
    <2>1. ses[s].start # "none"
      BY <1>3 DEF AsrCompleted, AsrFails, SoundNow, Sound
    <2>2. ended \in ActiveSession
      BY DEF ActiveSession, AsrStates
    <2>3. /\ Innocent(ses[s], ended)
          /\ Innocent(ses[s], [processing EXCEPT !.phase = "processing"])
          /\ [processing EXCEPT !.phase = "processing"].events = "processing"
      BY <2>1 DEF Innocent, ActiveSession, Polishing
    <2>4. [ses[s] EXCEPT !.events = "ended", !.asr = "closed"] = ended
      BY DEF ActiveSession
    <2>5. \/ /\ isCurrent(s) /\ state = "recognizing"
             /\ Enter(s, processing, "processing", <<>>)
          \/ Fail(s, ended, ended)
      BY <1>3, <2>4 DEF AsrCompleted, AsrFails
    <2>6. "processing" \notin Polishing
      BY DEF Polishing
    <2> HIDE DEF processing, ended
    <2> QED
      BY <2>2, <2>3, <2>5, <2>6, EnterSound, FailSound
  <1> QED
    BY <1>1, <1>2, <1>3 DEF AsrStep

\* A step whose record is not innocent is judged by what it leaves.
LEMMA RecordSound ==
  ASSUME TypeOK, NEW s \in Sessions, NEW b, ses' = [ses EXCEPT ![s] = b],
         Sound(b, active' = s, state')
  PROVE  SoundNow(s)'
  BY DEF TypeOK, SoundNow

\* A recommendation or a failure ends with the pump that made it.
LEMMA PolisherDoneInnocent ==
  ASSUME NEW a \in ActiveSession, a.start # "none"
  PROVE  Innocent(a, PolisherDone(a)) /\ PolisherDone(a).events = "ended"
  <1> DEFINE request == IF a.request = "live" THEN "done" ELSE a.request
  <1>1. PolisherDone(a) = [a EXCEPT !.events = "ended", !.request = request]
    BY DEF PolisherDone
  <1> HIDE DEF request
  <1> QED
    BY <1>1 DEF Innocent, ActiveSession, Polishing

LEMMA PolishFallbackSound ==
  ASSUME TypeOK, NEW s \in Sessions, SoundNow(s), ses[s].start # "none",
         NEW a \in ActiveSession, Innocent(ses[s], a), PolishFallback(s, a)
  PROVE  SoundNow(s)'
  <1> DEFINE done == PolisherDone(a)
             choosing == [done EXCEPT !.polished = FALSE]
             notes == <<Results(s, "transcript")>>
  <1>1. Innocent(a, done) /\ done.events = "ended" /\ done \in ActiveSession
    BY PolisherDoneInnocent, PolisherDoneCarries DEF Innocent, Carries
  <1>2. \/ isCurrent(s) /\ state = "polishing" /\ Enter(s, choosing, "choosing", notes)
        \/ Quietly(s, done)
    BY DEF PolishFallback, PolishWanted
  <1> HIDE DEF done
  <1>3. /\ Innocent(done, [choosing EXCEPT !.phase = "choosing"])
        /\ [choosing EXCEPT !.phase = "choosing"].events = "ended"
    BY <1>1 DEF Innocent, ActiveSession
  <1>4. Innocent(ses[s], done) /\ Innocent(ses[s], [choosing EXCEPT !.phase = "choosing"])
    BY <1>1, <1>3, InnocentTransitive
  <1>5. "ended" \notin Polishing
    BY DEF Polishing
  <1> HIDE DEF choosing, notes
  <1> QED
    BY <1>2, <1>3, <1>4, <1>5, EnterSound, QuietlySound

LEMMA TranscriptProcessedSound ==
  ASSUME TypeOK, NEW s \in Sessions, SoundNow(s), TranscriptProcessed(s)
  PROVE  SoundNow(s)'
  <1> DEFINE a == ses[s]
             known == [a EXCEPT !.transcript = TRUE]
             offered == known.offered \cup {"transcript"}
             shown == [known EXCEPT !.offered = offered]
             polishing == [known EXCEPT !.events = "polishing", !.request = "live"]
             visible == [polishing EXCEPT !.offered = offered]
             ended == [known EXCEPT !.events = "ended"]
             over == [shown EXCEPT !.events = "ended"]
             entered == [visible EXCEPT !.phase = "polishing"]
             told == [over EXCEPT !.told = "transcript"]
             settled == [told EXCEPT !.timer = FALSE, !.outcome = "completed"]
             Like(b) == b.start = a.start /\ b.cancel = a.cancel /\ b.polished = a.polished
  <1> a \in ActiveSession
    BY DEF TypeOK
  <1>1. /\ Sound(a, isCurrent(s), state)
        /\ a.events = "processing"
    BY DEF TranscriptProcessed, SoundNow, isCurrent
  <1>2. \/ ~isCurrent(s) /\ (Quietly(s, polishing) \/ Quietly(s, ended))
        \/ /\ isCurrent(s) /\ state = "cancelling"
           /\ ses' = [ses EXCEPT ![s] = over] /\ UNCHANGED coord
        \/ /\ isCurrent(s) /\ state # "cancelling"
           /\ ses' = [ses EXCEPT ![s] = entered] /\ active' = s /\ state' = "polishing"
        \/ /\ isCurrent(s) /\ state # "cancelling"
           /\ ses' = [ses EXCEPT ![s] = settled] /\ active' = None
    BY DEF TranscriptProcessed, Enter, Transition, Complete, Settle, isCurrent
  <1>3. \A b \in {polishing, ended} : Like(b) /\ b.told = a.told /\ b.offered = a.offered
    BY DEF ActiveSession
  <1>4. \A b \in {over, entered} : Like(b) /\ b.told = a.told /\ b.offered = offered
    BY DEF ActiveSession
  <1>5. Like(settled) /\ settled.told = "transcript" /\ settled.offered = offered
    BY DEF ActiveSession
  <1>6. over.events = "ended" /\ "ended" \notin Polishing
    BY DEF ActiveSession, Polishing
  <1>7. a.offered \subseteq offered /\ "transcript" \in offered
    BY DEF ActiveSession
  <1>8. a.start # "none"
    BY <1>1 DEF Sound
  <1> HIDE DEF a, polishing, ended, over, entered, settled, offered
  <1>9. CASE ~isCurrent(s) /\ (Quietly(s, polishing) \/ Quietly(s, ended))
    <2>1. Sound(polishing, FALSE, state) /\ Sound(ended, FALSE, state)
      BY <1>1, <1>3, <1>8 DEF Sound
    <2>2. (active' = s) = FALSE /\ state' = state
      BY <1>9 DEF Quietly, coord, isCurrent
    <2> QED
      BY <1>9, <2>1, <2>2, RecordSound DEF Quietly
  <1>10. CASE /\ isCurrent(s) /\ state = "cancelling"
              /\ ses' = [ses EXCEPT ![s] = over] /\ UNCHANGED coord
    <2>1. Sound(over, active' = s, state')
      BY <1>1, <1>4, <1>6, <1>7, <1>8, <1>10 DEF Sound, coord
    <2> QED
      BY <1>10, <2>1, RecordSound
  <1>11. CASE /\ isCurrent(s) /\ state # "cancelling"
              /\ ses' = [ses EXCEPT ![s] = entered] /\ active' = s /\ state' = "polishing"
    <2>1. Sound(entered, active' = s, state')
      BY <1>1, <1>4, <1>7, <1>8, <1>11 DEF Sound
    <2> QED
      BY <1>11, <2>1, RecordSound
  <1>12. CASE /\ isCurrent(s) /\ state # "cancelling"
              /\ ses' = [ses EXCEPT ![s] = settled] /\ active' = None
    <2>1. Sound(settled, active' = s, state')
      BY <1>1, <1>5, <1>7, <1>8, <1>12, NoneIsNoSession DEF Sound
    <2> QED
      BY <1>12, <2>1, RecordSound
  <1> QED
    BY <1>2, <1>9, <1>10, <1>11, <1>12

LEMMA PolishValidatedSound ==
  ASSUME TypeOK, NEW s \in Sessions, SoundNow(s), PolishValidated(s)
  PROVE  SoundNow(s)'
  <1> DEFINE a == ses[s]
             valid == [a EXCEPT !.polished = TRUE]
             done == PolisherDone(valid)
             offering == [done EXCEPT !.offered = Choices]
             entered == [offering EXCEPT !.phase = "choosing"]
             Like(b) == b.start = a.start /\ b.cancel = a.cancel /\ b.told = a.told
  <1> a \in ActiveSession
    BY DEF TypeOK
  <1>1. /\ Sound(a, isCurrent(s), state)
        /\ a.events = "validating"
    BY DEF PolishValidated, SoundNow, isCurrent
  <1>2. a.start # "none" /\ "validating" \in Polishing /\ "ended" \notin Polishing
    BY <1>1 DEF Sound, Polishing
  <1>3. \/ /\ isCurrent(s) /\ state = "polishing"
           /\ ses' = [ses EXCEPT ![s] = entered] /\ active' = s /\ state' = "choosing"
        \/ /\ ~(isCurrent(s) /\ state = "polishing")
           /\ ses' = [ses EXCEPT ![s] = done] /\ active' = active /\ state' = state
    BY DEF PolishValidated, PolishWanted, Enter, Transition, Quietly, isCurrent, coord
  <1>4. valid \in ActiveSession /\ Like(valid) /\ valid.offered = a.offered
    BY DEF ActiveSession
  <1>5. done \in ActiveSession /\ done.events = "ended" /\ Innocent(valid, done)
    BY <1>2, <1>4, PolisherDoneInnocent, PolisherDoneCarries DEF Carries
  <1>6. Like(done) /\ done.offered = a.offered /\ done.events = "ended"
    <2>1. done.start = valid.start /\ done.cancel = valid.cancel /\ done.told = valid.told
      BY <1>4 DEF PolisherDone, ActiveSession
    <2> QED
      BY <1>4, <1>5, <2>1 DEF Innocent
  <1> HIDE DEF done
  <1>7. Like(entered) /\ entered.events = "ended" /\ entered.offered = Choices
    BY <1>5, <1>6 DEF ActiveSession
  <1>8. a.offered \subseteq Choices /\ "transcript" \in Choices /\ "polished" \in Choices
    BY DEF ActiveSession, Choices
  <1> HIDE DEF a, valid, entered
  <1>9. CASE /\ isCurrent(s) /\ state = "polishing"
             /\ ses' = [ses EXCEPT ![s] = entered] /\ active' = s /\ state' = "choosing"
    <2>1. Sound(entered, active' = s, state')
      BY <1>1, <1>2, <1>7, <1>8, <1>9 DEF Sound
    <2> QED
      BY <1>9, <2>1, RecordSound
  <1>10. CASE /\ ~(isCurrent(s) /\ state = "polishing")
              /\ ses' = [ses EXCEPT ![s] = done] /\ active' = active /\ state' = state
    \* its client cancelled it, or it is over
    <2>1. isCurrent(s) => state = "cancelling"
      BY <1>1, <1>2, <1>10 DEF Sound
    <2>2. Sound(done, active' = s, state')
      BY <1>1, <1>2, <1>6, <1>10, <2>1 DEF Sound, isCurrent
    <2> QED
      BY <1>10, <2>2, RecordSound
  <1> QED
    BY <1>3, <1>9, <1>10

LEMMA TextStepSound ==
  ASSUME TypeOK, NEW s \in Sessions, SoundNow(s), TextStep(s)
  PROVE  SoundNow(s)'
  <1> ses[s] \in ActiveSession
    BY DEF TypeOK
  <1>1. ses[s].start # "none"
    BY DEF TextStep, TranscriptProcessed, ProcessingFails, PolishDelta, PolishCompleted,
           PolishUnavailable, PolishThrows, PolishValidated, PolishedEmpty, SoundNow, Sound
  <1>2. Innocent(ses[s], ses[s])
    BY DEF Innocent
  <1>3. Innocent(ses[s], PolisherDone(ses[s]))
    BY <1>1, PolisherDoneInnocent
  <1>4. CASE ProcessingFails(s)
    <2> DEFINE ended == [ses[s] EXCEPT !.events = "ended"]
    <2>1. ended \in ActiveSession
      BY DEF ActiveSession
    <2>2. Innocent(ses[s], ended)
      BY <1>1 DEF Innocent, ActiveSession, Polishing
    <2> QED
      BY <1>4, <2>1, <2>2, FailSound DEF ProcessingFails
  <1>5. CASE PolishDelta(s)
    <2>1. Innocent(ses[s], [ses[s] EXCEPT !.delta = TRUE])
      BY DEF Innocent, ActiveSession
    <2>2. ASSUME ses' = [ses EXCEPT ![s].delta = TRUE], UNCHANGED coord
          PROVE  SoundNow(s)'
      <3>1. ses' = [ses EXCEPT ![s] = [ses[s] EXCEPT !.delta = TRUE]]
        BY <2>2
      <3> QED
        BY <2>1, <2>2, <3>1, InnocentSound
    <2> QED
      BY <1>3, <1>5, <2>2, QuietlySound DEF PolishDelta
  <1>6. CASE PolishCompleted(s)
    <2>1. Innocent(ses[s], [ses[s] EXCEPT !.events = "validating"])
      BY <1>1, <1>6 DEF PolishCompleted, Innocent, ActiveSession, Polishing
    <2>2. \/ Quietly(s, [ses[s] EXCEPT !.events = "validating"])
          \/ Quietly(s, PolisherDone(ses[s]))
      BY <1>6 DEF PolishCompleted
    <2> QED
      BY <1>3, <2>1, <2>2, QuietlySound
  <1>7. CASE PolishUnavailable(s) \/ PolishThrows(s)
    BY <1>1, <1>2, <1>3, <1>7, PolishFallbackSound, QuietlySound
    DEF PolishUnavailable, PolishThrows
  <1>8. CASE PolishedEmpty(s)
    <2> DEFINE empty == [ses[s] EXCEPT !.polished = FALSE]
    <2>1. empty \in ActiveSession
      BY DEF ActiveSession
    <2>2. Innocent(ses[s], empty)
      BY DEF ActiveSession, Innocent
    <2> QED
      BY <1>1, <1>8, <2>1, <2>2, PolishFallbackSound DEF PolishedEmpty
  <1> QED
    BY <1>4, <1>5, <1>6, <1>7, <1>8, TranscriptProcessedSound, PolishValidatedSound
    DEF TextStep

\* cancel() and #fail settle nothing but the active session, and commit no text.
LEMMA SettlersSound ==
  ASSUME TypeOK, NEW s \in Sessions, SoundNow(s), CancelSettles(s) \/ FailSettles(s)
  PROVE  SoundNow(s)'
  <1> ses[s] \in ActiveSession
    BY DEF TypeOK
  <1> DEFINE cancelled == [ses[s] EXCEPT !.cancel = "done"]
             reported == [ses[s] EXCEPT !.fail = "done"]
             failed == [reported EXCEPT !.told = "error"]
             Over(a, outcome) == [a EXCEPT !.timer = FALSE, !.outcome = outcome]
  <1>1. \/ /\ CancelSettles(s)
           /\ Quietly(s, cancelled)
              \/ (ses' = [ses EXCEPT ![s] = Over(cancelled, "cancelled")] /\ active' = None)
        \/ /\ FailSettles(s)
           /\ Quietly(s, reported)
              \/ (ses' = [ses EXCEPT ![s] = Over(failed, "failed")] /\ active' = None)
    BY DEF CancelSettles, FailSettles, Settle
  <1>2. ASSUME CancelSettles(s)
        PROVE  Innocent(ses[s], cancelled) /\ Innocent(ses[s], Over(cancelled, "cancelled"))
    BY <1>2 DEF CancelSettles, Innocent, ActiveSession
  <1>3. Innocent(ses[s], reported) /\ Innocent(ses[s], Over(failed, "failed"))
    BY DEF Innocent, ActiveSession, Choices
  <1> HIDE DEF cancelled, reported, failed, Over
  <1> QED
    BY <1>1, <1>2, <1>3, QuietlySound, InnocentSound

LEMMA ClientStepSound ==
  ASSUME Inv, NEW s \in Sessions, SoundNow(s), ClientStep(s)
  PROVE  SoundNow(s)'
  <1> TypeOK /\ ses[s] \in ActiveSession
    BY DEF Inv, TypeOK
  <1>1. CASE Start(s)
    <2>1. PICK policy \in Policies :
            LET marker == Marker(policy, "auto") IN
            ses' = [ses EXCEPT ![s].start = "creating", ![s].phase = "preparing",
                               ![s].policy = policy, ![s].marker = marker]
      BY <1>1 DEF Start
    <2> DEFINE marker == Marker(policy, "auto")
               b == [ses[s] EXCEPT !.start = "creating", !.phase = "preparing",
                                   !.policy = policy, !.marker = marker]
    <2>2. ses' = [ses EXCEPT ![s] = b]
      BY <2>1 DEF TypeOK
    <2>3. ses[s].told \notin Choices
      BY <1>1 DEF Start, Inv, Untouched, Untold, Choices
    <2> HIDE DEF marker
    <2>4. /\ b.start = "creating" /\ b.told = ses[s].told /\ b.events = ses[s].events
          /\ b.cancel = ses[s].cancel /\ b.transcript = ses[s].transcript
          /\ b.polished = ses[s].polished
      BY DEF ActiveSession
    <2> HIDE DEF b
    <2>5. Sound(b, active' = s, state')
      BY <1>1, <2>3, <2>4 DEF Start, SoundNow, Sound, Polishing
    <2> QED
      BY <2>2, <2>5, RecordSound
  <1>2. CASE \E enabled \in Toggles : SetPolishingEnabled(s, enabled)
    <2>1. PICK mode, marker : ses' = [ses EXCEPT ![s].mode = mode, ![s].marker = marker]
      BY <1>2 DEF SetPolishingEnabled
    <2>2. ses' = [ses EXCEPT ![s] = [ses[s] EXCEPT !.mode = mode, !.marker = marker]]
      BY <2>1 DEF TypeOK
    <2>3. Innocent(ses[s], [ses[s] EXCEPT !.mode = mode, !.marker = marker])
      BY DEF Innocent, ActiveSession
    <2> QED
      BY <1>2, <2>2, <2>3, InnocentSound DEF SetPolishingEnabled
  <1>3. CASE Finish(s)
    <2> DEFINE b == [ses[s] EXCEPT !.finish = "stopping", !.timer = FALSE]
    <2>1. Innocent(ses[s], [ses[s] EXCEPT !.finish = "rejected"])
      BY DEF Innocent, ActiveSession
    <2>2. Innocent(ses[s], b) /\ b.events = ses[s].events
      BY DEF Innocent, ActiveSession
    <2>3. ASSUME state = "recording", Transition("finishing"),
                 ses' = [ses EXCEPT ![s].finish = "stopping", ![s].timer = FALSE]
          PROVE  SoundNow(s)'
      <3>1. ses' = [ses EXCEPT ![s] = b]
        BY <2>3 DEF TypeOK
      <3>2. active = s => ses[s].events \notin Polishing
        BY <2>3 DEF SoundNow, Sound
      <3> HIDE DEF b
      <3> QED
        BY <2>2, <2>3, <3>1, <3>2, InnocentSound DEF Transition
    <2> QED
      BY <1>3, <2>1, <2>3, QuietlySound DEF Finish
  <1>4. CASE Cancel(s)
    <2> DEFINE a == Interrupt(ses[s])
               b == [a EXCEPT !.cancel = "waiting"]
    <2>1. a \in ActiveSession /\ a.start = ses[s].start /\ a.told = ses[s].told
      <3>1. a \in ActiveSession
        BY InterruptCarries DEF Carries
      <3> QED
        BY <3>1 DEF Interrupt, ActiveSession
    <2>2. ses' = [ses EXCEPT ![s] = b]
      BY <1>4 DEF Cancel, TypeOK
    <2>3. ses[s].start # "none" /\ ses[s].told \notin Choices
      BY <1>4 DEF Cancel, isCurrent, Inv, GateFollowsSession, Untold, Choices
    <2> HIDE DEF a
    <2>4. b.start = a.start /\ b.told = a.told
      BY <2>1 DEF ActiveSession
    <2> HIDE DEF b
    <2>5. Sound(b, active' = s, state')
      BY <1>4, <2>1, <2>3, <2>4 DEF Cancel, Transition, Sound
    <2> QED
      BY <2>2, <2>5, RecordSound
  <1>5. CASE \E choice \in Choices : SelectResult(s, choice)
    <2>1. PICK choice \in Choices : SelectResult(s, choice)
      BY <1>5
    <2> DEFINE request == IF ses[s].request = "live" THEN "aborted" ELSE ses[s].request
               a == [ses[s] EXCEPT !.request = request, !.told = choice]
               b == [a EXCEPT !.timer = FALSE, !.outcome = "completed"]
    <2>2. ses' = [ses EXCEPT ![s] = b] /\ active' = None
      BY <2>1 DEF SelectResult, Complete, Settle
    <2>3. /\ isCurrent(s) /\ state # "cancelling"
          /\ \/ choice = "polished" /\ ses[s].polished
             \/ choice = "transcript" /\ ses[s].transcript
      <3>1. isCurrent(s) /\ state \in {"polishing", "choosing"}
        BY <2>1 DEF SelectResult
      <3>2. state # "cancelling"
        BY <3>1
      <3>3. IF choice = "polished" THEN ses[s].polished ELSE ses[s].transcript
        BY <2>1, Zenon DEF SelectResult
      <3>4. CASE choice = "polished"
        <4>1. ses[s].polished
          BY <3>3, <3>4, Zenon
        <4> QED
          BY <3>1, <3>2, <3>4, <4>1, Zenon
      <3>5. CASE choice = "transcript"
        <4>1. choice # "polished"
          BY <3>5
        <4>2. ses[s].transcript
          BY <3>3, <4>1, Zenon
        <4> QED
          BY <3>1, <3>2, <3>5, <4>2, Zenon
      <3> QED
        BY <3>4, <3>5, Zenon DEF Choices
    <2>4. /\ ses[s].cancel = "none" /\ choice \in ses[s].offered
          /\ ses[s].start # "none"
      BY <2>3 DEF SoundNow, Sound, isCurrent, Inv, GateFollowsSession
    <2> HIDE DEF request
    <2>5. /\ b.start = ses[s].start /\ b.cancel = ses[s].cancel
          /\ b.offered = ses[s].offered /\ b.told = choice
      BY DEF ActiveSession
    <2> HIDE DEF b
    <2>6. Sound(b, active' = s, state')
      BY <2>2, <2>4, <2>5, NoneIsNoSession DEF Sound
    <2> QED
      BY <2>2, <2>6, RecordSound
  <1> QED
    BY <1>1, <1>2, <1>3, <1>4, <1>5 DEF ClientStep

-------------------------------------------------------------------------------
(***************************************************************************)
(* The invariant, and what a client can rely on.                           *)
(***************************************************************************)
LEMMA CommitInit == Init => CommitInv
  <1>1. ASSUME Init, NEW s \in Sessions
        PROVE  SoundNow(s)
    BY <1>1, NoneIsNoSession DEF Init, NewSession, SoundNow, Sound, Choices
  <1> QED
    BY <1>1 DEF CommitInv

LEMMA CommitStep ==
  ASSUME Inv, CommitInv, [Next]_vars
  PROVE  CommitInv'
  <1>1. ASSUME NEW s \in Sessions, SessionStep(s)
        PROVE  CommitInv'
    <2>1. TypeOK /\ SoundNow(s)
      BY DEF Inv, CommitInv
    <2>2. SoundNow(s)'
      BY <1>1, <2>1, ClientStepSound, StartStepSound, FinishStepSound, AudioStepSound,
         AsrStepSound, TextStepSound, SettlersSound DEF SessionStep
    <2>3. Begins(s) \/ Works(s) \/ Settles(s)
      BY <1>1, <2>1, StepShapes
    <2> QED
      BY <2>2, <2>3, OtherSessionsSound DEF CommitInv
  <1>2. CASE OtherAcquires \/ OtherReleases \/ UNCHANGED vars
    BY <1>2 DEF OtherAcquires, OtherReleases, vars, coord, CommitInv, SoundNow
  <1> QED
    BY <1>1, <1>2 DEF Next

LEMMA CommitInvariance == Spec => []CommitInv
  <1> QED
    BY Invariance, CommitInit, CommitStep, PTL DEF Spec

\* The text a session commits was announced to the client as a final result before,
\* by whichever of the recogniser, the polisher and the client it was committed.
THEOREM OfferCorrect == Spec => []CommittedResultWasOffered
  <1>1. CommitInv => CommittedResultWasOffered
    BY DEF CommitInv, SoundNow, Sound, CommittedResultWasOffered
  <1> QED
    BY <1>1, CommitInvariance, PTL

\* Once cancel() was accepted the session commits nothing, whatever still arrives.
THEOREM CancelCorrect == Spec => []CancelledNeverCommits
  <1>1. CommitInv => CancelledNeverCommits
    BY DEF CommitInv, SoundNow, Sound, CancelledNeverCommits
  <1> QED
    BY <1>1, CommitInvariance, PTL

===============================================================================
