------------------------- MODULE SessionResourceProofs -------------------------
(***************************************************************************)
(* What SessionCoordinator opens, lets go of and announces: nothing is     *)
(* left running for a settled session, start() succeeds and "recording" is *)
(* announced only for a session that records, a polish request keeps what  *)
(* the marker promised, and no step leaves the table of transitions.       *)
(*                                                                         *)
(* All five rest on one account (Whole) of where the operations of a       *)
(* session stand, what they hold, and which state that goes with.          *)
(***************************************************************************)
EXTENDS SessionCoordinatorProofs

Done == {"undoing", "failing", "returned", "threw"}
Working == {"processing", "polishing", "validating"}

\* What start() has opened at each of its suspension points, and that it lets go of
\* it again once the session was interrupted.
Held(a) ==
  /\ a.start \in {"none", "creating"} => a.asr = "none" /\ a.capture = "none"
  /\ a.start = "asrStarting" => a.asr \in {"created", "closed"} /\ a.capture = "none"
  /\ a.start = "capStarting" => a.asr \in {"open", "closed"} /\ a.capture \in {"starting", "closed"}
  /\ a.start \in Done => a.asr # "created" /\ a.capture # "starting"
  /\ a.start = "capStarting" /\ a.aborted => a.asr = "closed"
  /\ a.start \in Done /\ a.aborted => a.asr # "open" /\ a.capture # "open"
  /\ a.start \in Done \ {"returned"} => a.aborted
  /\ a.start = "none" => ~a.aborted /\ a.mode = "auto" /\ a.request = "none"

\* A session is interrupted by its failure and by its cancellation, and by nothing
\* else; it does not end as cancelled or failed without them.
Interrupted(a, live, st) ==
  /\ a.aborted <=> (a.fail # "none" \/ a.cancel # "none")
  /\ a.outcome = "cancelled" => a.cancel # "none"
  /\ a.outcome = "failed" => a.fail # "none"
  /\ live /\ st = "cancelling" => a.cancel # "none"
  /\ live /\ a.cancel # "none" => st = "cancelling"

\* What the state of the coordinator says of its session.
Placed(a, live, st) ==
  live =>
    /\ a.start # "none"
    /\ st \notin {"starting", "cancelling"} => a.start = "returned"
    /\ st = "starting" /\ a.start = "capStarting" /\ a.fail = "none" => a.asr = "open"
    /\ st \in {"recognizing", "processing", "polishing", "choosing"} => a.capture # "open"
    /\ a.events = "processing" => st \in {"processing", "cancelling"}
    /\ a.events \in Polishing => st \in {"polishing", "cancelling"}
    /\ a.request # "none" => st \in {"polishing", "choosing", "cancelling"}

\* Only a session that recorded is finished, recognised and completed, and by then
\* its microphone was stopped and its recogniser is closed.
Recorded(a) ==
  /\ a.start = "returned" => a.phase \notin {"none", "preparing"} \/ a.outcome = "cancelled"
  /\ a.finish \notin {"none", "rejected"} => a.start = "returned"
  /\ a.finish \in {"draining", "asrFinishing", "resolved"} => a.capture # "open"
  /\ a.events = "reading" => a.asr \in {"open", "closed"}
  /\ a.events \in Working \/ a.transcript \/ a.polished => a.start = "returned" /\ a.asr = "closed"
  /\ a.outcome = "completed" => a.start = "returned" /\ a.asr = "closed" /\ a.capture # "open"

\* The marker shown to the client is what is going to be done.
Promised(a) ==
  /\ a.marker = Marker(a.policy, a.mode)
  /\ a.request # "none" => a.marker

Whole(a, live, st) ==
  Held(a) /\ Interrupted(a, live, st) /\ Placed(a, live, st) /\ Recorded(a) /\ Promised(a)

WholeNow(s) == Whole(ses[s], active = s, state)

ResourceInv == \A s \in Sessions : WholeNow(s)

\* From record a to record b nothing changes that the account depends on, or only so
\* that it keeps being true: an operation ends, or goes on from one wait to the next.
Loose(a, b) ==
  /\ b.start = a.start /\ b.capture = a.capture /\ b.aborted = a.aborted
  /\ b.asr = a.asr \/ (b.asr = "closed" /\ a.events = "reading")
  /\ b.fail = "none" <=> a.fail = "none"
  /\ b.cancel = "none" <=> a.cancel = "none"
  /\ b.outcome = a.outcome /\ b.transcript = a.transcript /\ b.phase = a.phase
  /\ b.policy = a.policy /\ b.mode = a.mode /\ b.marker = a.marker
  /\ b.polished => a.polished
  /\ b.request # "none" => a.request # "none"
  /\ b.events \in {"reading", "processing"} => b.events = a.events
  /\ b.events \in Polishing => a.events \in Polishing
  /\ b.finish \notin {"none", "rejected"} => a.finish \notin {"none", "rejected"}
  /\ b.finish \in {"draining", "asrFinishing", "resolved"} =>
       a.finish \in {"draining", "asrFinishing", "resolved"}

\* What abort() and the two cancel() calls leave alone.
Kept(a, b) ==
  /\ b.outcome = a.outcome /\ b.transcript = a.transcript /\ b.phase = a.phase
  /\ b.polished = a.polished /\ b.events = a.events /\ b.finish = a.finish
  /\ b.policy = a.policy /\ b.mode = a.mode /\ b.marker = a.marker

Tame(a, b) == Loose(a, b) /\ b.asr = a.asr

-------------------------------------------------------------------------------
(***************************************************************************)
(* The helpers of the coordinator.                                         *)
(***************************************************************************)
\* A step whose record is not tame is judged by what it leaves.
LEMMA RecordWhole ==
  ASSUME TypeOK, NEW s \in Sessions, NEW b, ses' = [ses EXCEPT ![s] = b],
         Whole(b, active' = s, state')
  PROVE  WholeNow(s)'
  BY DEF TypeOK, WholeNow

LEMMA TameWhole ==
  ASSUME NEW a, NEW b, NEW live, NEW st, Whole(a, live, st), Tame(a, b)
  PROVE  Whole(b, live, st)
  <1>1. Held(b)
    BY DEF Whole, Held, Tame, Loose
  <1>2. Interrupted(b, live, st)
    BY DEF Whole, Interrupted, Tame, Loose
  <1>3. Placed(b, live, st)
    BY DEF Whole, Placed, Tame, Loose
  <1>4. Recorded(b)
    BY DEF Whole, Recorded, Tame, Loose, Working, Polishing
  <1>5. Promised(b)
    BY DEF Whole, Promised, Tame, Loose
  <1> QED
    BY <1>1, <1>2, <1>3, <1>4, <1>5 DEF Whole

LEMMA QuietlyWhole ==
  ASSUME TypeOK, NEW s \in Sessions, WholeNow(s), NEW b, Tame(ses[s], b), Quietly(s, b)
  PROVE  WholeNow(s)'
  <1>1. Whole(b, active = s, state)
    BY TameWhole DEF WholeNow
  <1> QED
    BY <1>1, RecordWhole DEF Quietly, coord

\* Whatever the record of an interrupted session was, its backends are closed.
LEMMA InterruptFields ==
  ASSUME NEW a \in ActiveSession
  PROVE  LET b == Interrupt(a) IN
         /\ b \in ActiveSession
         /\ b.start = a.start /\ b.fail = a.fail /\ b.cancel = a.cancel
         /\ Kept(a, b)
         /\ b.aborted = TRUE
         /\ b.request = "none" <=> a.request = "none"
         /\ b.asr = IF a.asr = "none" THEN "none" ELSE "closed"
         /\ b.capture = IF a.capture = "none" THEN "none" ELSE "closed"
  <1> DEFINE request == IF a.request = "live" THEN "aborted" ELSE a.request
             capture == IF a.capture = "none" THEN "none" ELSE "closed"
             asr     == IF a.asr = "none" THEN "none" ELSE "closed"
  <1>1. Interrupt(a) = [a EXCEPT !.aborted = TRUE, !.request = request,
                                 !.capture = capture, !.asr = asr]
    BY DEF Interrupt
  <1>2. Interrupt(a) \in ActiveSession
    BY InterruptCarries DEF Carries
  <1>3. request = "none" <=> a.request = "none"
    OBVIOUS
  <1> HIDE DEF request, capture, asr
  <1> DEFINE b == [a EXCEPT !.aborted = TRUE, !.request = request,
                            !.capture = capture, !.asr = asr]
  <1>4. /\ b.start = a.start /\ b.fail = a.fail /\ b.cancel = a.cancel
        /\ Kept(a, b)
        /\ b.aborted = TRUE /\ b.request = request /\ b.asr = asr /\ b.capture = capture
    BY DEF ActiveSession, Kept
  <1> HIDE DEF b
  <1> QED
    BY <1>1, <1>2, <1>3, <1>4 DEF b, asr, capture

\* The record that a call of #fail leaves, before it awaits the backends.
LEMMA FailingFields ==
  ASSUME NEW a \in ActiveSession
  PROVE  LET b == [Interrupt(a) EXCEPT !.fail = "waiting"] IN
         /\ b \in ActiveSession
         /\ b.start = a.start /\ b.fail = "waiting" /\ b.cancel = a.cancel
         /\ Kept(a, b)
         /\ b.aborted = TRUE
         /\ b.request = "none" <=> a.request = "none"
         /\ b.asr = IF a.asr = "none" THEN "none" ELSE "closed"
         /\ b.capture = IF a.capture = "none" THEN "none" ELSE "closed"
  <1> DEFINE c == Interrupt(a)
             b == [c EXCEPT !.fail = "waiting"]
  <1>1. /\ c \in ActiveSession
        /\ c.start = a.start /\ c.fail = a.fail /\ c.cancel = a.cancel
        /\ Kept(a, c)
        /\ c.aborted = TRUE
        /\ c.request = "none" <=> a.request = "none"
        /\ c.asr = IF a.asr = "none" THEN "none" ELSE "closed"
        /\ c.capture = IF a.capture = "none" THEN "none" ELSE "closed"
    BY InterruptFields
  <1> HIDE DEF c
  <1>2. b \in ActiveSession
    BY <1>1 DEF ActiveSession
  <1>3. /\ b.start = c.start /\ b.fail = "waiting" /\ b.cancel = c.cancel
        /\ Kept(c, b)
        /\ b.aborted = c.aborted /\ b.request = c.request /\ b.asr = c.asr
        /\ b.capture = c.capture
    BY <1>1 DEF ActiveSession, Kept
  <1> HIDE DEF b
  <1>4. /\ b.start = a.start /\ b.fail = "waiting" /\ b.cancel = a.cancel
        /\ Kept(a, b)
        /\ b.aborted = TRUE
        /\ b.request = "none" <=> a.request = "none"
        /\ b.asr = IF a.asr = "none" THEN "none" ELSE "closed"
        /\ b.capture = IF a.capture = "none" THEN "none" ELSE "closed"
    BY <1>1, <1>3 DEF Kept
  <1> QED
    BY <1>2, <1>4 DEF b, c

LEMMA FailWhole ==
  ASSUME TypeOK, NEW s \in Sessions, WholeNow(s), NEW began \in ActiveSession, NEW skipped,
         Loose(ses[s], began), Loose(ses[s], skipped), Fail(s, began, skipped)
  PROVE  WholeNow(s)'
  <1> DEFINE a == ses[s]
             b == [Interrupt(began) EXCEPT !.fail = "waiting"]
             live == active = s
  <1>1. Whole(a, live, state) /\ Loose(a, began) /\ Loose(a, skipped)
    BY DEF WholeNow
  <1>2. CASE CanFail(s)
    <2>1. /\ b.start = began.start /\ b.fail = "waiting" /\ b.cancel = began.cancel
          /\ Kept(began, b)
          /\ b.aborted = TRUE
          /\ b.request = "none" <=> began.request = "none"
          /\ b.asr = IF began.asr = "none" THEN "none" ELSE "closed"
          /\ b.capture = IF began.capture = "none" THEN "none" ELSE "closed"
      BY FailingFields
    <2>2. live /\ state # "cancelling" /\ Quietly(s, b)
      BY <1>2 DEF CanFail, Fail, isCurrent
    <2>3. began.start # "none"
      BY <1>1, <1>2, <2>2 DEF Loose, Whole, Placed
    <2> HIDE DEF a, b, live
    <2>4. Held(b)
      BY <1>1, <2>1, <2>3 DEF Kept, Whole, Held, Recorded, Loose
    <2>5. Interrupted(b, live, state)
      BY <1>1, <2>1, <2>2 DEF Kept, Whole, Interrupted, Loose
    <2>6. Placed(b, live, state)
      BY <1>1, <2>1 DEF Kept, Whole, Placed, Recorded, Loose
    <2>7. Recorded(b)
      BY <1>1, <2>1 DEF Kept, Whole, Recorded, Loose, Working, Polishing
    <2>8. Promised(b)
      BY <1>1, <2>1 DEF Kept, Whole, Promised, Loose
    <2> QED
      BY <2>2, <2>4, <2>5, <2>6, <2>7, <2>8, RecordWhole DEF Whole, Quietly, coord, live
  <1>3. CASE ~CanFail(s)
    <2>1. Quietly(s, skipped)
      BY <1>3 DEF Fail
    <2>2. live => a.fail # "none" \/ state = "cancelling"
      BY <1>3 DEF CanFail, isCurrent
    <2> HIDE DEF a, live
    <2>3. Held(skipped)
      BY <1>1 DEF Whole, Held, Recorded, Loose
    <2>4. Interrupted(skipped, live, state)
      BY <1>1 DEF Whole, Interrupted, Loose
    <2>5. Placed(skipped, live, state)
      BY <1>1, <2>2 DEF Whole, Placed, Loose
    <2>6. Recorded(skipped)
      BY <1>1 DEF Whole, Recorded, Loose, Working, Polishing
    <2>7. Promised(skipped)
      BY <1>1 DEF Whole, Promised, Loose
    <2> QED
      BY <2>1, <2>3, <2>4, <2>5, <2>6, <2>7, RecordWhole DEF Whole, Quietly, coord, live
  <1> QED
    BY <1>2, <1>3

-------------------------------------------------------------------------------
(***************************************************************************)
(* The actions, by the record they leave.                                  *)
(***************************************************************************)
\* A session that started and is over although it did not complete was interrupted.
LEMMA StaleInterrupted ==
  ASSUME Inv, NEW s \in Sessions, WholeNow(s), ses[s].start \notin {"none", "returned"},
         ~CanFail(s)
  PROVE  ses[s].aborted
  <1> DEFINE a == ses[s]
             live == active = s
  <1>1. Whole(a, live, state)
    BY DEF WholeNow
  <1>2. live \/ a.outcome \in Outcomes
    BY DEF Inv, TypeOK, GateFollowsSession, isSettled, ActiveSession
  <1>3. live => a.fail # "none" \/ state = "cancelling"
    BY DEF CanFail, isCurrent
  <1> HIDE DEF a, live
  <1>4. a.aborted
    BY <1>1, <1>2, <1>3 DEF Whole, Interrupted, Recorded, Outcomes, a
  <1> QED
    BY <1>4 DEF a

\* start() could not open a backend: it fails the session, or that is interrupted.
LEMMA StartFailsWhole ==
  ASSUME Inv, NEW s \in Sessions, WholeNow(s), NEW a \in ActiveSession,
         ses[s].start \in {"creating", "asrStarting", "capStarting"},
         Kept(ses[s], a), a.start = ses[s].start, a.request = ses[s].request,
         a.aborted = ses[s].aborted, a.fail = ses[s].fail, a.cancel = ses[s].cancel,
         a.asr = ses[s].asr \/ (a.asr = "closed" /\ ses[s].asr # "none"),
         a.asr # "created", a.capture \in {"none", "closed"},
         Fail(s, [a EXCEPT !.start = "failing"], [a EXCEPT !.start = "threw"])
  PROVE  WholeNow(s)'
  <1> DEFINE old == ses[s]
             b == [a EXCEPT !.start = "failing"]
             c == [a EXCEPT !.start = "threw"]
             d == [Interrupt(b) EXCEPT !.fail = "waiting"]
             live == active = s
             Like(x) == /\ Kept(a, x) /\ x.request = a.request /\ x.aborted = a.aborted
                        /\ x.fail = a.fail /\ x.cancel = a.cancel
                        /\ x.asr = a.asr /\ x.capture = a.capture
  <1>1. Whole(old, live, state)
    BY DEF WholeNow
  <1>2. b \in ActiveSession
    BY DEF ActiveSession
  <1>3. Like(b) /\ b.start = "failing" /\ Like(c) /\ c.start = "threw"
    BY DEF ActiveSession, Kept
  <1>4. live => state \in {"starting", "cancelling"}
    BY <1>1 DEF Whole, Placed
  <1>5. CASE CanFail(s)
    <2>1. /\ d.start = b.start /\ d.fail = "waiting" /\ d.cancel = b.cancel
          /\ Kept(b, d) /\ d.aborted = TRUE
          /\ d.request = "none" <=> b.request = "none"
          /\ d.asr = IF b.asr = "none" THEN "none" ELSE "closed"
          /\ d.capture = IF b.capture = "none" THEN "none" ELSE "closed"
      BY <1>2, FailingFields
    <2>2. live /\ state = "starting" /\ Quietly(s, d)
      BY <1>4, <1>5 DEF CanFail, Fail, isCurrent
    <2> HIDE DEF old, b, c, d, live
    <2>3. Whole(d, live, state)
      <3>1. Held(d)
        BY <1>1, <1>3, <2>1 DEF Kept, Held, Whole
      <3>2. Interrupted(d, live, state)
        BY <1>1, <1>3, <2>1, <2>2 DEF Kept, Interrupted, Whole, old
      <3>3. Placed(d, live, state)
        BY <1>1, <1>3, <2>1, <2>2 DEF Kept, Placed, Whole, old
      <3>4. Recorded(d)
        BY <1>1, <1>3, <2>1 DEF Kept, Recorded, Whole, Working, old
      <3>5. Promised(d)
        BY <1>1, <1>3, <2>1 DEF Kept, Promised, Whole, old
      <3> QED
        BY <3>1, <3>2, <3>3, <3>4, <3>5 DEF Whole
    <2> QED
      BY <2>2, <2>3, RecordWhole DEF Quietly, coord, live, Inv
  <1>6. CASE ~CanFail(s)
    <2>1. old.aborted
      BY <1>6, StaleInterrupted
    <2>2. Quietly(s, c)
      BY <1>6 DEF Fail
    <2> HIDE DEF old, b, c, d, live
    <2>3. Whole(c, live, state)
      <3>1. Held(c)
        BY <1>1, <1>3, <2>1 DEF Kept, Held, Whole, old
      <3>2. Interrupted(c, live, state)
        BY <1>1, <1>3 DEF Kept, Interrupted, Whole, old
      <3>3. Placed(c, live, state)
        BY <1>1, <1>3, <1>4 DEF Kept, Placed, Whole, old
      <3>4. Recorded(c)
        BY <1>1, <1>3 DEF Kept, Recorded, Whole, Working, old
      <3>5. Promised(c)
        BY <1>1, <1>3 DEF Kept, Promised, Whole, old
      <3> QED
        BY <3>1, <3>2, <3>3, <3>4, <3>5 DEF Whole
    <2> QED
      BY <2>2, <2>3, RecordWhole DEF Quietly, coord, live, Inv
  <1> QED
    BY <1>5, <1>6

LEMMA StartStepWhole ==
  ASSUME Inv, NEW s \in Sessions, WholeNow(s), StartStep(s)
  PROVE  WholeNow(s)'
  <1> DEFINE a == ses[s]
             live == active = s
  <1> TypeOK /\ a \in ActiveSession
    BY DEF Inv, TypeOK
  <1>1. Whole(a, live, state)
    BY DEF WholeNow
  <1>2. ~live /\ a.start # "none" => a.outcome \in Outcomes
    BY DEF Inv, TypeOK, GateFollowsSession, isSettled, ActiveSession
  <1>3. CASE AsrCreated(s)
    <2> DEFINE b == [a EXCEPT !.start = "asrStarting", !.asr = "created"]
    <2>1. a.start = "creating" /\ Quietly(s, b)
      BY <1>3 DEF AsrCreated
    <2>2. /\ Kept(a, b) /\ b.start = "asrStarting" /\ b.asr = "created"
          /\ b.capture = a.capture /\ b.aborted = a.aborted /\ b.fail = a.fail
          /\ b.cancel = a.cancel /\ b.request = a.request
      BY DEF ActiveSession, Kept
    <2> HIDE DEF a, b, live
    <2>3. Whole(b, live, state)
      <3>1. Held(b)
        BY <1>1, <2>1, <2>2 DEF Kept, Held, Whole, Done
      <3>2. Interrupted(b, live, state)
        BY <1>1, <2>2 DEF Kept, Interrupted, Whole
      <3>3. Placed(b, live, state)
        BY <1>1, <2>1, <2>2 DEF Kept, Placed, Whole
      <3>4. Recorded(b)
        BY <1>1, <2>1, <2>2 DEF Kept, Recorded, Held, Whole
      <3>5. Promised(b)
        BY <1>1, <2>2 DEF Kept, Promised, Whole
      <3> QED
        BY <3>1, <3>2, <3>3, <3>4, <3>5 DEF Whole
    <2> QED
      BY <2>1, <2>3, RecordWhole DEF Quietly, coord, live
  <1>4. CASE AsrStarted(s)
    <2> DEFINE asr == IF a.aborted THEN "closed" ELSE "open"
               b == [a EXCEPT !.start = "capStarting", !.asr = asr, !.events = "reading",
                              !.capture = "starting"]
    <2>1. a.start = "asrStarting" /\ Quietly(s, b)
      BY <1>4 DEF AsrStarted
    <2>2. asr \in {"open", "closed"} /\ (a.aborted => asr = "closed") /\ (~a.aborted => asr = "open")
      OBVIOUS
    <2> HIDE DEF asr
    <2>3. /\ b.start = "capStarting" /\ b.asr = asr /\ b.events = "reading"
          /\ b.capture = "starting" /\ b.aborted = a.aborted /\ b.fail = a.fail
          /\ b.cancel = a.cancel /\ b.request = a.request /\ b.outcome = a.outcome
          /\ b.transcript = a.transcript /\ b.polished = a.polished /\ b.phase = a.phase
          /\ b.finish = a.finish /\ b.policy = a.policy /\ b.mode = a.mode
          /\ b.marker = a.marker
      BY DEF ActiveSession
    <2> HIDE DEF a, b, live
    <2>4. Whole(b, live, state)
      <3>1. Held(b)
        BY <1>1, <2>1, <2>2, <2>3 DEF Held, Whole, Done
      <3>2. Interrupted(b, live, state)
        BY <1>1, <2>3 DEF Interrupted, Whole
      <3>3. Placed(b, live, state)
        BY <1>1, <2>1, <2>2, <2>3 DEF Placed, Interrupted, Whole, Polishing
      <3>4. Recorded(b)
        BY <1>1, <2>1, <2>2, <2>3 DEF Recorded, Whole, Working
      <3>5. Promised(b)
        BY <1>1, <2>3 DEF Promised, Whole
      <3> QED
        BY <3>1, <3>2, <3>3, <3>4, <3>5 DEF Whole
    <2> QED
      BY <2>1, <2>4, RecordWhole DEF Quietly, coord, live
  <1>5. CASE StartAsrFails(s)
    <2> DEFINE asr == IF a.asr = "none" THEN "none" ELSE "closed"
               b == [a EXCEPT !.asr = asr]
    <2>1. /\ a.start \in {"creating", "asrStarting"}
          /\ Fail(s, [b EXCEPT !.start = "failing"], [b EXCEPT !.start = "threw"])
      BY <1>5 DEF StartAsrFails
    <2>2. asr \in AsrStates \ {"created"} /\ (asr = a.asr \/ (asr = "closed" /\ a.asr # "none"))
      BY DEF AsrStates
    <2> HIDE DEF asr
    <2>3. b \in ActiveSession
      BY <2>2 DEF ActiveSession
    <2>4. /\ Kept(a, b) /\ b.start = a.start /\ b.request = a.request
          /\ b.aborted = a.aborted /\ b.fail = a.fail /\ b.cancel = a.cancel
          /\ b.asr = asr /\ b.capture = a.capture
      BY DEF ActiveSession, Kept
    <2>5. a.capture = "none"
      BY <1>1, <2>1 DEF Whole, Held
    <2> HIDE DEF b
    <2> QED
      BY <2>1, <2>2, <2>3, <2>4, <2>5, StartFailsWhole
  <1>6. CASE CaptureStartFails(s)
    <2> DEFINE b == [a EXCEPT !.capture = "closed"]
    <2>1. /\ a.start = "capStarting"
          /\ Fail(s, [b EXCEPT !.start = "failing"], [b EXCEPT !.start = "threw"])
      BY <1>6 DEF CaptureStartFails
    <2>2. b \in ActiveSession
      BY DEF ActiveSession, CaptureStates
    <2>3. /\ Kept(a, b) /\ b.start = a.start /\ b.request = a.request
          /\ b.aborted = a.aborted /\ b.fail = a.fail /\ b.cancel = a.cancel
          /\ b.asr = a.asr /\ b.capture = "closed"
      BY DEF ActiveSession, Kept
    <2>4. a.asr # "created"
      BY <1>1, <2>1 DEF Whole, Held
    <2> HIDE DEF b
    <2> QED
      BY <2>1, <2>2, <2>3, <2>4, StartFailsWhole
  <1>7. CASE CaptureStarted(s)
    <2> DEFINE capture == IF a.aborted THEN "closed" ELSE "open"
               opened == [a EXCEPT !.capture = capture]
               recording == [opened EXCEPT !.start = "returned", !.timer = TRUE,
                                           !.pump = "reading"]
               entered == [recording EXCEPT !.phase = "recording"]
               undoing == [opened EXCEPT !.start = "undoing", !.capture = "closed"]
               threw == [opened EXCEPT !.start = "threw"]
               Like(x) == /\ x.asr = a.asr /\ x.aborted = a.aborted /\ x.fail = a.fail
                          /\ x.cancel = a.cancel /\ x.request = a.request
                          /\ x.outcome = a.outcome /\ x.transcript = a.transcript
                          /\ x.polished = a.polished /\ x.events = a.events
                          /\ x.finish = a.finish /\ x.policy = a.policy
                          /\ x.mode = a.mode /\ x.marker = a.marker
    <2>1. a.start = "capStarting"
      BY <1>7 DEF CaptureStarted
    <2>2. \/ a.fail # "none" /\ Quietly(s, undoing)
          \/ /\ a.fail = "none" /\ live /\ state = "starting"
             /\ ses' = [ses EXCEPT ![s] = entered] /\ active' = active /\ state' = "recording"
          \/ a.fail = "none" /\ live /\ state = "cancelling" /\ Quietly(s, threw)
          \/ a.fail = "none" /\ ~live /\ Quietly(s, recording)
      BY <1>7 DEF CaptureStarted, Enter, Transition, isCurrent
    <2>3. (a.aborted => capture = "closed") /\ (~a.aborted => capture = "open")
      OBVIOUS
    <2> HIDE DEF capture
    <2>4. Like(undoing) /\ undoing.start = "undoing" /\ undoing.capture = "closed"
      BY DEF ActiveSession
    <2>5. Like(threw) /\ threw.start = "threw" /\ threw.capture = capture
      BY DEF ActiveSession
    <2>6. Like(recording) /\ recording.start = "returned" /\ recording.capture = capture
      BY DEF ActiveSession
    <2>7. /\ Like(entered) /\ entered.start = "returned" /\ entered.capture = capture
          /\ entered.phase = "recording"
      BY DEF ActiveSession
    <2>8. a.asr = "closed" \/ (a.asr = "open" /\ ~a.aborted)
      BY <1>1, <2>1 DEF Whole, Held
    <2>9. ~a.transcript /\ ~a.polished /\ a.events \notin Working /\ a.outcome # "completed"
      BY <1>1, <2>1 DEF Whole, Recorded
    <2>10. a.finish \in {"none", "rejected"}
      BY <1>1, <2>1 DEF Whole, Recorded
    <2> HIDE DEF a, undoing, threw, recording, entered, live
    <2>11. CASE a.fail # "none" /\ Quietly(s, undoing)
      <3>1. a.aborted
        BY <1>1, <2>11 DEF Whole, Interrupted
      <3>2. Held(undoing)
        BY <1>1, <2>1, <2>4, <2>8, <3>1 DEF Whole, Held, Done
      <3>3. Interrupted(undoing, live, state)
        BY <1>1, <2>4 DEF Whole, Interrupted
      <3>4. Placed(undoing, live, state)
        BY <1>1, <2>1, <2>4 DEF Whole, Placed
      <3>5. Recorded(undoing)
        BY <1>1, <2>1, <2>4, <2>9, <2>10 DEF Whole, Recorded
      <3>6. Promised(undoing)
        BY <1>1, <2>4 DEF Whole, Promised
      <3> QED
        BY <2>11, <3>2, <3>3, <3>4, <3>5, <3>6, RecordWhole DEF Quietly, coord, live, Whole
    <2>12. CASE /\ a.fail = "none" /\ live /\ state = "starting"
                /\ ses' = [ses EXCEPT ![s] = entered] /\ active' = active /\ state' = "recording"
      <3>1. ~a.aborted /\ a.cancel = "none" /\ a.request = "none"
        BY <1>1, <2>12 DEF Whole, Interrupted, Placed
      <3>2. a.asr = "open" /\ capture = "open"
        BY <1>1, <2>1, <2>3, <2>12, <3>1 DEF Whole, Placed
      <3>3. Held(entered)
        BY <2>7, <3>1, <3>2 DEF Held, Done
      <3>4. Interrupted(entered, live, "recording")
        BY <1>1, <2>7, <3>1 DEF Whole, Interrupted
      <3>5. Placed(entered, live, "recording")
        BY <2>7, <2>9, <3>1 DEF Placed, Working, Polishing
      <3>6. Recorded(entered)
        BY <1>1, <2>7, <2>9, <2>10, <3>2 DEF Whole, Recorded
      <3>7. Promised(entered)
        BY <1>1, <2>7, <3>1 DEF Whole, Promised
      <3> QED
        BY <2>12, <3>3, <3>4, <3>5, <3>6, <3>7, RecordWhole DEF live, Whole
    <2>13. CASE a.fail = "none" /\ live /\ state = "cancelling" /\ Quietly(s, threw)
      <3>1. a.aborted
        BY <1>1, <2>13 DEF Whole, Interrupted
      <3>2. Held(threw)
        BY <1>1, <2>1, <2>3, <2>5, <2>8, <3>1 DEF Whole, Held, Done
      <3>3. Interrupted(threw, live, state)
        BY <1>1, <2>5 DEF Whole, Interrupted
      <3>4. Placed(threw, live, state)
        BY <1>1, <2>1, <2>5, <2>13 DEF Whole, Placed
      <3>5. Recorded(threw)
        BY <1>1, <2>1, <2>5, <2>9, <2>10 DEF Whole, Recorded
      <3>6. Promised(threw)
        BY <1>1, <2>5 DEF Whole, Promised
      <3> QED
        BY <2>13, <3>2, <3>3, <3>4, <3>5, <3>6, RecordWhole DEF Quietly, coord, live, Whole
    <2>14. CASE a.fail = "none" /\ ~live /\ Quietly(s, recording)
      <3>1. a.outcome \in Outcomes
        BY <1>2, <2>1, <2>14
      <3>2. a.outcome = "cancelled"
        BY <1>1, <2>9, <2>14, <3>1 DEF Whole, Interrupted, Outcomes
      <3>3. a.aborted
        BY <1>1, <3>2 DEF Whole, Interrupted
      <3>4. Held(recording)
        BY <1>1, <2>1, <2>3, <2>6, <2>8, <3>3 DEF Whole, Held, Done
      <3>5. Interrupted(recording, live, state)
        BY <1>1, <2>6 DEF Whole, Interrupted
      <3>6. Placed(recording, live, state)
        BY <2>14 DEF Placed
      <3>7. Recorded(recording)
        BY <1>1, <2>3, <2>6, <2>9, <2>10, <3>2 DEF Whole, Recorded
      <3>8. Promised(recording)
        BY <1>1, <2>6 DEF Whole, Promised
      <3> QED
        BY <2>14, <3>4, <3>5, <3>6, <3>7, <3>8, RecordWhole DEF Quietly, coord, live, Whole
    <2> QED
      BY <2>2, <2>11, <2>12, <2>13, <2>14
  <1>8. CASE StartThrows(s)
    <2> DEFINE b == [a EXCEPT !.start = "threw"]
    <2>1. a.start \in {"undoing", "failing"} /\ Quietly(s, b)
      BY <1>8 DEF StartThrows
    <2>2. /\ Kept(a, b) /\ b.start = "threw" /\ b.asr = a.asr /\ b.capture = a.capture
          /\ b.aborted = a.aborted /\ b.fail = a.fail /\ b.cancel = a.cancel
          /\ b.request = a.request
      BY DEF ActiveSession, Kept
    <2> HIDE DEF a, b, live
    <2>3. Whole(b, live, state)
      <3>1. Held(b)
        BY <1>1, <2>1, <2>2 DEF Kept, Held, Whole, Done
      <3>2. Interrupted(b, live, state)
        BY <1>1, <2>2 DEF Kept, Interrupted, Whole
      <3>3. Placed(b, live, state)
        BY <1>1, <2>1, <2>2 DEF Kept, Placed, Whole
      <3>4. Recorded(b)
        BY <1>1, <2>1, <2>2 DEF Kept, Recorded, Whole
      <3>5. Promised(b)
        BY <1>1, <2>2 DEF Kept, Promised, Whole
      <3> QED
        BY <3>1, <3>2, <3>3, <3>4, <3>5 DEF Whole
    <2> QED
      BY <2>1, <2>3, RecordWhole DEF Quietly, coord, live
  <1> QED
    BY <1>3, <1>4, <1>5, <1>6, <1>7, <1>8 DEF StartStep

LEMMA FinishStepWhole ==
  ASSUME TypeOK, NEW s \in Sessions, WholeNow(s), FinishStep(s)
  PROVE  WholeNow(s)'
  <1> DEFINE a == ses[s]
             live == active = s
             to(finish) == [a EXCEPT !.finish = finish]
  <1> a \in ActiveSession
    BY DEF TypeOK
  <1>1. Whole(a, live, state)
    BY DEF WholeNow
  <1>2. ASSUME NEW finish \in {"rejected", "resolved", "failing"},
               finish = "resolved" => a.finish \in {"draining", "asrFinishing"},
               finish = "failing" => a.finish \in {"stopping", "asrFinishing"}
        PROVE  Tame(a, to(finish))
    BY <1>2 DEF Tame, Loose, ActiveSession
  <1>3. to("failing") \in ActiveSession
    BY DEF ActiveSession
  <1>4. CASE CaptureStopped(s)
    <2> DEFINE capture == IF a.capture = "open" THEN "stopped" ELSE a.capture
               b == [a EXCEPT !.finish = "draining", !.capture = capture]
    <2>1. a.finish = "stopping" /\ Quietly(s, b)
      BY <1>4 DEF CaptureStopped
    <2>2. capture # "open" /\ (capture = a.capture \/ capture = "stopped")
      OBVIOUS
    <2> HIDE DEF capture
    <2>3. /\ b.finish = "draining" /\ b.capture = capture
          /\ b.start = a.start /\ b.asr = a.asr /\ b.aborted = a.aborted
          /\ b.fail = a.fail /\ b.cancel = a.cancel /\ b.outcome = a.outcome
          /\ b.events = a.events /\ b.transcript = a.transcript /\ b.polished = a.polished
          /\ b.phase = a.phase /\ b.request = a.request /\ b.policy = a.policy
          /\ b.mode = a.mode /\ b.marker = a.marker
      BY DEF ActiveSession
    <2>4. a.start = "returned"
      BY <1>1, <2>1 DEF Whole, Recorded
    <2> HIDE DEF a, b, live
    <2>5. Held(b)
      BY <1>1, <2>2, <2>3, <2>4 DEF Whole, Held, Done
    <2>6. Interrupted(b, live, state)
      BY <1>1, <2>3 DEF Whole, Interrupted
    <2>7. Placed(b, live, state)
      BY <1>1, <2>2, <2>3, <2>4 DEF Whole, Placed
    <2>8. Recorded(b)
      BY <1>1, <2>2, <2>3, <2>4 DEF Whole, Recorded
    <2>9. Promised(b)
      BY <1>1, <2>3 DEF Whole, Promised
    <2> QED
      BY <2>1, <2>5, <2>6, <2>7, <2>8, <2>9, RecordWhole DEF Whole, Quietly, coord, live
  <1>5. CASE Drained(s)
    <2> DEFINE b == [to("asrFinishing") EXCEPT !.phase = "recognizing"]
    <2>1. /\ a.finish = "draining"
          /\ \/ Quietly(s, to("rejected")) \/ Quietly(s, to("resolved"))
             \/ /\ live /\ state = "finishing"
                /\ ses' = [ses EXCEPT ![s] = b] /\ active' = active /\ state' = "recognizing"
      BY <1>5 DEF Drained, Enter, Transition, isCurrent
    <2>2. ASSUME live, state = "finishing", ses' = [ses EXCEPT ![s] = b], active' = active,
                 state' = "recognizing"
          PROVE  WholeNow(s)'
      <3>1. /\ b.finish = "asrFinishing" /\ b.phase = "recognizing"
            /\ b.start = a.start /\ b.asr = a.asr /\ b.capture = a.capture
            /\ b.aborted = a.aborted /\ b.fail = a.fail /\ b.cancel = a.cancel
            /\ b.outcome = a.outcome /\ b.events = a.events /\ b.transcript = a.transcript
            /\ b.polished = a.polished /\ b.request = a.request /\ b.policy = a.policy
            /\ b.mode = a.mode /\ b.marker = a.marker
        BY DEF ActiveSession
      <3>2. a.start = "returned" /\ a.capture # "open"
        BY <1>1, <2>1 DEF Whole, Recorded
      <3> HIDE DEF a, b, to, live
      <3>3. Held(b)
        BY <1>1, <3>1 DEF Whole, Held
      <3>4. Interrupted(b, live, "recognizing")
        BY <1>1, <2>2, <3>1 DEF Whole, Interrupted
      <3>5. Placed(b, live, "recognizing")
        BY <1>1, <2>2, <3>1, <3>2 DEF Whole, Placed
      <3>6. Recorded(b)
        BY <1>1, <3>1, <3>2 DEF Whole, Recorded
      <3>7. Promised(b)
        BY <1>1, <3>1 DEF Whole, Promised
      <3> QED
        BY <2>2, <3>3, <3>4, <3>5, <3>6, <3>7, RecordWhole DEF Whole, live
    <2> HIDE DEF to
    <2> QED
      BY <1>2, <2>1, <2>2, QuietlyWhole
  <1>6. CASE AsrFinished(s) \/ FinishThrows(s)
    <2>1. \/ a.finish = "asrFinishing" /\ Quietly(s, to("resolved"))
          \/ Quietly(s, to("rejected"))
      BY <1>6 DEF AsrFinished, FinishThrows
    <2> HIDE DEF to
    <2> QED
      BY <1>2, <2>1, QuietlyWhole
  <1>7. CASE CaptureStopFails(s) \/ AsrFinishFails(s)
    <2>1. \/ a.finish = "asrFinishing" /\ Quietly(s, to("resolved"))
          \/ /\ a.finish \in {"stopping", "asrFinishing"}
             /\ Fail(s, to("failing"), to("rejected"))
      BY <1>7 DEF CaptureStopFails, AsrFinishFails
    <2> HIDE DEF to
    <2>2. Tame(a, to("rejected"))
      BY <1>2
    <2>3. a.finish = "asrFinishing" => Tame(a, to("resolved"))
      BY <1>2
    <2>4. a.finish \in {"stopping", "asrFinishing"} => Tame(a, to("failing"))
      BY <1>2
    <2> QED
      BY <1>3, <2>1, <2>2, <2>3, <2>4, QuietlyWhole, FailWhole DEF Tame
  <1> QED
    BY <1>4, <1>5, <1>6, <1>7 DEF FinishStep

LEMMA AudioStepWhole ==
  ASSUME TypeOK, NEW s \in Sessions, WholeNow(s), AudioStep(s) \/ RecordingTimeout(s)
  PROVE  WholeNow(s)'
  <1> ses[s] \in ActiveSession
    BY DEF TypeOK
  <1> DEFINE to(pump) == [ses[s] EXCEPT !.pump = pump]
             unarmed == [ses[s] EXCEPT !.timer = FALSE]
  <1>1. /\ \A pump : Tame(ses[s], to(pump))
        /\ Tame(ses[s], unarmed)
    BY DEF Tame, Loose, ActiveSession
  <1>2. to("failing") \in ActiveSession /\ unarmed \in ActiveSession
    <2>1. to("failing") \in ActiveSession
      BY DEF ActiveSession
    <2>2. unarmed \in ActiveSession
      BY DEF ActiveSession
    <2> QED
      BY <2>1, <2>2
  <1>3. \/ Quietly(s, to("writing")) \/ Quietly(s, to("ended")) \/ Quietly(s, to("reading"))
        \/ Fail(s, to("failing"), to("ended"))
        \/ Fail(s, unarmed, unarmed)
    <2>1. ASSUME AudioEnds(s)
          PROVE  Fail(s, to("failing"), to("ended")) \/ Quietly(s, to("ended"))
      <3>1. [to("ended") EXCEPT !.pump = "failing"] = to("failing")
        BY DEF ActiveSession
      <3> QED
        BY <2>1, <3>1 DEF AudioEnds
    <2> QED
      BY <2>1 DEF AudioStep, FrameArrives, FrameWritten, FrameWriteFails, AudioThrows,
                  AudioPumpFailed, RecordingTimeout
  <1> HIDE DEF to, unarmed
  <1> QED
    BY <1>1, <1>2, <1>3, QuietlyWhole, FailWhole DEF Tame

LEMMA AsrStepWhole ==
  ASSUME TypeOK, NEW s \in Sessions, WholeNow(s), AsrStep(s)
  PROVE  WholeNow(s)'
  <1> DEFINE a == ses[s]
             live == active = s
             closed == [a EXCEPT !.asr = "closed"]
             ended == [closed EXCEPT !.events = "ended"]
             b == [[closed EXCEPT !.events = "processing"] EXCEPT !.phase = "processing"]
  <1> a \in ActiveSession
    BY DEF TypeOK
  <1>1. Whole(a, live, state)
    BY DEF WholeNow
  <1>2. CASE AsrPreview(s)
    BY <1>2 DEF AsrPreview, WholeNow, coord
  <1>3. CASE StaleAsrEvent(s)
    <2>1. Tame(a, [a EXCEPT !.events = "ended"])
      BY DEF Tame, Loose, ActiveSession, Polishing
    <2> QED
      BY <1>3, <2>1, QuietlyWhole DEF StaleAsrEvent
  <1>4. CASE AsrCompleted(s) \/ AsrFails(s)
    <2>1. ended \in ActiveSession
      BY DEF ActiveSession, AsrStates
    <2>2. [a EXCEPT !.events = "ended", !.asr = "closed"] = ended
      BY DEF ActiveSession
    <2>3. /\ a.events = "reading"
          /\ \/ Fail(s, ended, ended)
             \/ /\ live /\ state = "recognizing"
                /\ ses' = [ses EXCEPT ![s] = b] /\ active' = active /\ state' = "processing"
      BY <1>4, <2>2 DEF AsrCompleted, AsrFails, Enter, Transition, isCurrent
    <2>4. Loose(a, ended)
      BY <2>3 DEF Loose, ActiveSession, Polishing
    <2>5. ASSUME live, state = "recognizing", ses' = [ses EXCEPT ![s] = b],
                 active' = active, state' = "processing"
          PROVE  WholeNow(s)'
      <3>1. /\ b.events = "processing" /\ b.phase = "processing" /\ b.asr = "closed"
            /\ b.start = a.start /\ b.capture = a.capture /\ b.aborted = a.aborted
            /\ b.fail = a.fail /\ b.cancel = a.cancel /\ b.finish = a.finish
            /\ b.outcome = a.outcome /\ b.transcript = a.transcript
            /\ b.polished = a.polished /\ b.request = a.request /\ b.policy = a.policy
            /\ b.mode = a.mode /\ b.marker = a.marker
        BY DEF ActiveSession
      <3>2. a.start = "returned" /\ a.capture # "open"
        BY <1>1, <2>5 DEF Whole, Placed
      <3> HIDE DEF a, b, live
      <3>3. Held(b)
        BY <1>1, <3>1, <3>2 DEF Whole, Held
      <3>4. Interrupted(b, live, "processing")
        BY <1>1, <2>5, <3>1 DEF Whole, Interrupted
      <3>5. Placed(b, live, "processing")
        BY <1>1, <2>5, <3>1, <3>2 DEF Whole, Placed, Polishing
      <3>6. Recorded(b)
        BY <1>1, <3>1, <3>2 DEF Whole, Recorded
      <3>7. Promised(b)
        BY <1>1, <3>1 DEF Whole, Promised
      <3> QED
        BY <2>5, <3>3, <3>4, <3>5, <3>6, <3>7, RecordWhole DEF Whole, live
    <2> HIDE DEF ended
    <2> QED
      BY <2>1, <2>3, <2>4, <2>5, FailWhole
  <1> QED
    BY <1>2, <1>3, <1>4 DEF AsrStep

\* The polisher's pump ends, and lets go of a request that is still open.
LEMMA PolisherDoneFields ==
  ASSUME NEW a \in ActiveSession
  PROVE  LET b == PolisherDone(a) IN
         /\ b \in ActiveSession
         /\ Tame(a, b)
         /\ b.events = "ended" /\ b.start = a.start /\ b.finish = a.finish
         /\ b.polished = a.polished /\ b.fail = a.fail /\ b.cancel = a.cancel
  <1> DEFINE request == IF a.request = "live" THEN "done" ELSE a.request
  <1>1. PolisherDone(a) = [a EXCEPT !.events = "ended", !.request = request]
    BY DEF PolisherDone
  <1>2. PolisherDone(a) \in ActiveSession
    BY PolisherDoneCarries DEF Carries
  <1>3. request # "none" => a.request # "none"
    OBVIOUS
  <1> HIDE DEF request
  <1>4. Tame(a, PolisherDone(a))
    BY <1>1, <1>3 DEF Tame, Loose, ActiveSession, Polishing
  <1> QED
    BY <1>1, <1>2, <1>4 DEF ActiveSession

\* The session that is being polished goes on to the choice of a result.
LEMMA ChoosingWhole ==
  ASSUME NEW a, NEW b, Whole(a, TRUE, "polishing"), a.events \in Polishing,
         b.start = a.start, b.capture = a.capture, b.asr = a.asr, b.aborted = a.aborted,
         b.fail = a.fail, b.cancel = a.cancel, b.outcome = a.outcome,
         b.transcript = a.transcript, b.policy = a.policy, b.mode = a.mode,
         b.marker = a.marker, b.finish = a.finish,
         b.request # "none" => a.request # "none",
         b.events = "ended", b.phase = "choosing"
  PROVE  Whole(b, TRUE, "choosing")
  <1>1. a.start = "returned" /\ a.asr = "closed"
    BY DEF Whole, Recorded, Working, Polishing
  <1>2. Held(b)
    BY <1>1 DEF Whole, Held
  <1>3. Interrupted(b, TRUE, "choosing")
    BY DEF Whole, Interrupted
  <1>4. Placed(b, TRUE, "choosing")
    BY <1>1 DEF Whole, Placed, Polishing
  <1>5. Recorded(b)
    BY <1>1 DEF Whole, Recorded
  <1>6. Promised(b)
    BY DEF Whole, Promised
  <1> QED
    BY <1>2, <1>3, <1>4, <1>5, <1>6 DEF Whole

LEMMA PolishFallbackWhole ==
  ASSUME TypeOK, NEW s \in Sessions, WholeNow(s), ses[s].events \in Polishing,
         NEW a \in ActiveSession, Tame(ses[s], a), a.events = ses[s].events,
         a.finish = ses[s].finish, a.fail = ses[s].fail, a.cancel = ses[s].cancel,
         PolishFallback(s, a)
  PROVE  WholeNow(s)'
  <1> DEFINE old == ses[s]
             live == active = s
             done == PolisherDone(a)
             b == [[done EXCEPT !.polished = FALSE] EXCEPT !.phase = "choosing"]
  <1>1. Whole(old, live, state)
    BY DEF WholeNow
  <1>2. /\ done \in ActiveSession /\ Tame(a, done)
        /\ done.events = "ended" /\ done.start = a.start /\ done.finish = a.finish
        /\ done.polished = a.polished /\ done.fail = a.fail /\ done.cancel = a.cancel
    BY PolisherDoneFields
  <1>3. \/ /\ live /\ state = "polishing"
           /\ ses' = [ses EXCEPT ![s] = b] /\ active' = active /\ state' = "choosing"
        \/ Quietly(s, done)
    BY DEF PolishFallback, PolishWanted, Enter, Transition, isCurrent
  <1> HIDE DEF done
  <1>4. /\ b.events = "ended" /\ b.phase = "choosing" /\ b.start = done.start
        /\ b.capture = done.capture /\ b.asr = done.asr /\ b.aborted = done.aborted
        /\ b.fail = done.fail /\ b.cancel = done.cancel /\ b.outcome = done.outcome
        /\ b.transcript = done.transcript /\ b.policy = done.policy /\ b.mode = done.mode
        /\ b.marker = done.marker /\ b.finish = done.finish /\ b.request = done.request
    BY <1>2 DEF ActiveSession
  <1>5. CASE /\ live /\ state = "polishing"
             /\ ses' = [ses EXCEPT ![s] = b] /\ active' = active /\ state' = "choosing"
    <2> HIDE DEF b
    <2>1. Whole(b, TRUE, "choosing")
      <3>1. live = TRUE /\ state = "polishing" /\ old = ses[s]
        BY <1>5
      <3> HIDE DEF live, old
      <3>2. Whole(old, TRUE, "polishing") /\ old.events \in Polishing
        BY <1>1, <3>1
      <3>3. Tame(old, done) /\ done.fail = old.fail /\ done.cancel = old.cancel
            /\ done.finish = old.finish
        BY <1>2, <3>1 DEF Tame, Loose
      <3>4. /\ b.start = old.start /\ b.capture = old.capture /\ b.asr = old.asr
            /\ b.aborted = old.aborted /\ b.fail = old.fail /\ b.cancel = old.cancel
            /\ b.outcome = old.outcome /\ b.transcript = old.transcript
            /\ b.policy = old.policy /\ b.mode = old.mode /\ b.marker = old.marker
            /\ b.finish = old.finish
            /\ b.request # "none" => old.request # "none"
        BY <1>4, <3>3 DEF Tame, Loose
      <3> QED
        BY <1>4, <3>2, <3>4, ChoosingWhole
    <2>2. Whole(b, active' = s, state')
      <3>1. (active' = s) = TRUE
        BY <1>5
      <3> QED
        BY <1>5, <2>1, <3>1
    <2> QED
      BY <1>5, <2>2, RecordWhole
  <1>6. CASE Quietly(s, done)
    <2>1. Whole(a, live, state)
      BY <1>1, TameWhole
    <2> HIDE DEF live, b
    <2>2. Whole(done, live, state)
      BY <1>2, <2>1, TameWhole
    <2> QED
      BY <1>6, <2>2, RecordWhole DEF Quietly, coord, live
  <1> QED
    BY <1>3, <1>5, <1>6

LEMMA PolishValidatedWhole ==
  ASSUME TypeOK, NEW s \in Sessions, WholeNow(s), PolishValidated(s)
  PROVE  WholeNow(s)'
  <1> DEFINE a == ses[s]
             live == active = s
             valid == [a EXCEPT !.polished = TRUE]
             done == PolisherDone(valid)
             b == [[done EXCEPT !.offered = Choices] EXCEPT !.phase = "choosing"]
  <1> a \in ActiveSession
    BY DEF TypeOK
  <1>1. Whole(a, live, state) /\ a.events = "validating"
    BY DEF WholeNow, PolishValidated
  <1>2. /\ valid \in ActiveSession
        /\ valid.start = a.start /\ valid.capture = a.capture /\ valid.asr = a.asr
        /\ valid.aborted = a.aborted /\ valid.fail = a.fail /\ valid.cancel = a.cancel
        /\ valid.outcome = a.outcome /\ valid.transcript = a.transcript
        /\ valid.policy = a.policy /\ valid.mode = a.mode /\ valid.marker = a.marker
        /\ valid.finish = a.finish /\ valid.request = a.request /\ valid.phase = a.phase
        /\ valid.events = a.events
    BY DEF ActiveSession
  <1> HIDE DEF valid
  <1>3. /\ done \in ActiveSession /\ Tame(valid, done)
        /\ done.events = "ended" /\ done.start = valid.start /\ done.finish = valid.finish
        /\ done.fail = valid.fail /\ done.cancel = valid.cancel
    BY <1>2, PolisherDoneFields
  <1>4. \/ /\ live /\ state = "polishing"
           /\ ses' = [ses EXCEPT ![s] = b] /\ active' = active /\ state' = "choosing"
        \/ Quietly(s, done)
    BY DEF PolishValidated, PolishWanted, Enter, Transition, isCurrent, valid
  <1> HIDE DEF done
  <1>5. /\ b.events = "ended" /\ b.phase = "choosing" /\ b.start = done.start
        /\ b.capture = done.capture /\ b.asr = done.asr /\ b.aborted = done.aborted
        /\ b.fail = done.fail /\ b.cancel = done.cancel /\ b.outcome = done.outcome
        /\ b.transcript = done.transcript /\ b.policy = done.policy /\ b.mode = done.mode
        /\ b.marker = done.marker /\ b.finish = done.finish /\ b.request = done.request
    BY <1>3 DEF ActiveSession
  <1>6. a.events \in Polishing
    BY <1>1 DEF Polishing
  <1>7. CASE /\ live /\ state = "polishing"
             /\ ses' = [ses EXCEPT ![s] = b] /\ active' = active /\ state' = "choosing"
    <2>1. Whole(b, TRUE, "choosing")
      <3>1. live = TRUE /\ state = "polishing"
        BY <1>7
      <3> HIDE DEF live, a, b
      <3>2. Whole(a, TRUE, "polishing")
        BY <1>1, <3>1
      <3> QED
        BY <1>2, <1>3, <1>5, <1>6, <3>2, ChoosingWhole DEF Tame, Loose
    <2> HIDE DEF b
    <2>2. Whole(b, active' = s, state')
      <3>1. (active' = s) = TRUE
        BY <1>7
      <3> QED
        BY <1>7, <2>1, <3>1
    <2> QED
      BY <1>7, <2>2, RecordWhole
  <1>8. CASE Quietly(s, done)
    <2> HIDE DEF a, b, live
    <2>1. a.start = "returned" /\ a.asr = "closed"
      BY <1>1 DEF Whole, Recorded, Working
    <2>2. Whole(valid, live, state)
      <3>1. Held(valid)
        BY <1>1, <1>2 DEF Whole, Held
      <3>2. Interrupted(valid, live, state)
        BY <1>1, <1>2 DEF Whole, Interrupted
      <3>3. Placed(valid, live, state)
        BY <1>1, <1>2 DEF Whole, Placed
      <3>4. Recorded(valid)
        BY <1>1, <1>2, <2>1 DEF Whole, Recorded
      <3>5. Promised(valid)
        BY <1>1, <1>2 DEF Whole, Promised
      <3> QED
        BY <3>1, <3>2, <3>3, <3>4, <3>5 DEF Whole
    <2>3. Whole(done, live, state)
      BY <1>3, <2>2, TameWhole
    <2> QED
      BY <1>8, <2>3, RecordWhole DEF Quietly, coord, live
  <1> QED
    BY <1>4, <1>7, <1>8

LEMMA TranscriptProcessedWhole ==
  ASSUME TypeOK, NEW s \in Sessions, WholeNow(s), TranscriptProcessed(s)
  PROVE  WholeNow(s)'
  <1> DEFINE a == ses[s]
             live == active = s
             known == [a EXCEPT !.transcript = TRUE]
             offered == known.offered \cup {"transcript"}
             shown == [known EXCEPT !.offered = offered]
             polishing == [known EXCEPT !.events = "polishing", !.request = "live"]
             visible == [polishing EXCEPT !.offered = offered]
             ended == [known EXCEPT !.events = "ended"]
             over == [shown EXCEPT !.events = "ended"]
             entered == [visible EXCEPT !.phase = "polishing"]
             told == [over EXCEPT !.told = "transcript"]
             settled == [told EXCEPT !.timer = FALSE, !.outcome = "completed"]
             Like(b) == /\ b.start = a.start /\ b.capture = a.capture /\ b.asr = a.asr
                        /\ b.aborted = a.aborted /\ b.fail = a.fail /\ b.cancel = a.cancel
                        /\ b.polished = a.polished /\ b.policy = a.policy
                        /\ b.mode = a.mode /\ b.marker = a.marker /\ b.finish = a.finish
                        /\ b.transcript = TRUE
             wanted == Marker(a.policy, a.mode)
  <1> a \in ActiveSession
    BY DEF TypeOK
  <1>1. Whole(a, live, state) /\ a.events = "processing"
    BY DEF TranscriptProcessed, WholeNow
  <1>2. \A polish \in PolishDecisions(a) : polish => wanted
    BY Zenon DEF PolishDecisions, Marker
  <1>3. \/ ~live /\ wanted /\ Quietly(s, polishing)
        \/ ~live /\ Quietly(s, ended)
        \/ /\ live /\ state = "cancelling"
           /\ ses' = [ses EXCEPT ![s] = over] /\ active' = active /\ state' = state
        \/ /\ live /\ state # "cancelling" /\ wanted
           /\ ses' = [ses EXCEPT ![s] = entered] /\ active' = active /\ state' = "polishing"
        \/ /\ live /\ state # "cancelling"
           /\ ses' = [ses EXCEPT ![s] = settled] /\ active' = None
    BY <1>2 DEF TranscriptProcessed, Enter, Transition, Complete, Settle, isCurrent, coord
  <1>4. /\ Like(polishing) /\ polishing.events = "polishing" /\ polishing.request = "live"
        /\ polishing.phase = a.phase /\ polishing.outcome = a.outcome
    BY DEF ActiveSession
  <1>5. \A b \in {ended, over} : /\ Like(b) /\ b.events = "ended" /\ b.request = a.request
                                 /\ b.phase = a.phase /\ b.outcome = a.outcome
    BY DEF ActiveSession
  <1>6. /\ Like(entered) /\ entered.events = "polishing" /\ entered.request = "live"
        /\ entered.phase = "polishing" /\ entered.outcome = a.outcome
    BY DEF ActiveSession
  <1>7. /\ Like(settled) /\ settled.events = "ended" /\ settled.request = a.request
        /\ settled.phase = a.phase /\ settled.outcome = "completed"
    BY DEF ActiveSession
  <1>8. a.start = "returned" /\ a.asr = "closed"
    BY <1>1 DEF Whole, Recorded, Working
  <1>9. live /\ state # "cancelling" => state = "processing" /\ a.capture # "open"
    BY <1>1 DEF Whole, Placed
  <1>10. wanted => a.marker
    BY <1>1 DEF Whole, Promised
  <1> HIDE DEF a, live, polishing, ended, over, entered, settled, wanted
  <1>11. CASE ~live /\ wanted /\ Quietly(s, polishing)
    <2>1. Held(polishing)
      BY <1>1, <1>4, <1>8 DEF Whole, Held
    <2>2. Interrupted(polishing, live, state)
      BY <1>1, <1>4 DEF Whole, Interrupted
    <2>3. Placed(polishing, live, state)
      BY <1>11 DEF Placed
    <2>4. Recorded(polishing)
      BY <1>1, <1>4, <1>8 DEF Whole, Recorded
    <2>5. Promised(polishing)
      BY <1>1, <1>4, <1>10, <1>11 DEF Whole, Promised
    <2> QED
      BY <1>11, <2>1, <2>2, <2>3, <2>4, <2>5, RecordWhole DEF Whole, Quietly, coord, live
  <1>12. ASSUME NEW b \in {ended, over}, ses' = [ses EXCEPT ![s] = b], active' = active,
                state' = state
         PROVE  WholeNow(s)'
    <2>1. Held(b)
      BY <1>1, <1>5, <1>8 DEF Whole, Held
    <2>2. Interrupted(b, live, state)
      BY <1>1, <1>5 DEF Whole, Interrupted
    <2>3. Placed(b, live, state)
      BY <1>1, <1>5 DEF Whole, Placed, Polishing
    <2>4. Recorded(b)
      BY <1>1, <1>5, <1>8 DEF Whole, Recorded
    <2>5. Promised(b)
      BY <1>1, <1>5 DEF Whole, Promised
    <2> QED
      BY <1>12, <2>1, <2>2, <2>3, <2>4, <2>5, RecordWhole DEF Whole, live
  <1>13. CASE /\ live /\ state # "cancelling" /\ wanted
              /\ ses' = [ses EXCEPT ![s] = entered] /\ active' = active
              /\ state' = "polishing"
    <2>1. Held(entered)
      BY <1>1, <1>6, <1>8 DEF Whole, Held
    <2>2. Interrupted(entered, live, "polishing")
      BY <1>1, <1>6, <1>13 DEF Whole, Interrupted
    <2>3. Placed(entered, live, "polishing")
      BY <1>6, <1>8, <1>9, <1>13 DEF Placed
    <2>4. Recorded(entered)
      BY <1>1, <1>6, <1>8 DEF Whole, Recorded
    <2>5. Promised(entered)
      BY <1>1, <1>6, <1>10, <1>13 DEF Whole, Promised
    <2> QED
      BY <1>13, <2>1, <2>2, <2>3, <2>4, <2>5, RecordWhole DEF Whole, live
  <1>14. CASE /\ live /\ state # "cancelling"
              /\ ses' = [ses EXCEPT ![s] = settled] /\ active' = None
    <2>1. Held(settled)
      BY <1>1, <1>7, <1>8 DEF Whole, Held
    <2>2. Interrupted(settled, FALSE, state')
      BY <1>1, <1>7 DEF Whole, Interrupted
    <2>3. Placed(settled, FALSE, state')
      BY DEF Placed
    <2>4. Recorded(settled)
      BY <1>1, <1>7, <1>8, <1>9, <1>14 DEF Whole, Recorded, Interrupted
    <2>5. Promised(settled)
      BY <1>1, <1>7 DEF Whole, Promised
    <2>6. (active' = s) = FALSE
      BY <1>14, NoneIsNoSession
    <2> QED
      BY <1>14, <2>1, <2>2, <2>3, <2>4, <2>5, <2>6, RecordWhole DEF Whole
  <1> QED
    BY <1>3, <1>11, <1>12, <1>13, <1>14 DEF Quietly, coord

LEMMA TextStepWhole ==
  ASSUME TypeOK, NEW s \in Sessions, WholeNow(s), TextStep(s)
  PROVE  WholeNow(s)'
  <1> DEFINE a == ses[s]
  <1> a \in ActiveSession
    BY DEF TypeOK
  <1>1. Tame(a, PolisherDone(a)) /\ Tame(a, a)
    BY PolisherDoneFields DEF Tame, Loose
  <1>2. CASE ProcessingFails(s)
    <2> DEFINE ended == [a EXCEPT !.events = "ended"]
    <2>1. ended \in ActiveSession
      BY DEF ActiveSession
    <2>2. Loose(a, ended)
      BY DEF Loose, ActiveSession, Polishing
    <2> QED
      BY <1>2, <2>1, <2>2, FailWhole DEF ProcessingFails
  <1>3. CASE PolishDelta(s)
    <2>1. Tame(a, [a EXCEPT !.delta = TRUE])
      BY DEF Tame, Loose, ActiveSession
    <2>2. ASSUME ses' = [ses EXCEPT ![s].delta = TRUE], UNCHANGED coord
          PROVE  WholeNow(s)'
      <3>1. ses' = [ses EXCEPT ![s] = [a EXCEPT !.delta = TRUE]]
        BY <2>2
      <3>2. Whole([a EXCEPT !.delta = TRUE], active = s, state)
        BY <2>1, TameWhole DEF WholeNow
      <3> QED
        BY <2>2, <3>1, <3>2, RecordWhole DEF coord
    <2> QED
      BY <1>1, <1>3, <2>2, QuietlyWhole DEF PolishDelta
  <1>4. CASE PolishCompleted(s)
    <2>1. Tame(a, [a EXCEPT !.events = "validating"])
      BY <1>4 DEF PolishCompleted, Tame, Loose, ActiveSession, Polishing
    <2>2. Quietly(s, [a EXCEPT !.events = "validating"]) \/ Quietly(s, PolisherDone(a))
      BY <1>4 DEF PolishCompleted
    <2> QED
      BY <1>1, <2>1, <2>2, QuietlyWhole
  <1>5. CASE PolishUnavailable(s) \/ PolishThrows(s)
    <2>1. a.events \in Polishing
      BY <1>5 DEF PolishUnavailable, PolishThrows, Polishing
    <2> QED
      BY <1>1, <1>5, <2>1, PolishFallbackWhole, QuietlyWhole
      DEF PolishUnavailable, PolishThrows
  <1>6. CASE PolishedEmpty(s)
    <2> DEFINE empty == [a EXCEPT !.polished = FALSE]
    <2>1. empty \in ActiveSession
      BY DEF ActiveSession
    <2>2. /\ Tame(a, empty) /\ empty.events = a.events /\ empty.finish = a.finish
          /\ empty.fail = a.fail /\ empty.cancel = a.cancel
      BY DEF ActiveSession, Tame, Loose
    <2>3. a.events \in Polishing /\ PolishFallback(s, empty)
      BY <1>6 DEF PolishedEmpty, Polishing
    <2> HIDE DEF empty
    <2> QED
      BY <2>1, <2>2, <2>3, PolishFallbackWhole
  <1> QED
    BY <1>2, <1>3, <1>4, <1>5, <1>6, TranscriptProcessedWhole, PolishValidatedWhole
    DEF TextStep

\* A settled session keeps what it had, and that it was interrupted or completed.
LEMMA SettledWhole ==
  ASSUME TypeOK, NEW s \in Sessions, NEW live, NEW st, NEW a \in ActiveSession,
         Whole(a, live, st), a.outcome = "none",
         NEW told, NEW outcome \in Outcomes,
         outcome = "cancelled" => a.cancel # "none",
         outcome = "failed" => a.fail # "none",
         outcome = "completed" => a.start = "returned" /\ a.asr = "closed" /\ a.capture # "open",
         ses' = [ses EXCEPT ![s] = [[a EXCEPT !.told = told]
                                       EXCEPT !.timer = FALSE, !.outcome = outcome]],
         active' = None
  PROVE  WholeNow(s)'
  <1> DEFINE b == [[a EXCEPT !.told = told] EXCEPT !.timer = FALSE, !.outcome = outcome]
  <1>1. /\ b.start = a.start /\ b.capture = a.capture /\ b.asr = a.asr
        /\ b.aborted = a.aborted /\ b.fail = a.fail /\ b.cancel = a.cancel
        /\ b.transcript = a.transcript /\ b.polished = a.polished /\ b.policy = a.policy
        /\ b.mode = a.mode /\ b.marker = a.marker /\ b.finish = a.finish
        /\ b.request = a.request /\ b.phase = a.phase /\ b.events = a.events
        /\ b.outcome = outcome
    BY DEF ActiveSession
  <1>2. (active' = s) = FALSE
    BY NoneIsNoSession
  <1> HIDE DEF b
  <1>3. Held(b)
    BY <1>1 DEF Whole, Held
  <1>4. Interrupted(b, FALSE, state')
    BY <1>1 DEF Whole, Interrupted
  <1>5. Placed(b, FALSE, state')
    BY DEF Placed
  <1>6. Recorded(b)
    BY <1>1 DEF Whole, Recorded
  <1>7. Promised(b)
    BY <1>1 DEF Whole, Promised
  <1> QED
    BY <1>2, <1>3, <1>4, <1>5, <1>6, <1>7, RecordWhole DEF Whole, b

LEMMA SettlersWhole ==
  ASSUME Inv, NEW s \in Sessions, WholeNow(s), CancelSettles(s) \/ FailSettles(s)
  PROVE  WholeNow(s)'
  <1> TypeOK /\ ses[s] \in ActiveSession
    BY DEF Inv, TypeOK
  <1> DEFINE a == ses[s]
             live == active = s
             cancelled == [a EXCEPT !.cancel = "done"]
             reported == [a EXCEPT !.fail = "done"]
             Over(b, told, outcome) == [[b EXCEPT !.told = told]
                                          EXCEPT !.timer = FALSE, !.outcome = outcome]
  <1>1. Whole(a, live, state)
    BY DEF WholeNow
  <1>2. live => a.outcome = "none"
    BY DEF Inv, GateFollowsSession, isSettled
  <1>3. CASE CancelSettles(s)
    <2>1. /\ a.cancel = "waiting"
          /\ \/ Quietly(s, cancelled)
             \/ /\ live /\ active' = None
                /\ ses' = [ses EXCEPT ![s] = [cancelled EXCEPT !.timer = FALSE,
                                                               !.outcome = "cancelled"]]
      BY <1>3 DEF CancelSettles, Settle, isCurrent
    <2>2. /\ cancelled \in ActiveSession /\ Tame(a, cancelled)
          /\ cancelled.cancel = "done" /\ cancelled.outcome = a.outcome
      BY <2>1 DEF ActiveSession, Tame, Loose
    <2>3. [cancelled EXCEPT !.timer = FALSE, !.outcome = "cancelled"]
            = Over(cancelled, cancelled.told, "cancelled")
      BY DEF ActiveSession
    <2>4. Whole(cancelled, live, state)
      BY <1>1, <2>2, TameWhole
    <2>5. ASSUME live, active' = None,
                 ses' = [ses EXCEPT ![s] = Over(cancelled, cancelled.told, "cancelled")]
          PROVE  WholeNow(s)'
      <3>1. cancelled.outcome = "none" /\ cancelled.cancel # "none"
        BY <1>2, <2>2, <2>5
      <3>2. "cancelled" \in Outcomes
        BY DEF Outcomes
      <3> HIDE DEF live, cancelled
      <3> QED
        BY <2>2, <2>4, <2>5, <3>1, <3>2, SettledWhole
    <2> HIDE DEF live, cancelled, Over
    <2> QED
      BY <2>1, <2>2, <2>3, <2>5, QuietlyWhole
  <1>4. CASE FailSettles(s)
    <2>1. /\ a.fail = "waiting"
          /\ \/ Quietly(s, reported)
             \/ /\ live /\ active' = None
                /\ ses' = [ses EXCEPT ![s] = Over(reported, "error", "failed")]
      BY <1>4 DEF FailSettles, Settle, isCurrent
    <2>2. /\ reported \in ActiveSession /\ Tame(a, reported)
          /\ reported.fail = "done" /\ reported.outcome = a.outcome
      BY <2>1 DEF ActiveSession, Tame, Loose
    <2>3. Whole(reported, live, state)
      BY <1>1, <2>2, TameWhole
    <2> HIDE DEF live, reported
    <2> QED
      BY <1>2, <2>1, <2>2, <2>3, QuietlyWhole, SettledWhole DEF Outcomes
  <1> QED
    BY <1>3, <1>4

LEMMA StartWhole ==
  ASSUME Inv, NEW s \in Sessions, WholeNow(s), Start(s)
  PROVE  WholeNow(s)'
  <1> DEFINE a == ses[s]
             live == active = s
  <1> TypeOK /\ a \in ActiveSession
    BY DEF Inv, TypeOK
  <1>1. Whole(a, live, state) /\ a.start = "none"
    BY DEF WholeNow, Start
  <1>2. PICK policy \in Policies :
          LET marker == Marker(policy, "auto") IN
          ses' = [ses EXCEPT ![s].start = "creating", ![s].phase = "preparing",
                             ![s].policy = policy, ![s].marker = marker]
    BY DEF Start
  <1> DEFINE marker == Marker(policy, "auto")
             b == [a EXCEPT !.start = "creating", !.phase = "preparing",
                            !.policy = policy, !.marker = marker]
  <1>3. ses' = [ses EXCEPT ![s] = b] /\ active' = s /\ state' = "starting"
    BY <1>2 DEF TypeOK, Start
  <1> HIDE DEF marker
  <1>4. /\ b.start = "creating" /\ b.phase = "preparing" /\ b.policy = policy
        /\ b.marker = marker /\ b.capture = a.capture /\ b.asr = a.asr
        /\ b.aborted = a.aborted /\ b.fail = a.fail /\ b.cancel = a.cancel
        /\ b.transcript = a.transcript /\ b.polished = a.polished /\ b.mode = a.mode
        /\ b.finish = a.finish /\ b.request = a.request /\ b.events = a.events
        /\ b.outcome = a.outcome
    BY DEF ActiveSession
  <1>5. /\ a.asr = "none" /\ a.capture = "none" /\ ~a.aborted /\ a.mode = "auto"
        /\ a.request = "none"
    BY <1>1 DEF Whole, Held
  <1>6. a.fail = "none" /\ a.cancel = "none"
    BY <1>1, <1>5 DEF Whole, Interrupted
  <1>7. a.finish \in {"none", "rejected"}
    BY <1>1 DEF Whole, Recorded
  <1>8. /\ a.events \notin Working /\ a.events # "reading" /\ ~a.transcript /\ ~a.polished
        /\ a.outcome # "completed"
    BY <1>1, <1>5 DEF Whole, Recorded
  <1>9. a.outcome \notin {"cancelled", "failed"}
    BY <1>1, <1>6 DEF Whole, Interrupted
  <1> HIDE DEF a, b, live
  <1>10. Held(b)
    BY <1>4, <1>5 DEF Held, Done
  <1>11. Interrupted(b, TRUE, "starting")
    BY <1>4, <1>5, <1>6, <1>9 DEF Interrupted
  <1>12. Placed(b, TRUE, "starting")
    BY <1>4, <1>5, <1>8 DEF Placed, Working, Polishing
  <1>13. Recorded(b)
    BY <1>4, <1>7, <1>8 DEF Recorded
  <1>14. Promised(b)
    BY <1>4, <1>5 DEF Promised, marker
  <1>15. (active' = s) = TRUE
    BY <1>3
  <1> QED
    BY <1>3, <1>10, <1>11, <1>12, <1>13, <1>14, <1>15, RecordWhole DEF Whole

LEMMA CancelWhole ==
  ASSUME TypeOK, NEW s \in Sessions, WholeNow(s), Cancel(s)
  PROVE  WholeNow(s)'
  <1> DEFINE a == ses[s]
             live == active = s
             c == Interrupt(a)
             b == [c EXCEPT !.cancel = "waiting"]
  <1> a \in ActiveSession
    BY DEF TypeOK
  <1>1. Whole(a, live, state) /\ live
    BY DEF WholeNow, Cancel, isCurrent
  <1>2. /\ c \in ActiveSession
        /\ c.start = a.start /\ c.fail = a.fail
        /\ Kept(a, c) /\ c.aborted = TRUE
        /\ c.request = "none" <=> a.request = "none"
        /\ c.asr = IF a.asr = "none" THEN "none" ELSE "closed"
        /\ c.capture = IF a.capture = "none" THEN "none" ELSE "closed"
    BY InterruptFields
  <1>3. ses' = [ses EXCEPT ![s] = b] /\ active' = active /\ state' = "cancelling"
    BY DEF Cancel, Transition, TypeOK
  <1> HIDE DEF c
  <1>4. /\ b.cancel = "waiting" /\ Kept(c, b) /\ b.start = c.start /\ b.fail = c.fail
        /\ b.aborted = c.aborted /\ b.request = c.request /\ b.asr = c.asr
        /\ b.capture = c.capture
    BY <1>2 DEF ActiveSession, Kept
  <1>5. a.start # "none"
    BY <1>1 DEF Whole, Placed
  <1> HIDE DEF a, b, live
  <1>6. Held(b)
    BY <1>1, <1>2, <1>4, <1>5 DEF Whole, Held, Kept
  <1>7. Interrupted(b, live, "cancelling")
    BY <1>1, <1>2, <1>4 DEF Whole, Interrupted, Kept
  <1>8. Placed(b, live, "cancelling")
    BY <1>2, <1>4, <1>5 DEF Placed, Kept
  <1>9. Recorded(b)
    BY <1>1, <1>2, <1>4 DEF Whole, Recorded, Kept, Working
  <1>10. Promised(b)
    BY <1>1, <1>2, <1>4 DEF Whole, Promised, Kept
  <1> QED
    BY <1>3, <1>6, <1>7, <1>8, <1>9, <1>10, RecordWhole DEF Whole, live

\* A choice is among what the session has.
LEMMA SelectedExists ==
  ASSUME NEW s \in Sessions, NEW choice \in Choices, SelectResult(s, choice)
  PROVE  /\ active = s /\ state \in {"polishing", "choosing"}
         /\ ses[s].polished \/ ses[s].transcript
  <1>1. active = s /\ state \in {"polishing", "choosing"}
    BY DEF SelectResult, isCurrent
  <1>2. IF choice = "polished" THEN ses[s].polished ELSE ses[s].transcript
    BY Zenon DEF SelectResult
  <1>3. ses[s].polished \/ ses[s].transcript
    BY <1>2, Zenon
  <1> QED
    BY <1>1, <1>3

LEMMA ClientStepWhole ==
  ASSUME Inv, NEW s \in Sessions, WholeNow(s), ClientStep(s)
  PROVE  WholeNow(s)'
  <1> DEFINE a == ses[s]
             live == active = s
  <1> TypeOK /\ a \in ActiveSession
    BY DEF Inv, TypeOK
  <1>1. Whole(a, live, state)
    BY DEF WholeNow
  <1>2. CASE \E enabled \in Toggles : SetPolishingEnabled(s, enabled)
    <2>1. PICK enabled \in Toggles : SetPolishingEnabled(s, enabled)
      BY <1>2
    <2> DEFINE mode == IF enabled THEN "forceOn" ELSE "forceOff"
               marker == Marker(a.policy, mode)
               b == [a EXCEPT !.mode = mode, !.marker = marker]
    <2>2. /\ live /\ state = "recording"
          /\ ses' = [ses EXCEPT ![s] = b] /\ active' = active /\ state' = state
      BY <2>1 DEF SetPolishingEnabled, isCurrent, TypeOK, coord
    <2>3. a.request = "none" /\ a.start # "none"
      BY <1>1, <2>2 DEF Whole, Placed
    <2> HIDE DEF mode, marker
    <2>4. /\ b.mode = mode /\ b.marker = marker /\ b.policy = a.policy
          /\ b.start = a.start /\ b.capture = a.capture /\ b.asr = a.asr
          /\ b.aborted = a.aborted /\ b.fail = a.fail /\ b.cancel = a.cancel
          /\ b.transcript = a.transcript /\ b.polished = a.polished
          /\ b.finish = a.finish /\ b.request = a.request /\ b.phase = a.phase
          /\ b.events = a.events /\ b.outcome = a.outcome
      BY DEF ActiveSession
    <2>5. b.marker = Marker(b.policy, b.mode)
      BY <2>4 DEF marker
    <2> HIDE DEF a, b, live
    <2>6. Held(b)
      BY <1>1, <2>3, <2>4 DEF Whole, Held
    <2>7. Interrupted(b, live, state)
      BY <1>1, <2>4 DEF Whole, Interrupted
    <2>8. Placed(b, live, state)
      BY <1>1, <2>4 DEF Whole, Placed
    <2>9. Recorded(b)
      BY <1>1, <2>4 DEF Whole, Recorded
    <2>10. Promised(b)
      BY <2>3, <2>4, <2>5 DEF Promised
    <2> QED
      BY <2>2, <2>6, <2>7, <2>8, <2>9, <2>10, RecordWhole DEF Whole, live
  <1>3. CASE Finish(s)
    <2> DEFINE b == [a EXCEPT !.finish = "stopping", !.timer = FALSE]
               rejected == [a EXCEPT !.finish = "rejected"]
    <2>1. \/ Quietly(s, rejected)
          \/ /\ live /\ state = "recording"
             /\ ses' = [ses EXCEPT ![s] = b] /\ active' = active /\ state' = "finishing"
      BY <1>3 DEF Finish, Transition, isCurrent, TypeOK
    <2>2. Tame(a, rejected)
      BY DEF Tame, Loose, ActiveSession
    <2>3. ASSUME live, state = "recording", ses' = [ses EXCEPT ![s] = b], active' = active,
                 state' = "finishing"
          PROVE  WholeNow(s)'
      <3>1. /\ b.finish = "stopping" /\ b.mode = a.mode /\ b.marker = a.marker
            /\ b.policy = a.policy /\ b.start = a.start /\ b.capture = a.capture
            /\ b.asr = a.asr /\ b.aborted = a.aborted /\ b.fail = a.fail
            /\ b.cancel = a.cancel /\ b.transcript = a.transcript
            /\ b.polished = a.polished /\ b.request = a.request /\ b.phase = a.phase
            /\ b.events = a.events /\ b.outcome = a.outcome
        BY DEF ActiveSession
      <3>2. a.start = "returned"
        BY <1>1, <2>3 DEF Whole, Placed
      <3> HIDE DEF a, b, live, rejected
      <3>3. Held(b)
        BY <1>1, <3>1 DEF Whole, Held
      <3>4. Interrupted(b, live, "finishing")
        BY <1>1, <2>3, <3>1 DEF Whole, Interrupted
      <3>5. Placed(b, live, "finishing")
        BY <1>1, <2>3, <3>1, <3>2 DEF Whole, Placed
      <3>6. Recorded(b)
        BY <1>1, <3>1, <3>2 DEF Whole, Recorded
      <3>7. Promised(b)
        BY <1>1, <3>1 DEF Whole, Promised
      <3> QED
        BY <2>3, <3>3, <3>4, <3>5, <3>6, <3>7, RecordWhole DEF Whole, live
    <2> HIDE DEF b, rejected
    <2> QED
      BY <2>1, <2>2, <2>3, QuietlyWhole
  <1>4. CASE \E choice \in Choices : SelectResult(s, choice)
    <2>1. PICK choice \in Choices : SelectResult(s, choice)
      BY <1>4
    <2> DEFINE request == IF a.request = "live" THEN "aborted" ELSE a.request
               b == [a EXCEPT !.request = request]
    <2>2. /\ ses' = [ses EXCEPT ![s] = [[b EXCEPT !.told = choice]
                                          EXCEPT !.timer = FALSE, !.outcome = "completed"]]
          /\ active' = None
      BY <2>1 DEF SelectResult, Complete, Settle
    <2>3. live /\ state \in {"polishing", "choosing"} /\ (a.polished \/ a.transcript)
      BY <2>1, SelectedExists
    <2>4. a.start = "returned" /\ a.asr = "closed" /\ a.capture # "open"
      BY <1>1, <2>3 DEF Whole, Placed, Recorded
    <2>5. request \in {"none", "live", "aborted", "done"} /\ (request # "none" => a.request # "none")
      BY DEF ActiveSession
    <2>6. a.outcome = "none"
      BY <2>3 DEF Inv, GateFollowsSession, isSettled
    <2> HIDE DEF request
    <2>7. b \in ActiveSession
      BY <2>5 DEF ActiveSession
    <2>8. /\ Tame(a, b) /\ b.outcome = a.outcome /\ b.start = a.start /\ b.asr = a.asr
          /\ b.capture = a.capture
      BY <2>5 DEF Tame, Loose, ActiveSession
    <2> HIDE DEF a, b, live
    <2>9. Whole(b, live, state)
      BY <1>1, <2>8, TameWhole
    <2> QED
      BY <2>2, <2>4, <2>6, <2>7, <2>8, <2>9, SettledWhole DEF Outcomes
  <1> QED
    BY <1>2, <1>3, <1>4, StartWhole, CancelWhole DEF ClientStep

-------------------------------------------------------------------------------
(***************************************************************************)
(* The invariant.                                                          *)
(***************************************************************************)
\* The records of the other sessions stay, and so does the account of them.
LEMMA OtherSessionsWhole ==
  ASSUME Inv, ResourceInv, NEW s \in Sessions, Begins(s) \/ Works(s) \/ Settles(s),
         NEW t \in Sessions \ {s}
  PROVE  WholeNow(t)'
  <1>1. PICK b \in ActiveSession : ses' = [ses EXCEPT ![s] = b]
    BY DEF Begins, Works, Settles
  <1>2. ses'[t] = ses[t]
    BY <1>1, OneRecordChanges DEF Inv
  <1>3. active' = t => active = t /\ state' = state
    BY NoneIsNoSession DEF Begins, Works, Settles, coord
  <1> DEFINE a == ses[t]
             live == active = t
             later == active' = t
  <1>4. Whole(a, live, state)
    BY DEF ResourceInv, WholeNow
  <1>5. later => live /\ state' = state
    BY <1>3
  <1> HIDE DEF a, live, later
  <1>6. Interrupted(a, later, state') /\ Placed(a, later, state')
    BY <1>4, <1>5 DEF Whole, Interrupted, Placed
  <1>7. Whole(a, later, state')
    BY <1>4, <1>6 DEF Whole
  <1> QED
    BY <1>2, <1>7 DEF WholeNow, a, later

LEMMA ResourceInit == Init => ResourceInv
  <1>1. ASSUME Init, NEW s \in Sessions
        PROVE  WholeNow(s)
    <2>1. ses[s] = NewSession /\ (active = s) = FALSE
      BY <1>1, NoneIsNoSession DEF Init
    <2>2. Held(NewSession)
      BY DEF Held, NewSession, Done
    <2>3. Interrupted(NewSession, FALSE, state)
      BY DEF Interrupted, NewSession
    <2>4. Placed(NewSession, FALSE, state)
      BY DEF Placed
    <2>5. Recorded(NewSession)
      BY DEF Recorded, NewSession, Working
    <2>6. Promised(NewSession)
      BY DEF Promised, NewSession, Marker
    <2> QED
      BY <2>1, <2>2, <2>3, <2>4, <2>5, <2>6 DEF WholeNow, Whole
  <1> QED
    BY <1>1 DEF ResourceInv

LEMMA ResourceStep ==
  ASSUME Inv, ResourceInv, [Next]_vars
  PROVE  ResourceInv'
  <1>1. ASSUME NEW s \in Sessions, SessionStep(s)
        PROVE  ResourceInv'
    <2>1. TypeOK /\ WholeNow(s)
      BY DEF Inv, ResourceInv
    <2>2. WholeNow(s)'
      BY <1>1, <2>1, ClientStepWhole, StartStepWhole, FinishStepWhole, AudioStepWhole,
         AsrStepWhole, TextStepWhole, SettlersWhole DEF SessionStep
    <2>3. Begins(s) \/ Works(s) \/ Settles(s)
      BY <1>1, <2>1, StepShapes
    <2> QED
      BY <2>2, <2>3, OtherSessionsWhole DEF ResourceInv
  <1>2. CASE OtherAcquires \/ OtherReleases \/ UNCHANGED vars
    BY <1>2 DEF OtherAcquires, OtherReleases, vars, coord, ResourceInv, WholeNow
  <1> QED
    BY <1>1, <1>2 DEF Next

LEMMA ResourceInvariance == Spec => []ResourceInv
  <1> QED
    BY Invariance, ResourceInit, ResourceStep, PTL DEF Spec

\* Once a session is over and its start() has answered, its microphone is off and its
\* recogniser closed, at whichever await of start() it was interrupted.
THEOREM ResourcesReleased == Spec => []NothingLeftRunning
  <1>1. ASSUME Inv, ResourceInv, NEW s \in Sessions, isSettled(s),
               ses[s].start \in {"returned", "threw"}
        PROVE  ses[s].capture \notin {"starting", "open"} /\ ses[s].asr \notin {"created", "open"}
    <2> DEFINE a == ses[s]
    <2>1. Whole(a, active = s, state) /\ a.start \in {"returned", "threw"}
      BY <1>1 DEF ResourceInv, WholeNow
    <2>2. a.outcome \in Outcomes
      BY <1>1 DEF Inv, TypeOK, ActiveSession, isSettled
    <2> HIDE DEF a
    <2>3. a.capture \notin {"starting", "open"} /\ a.asr \notin {"created", "open"}
      BY <2>1, <2>2 DEF Whole, Held, Interrupted, Recorded, Done, Outcomes
    <2> QED
      BY <2>3 DEF a
  <1>2. Inv /\ ResourceInv => NothingLeftRunning
    BY <1>1 DEF NothingLeftRunning
  <1> QED
    BY <1>2, Invariance, ResourceInvariance, PTL

\* session.start succeeds for a session that announced "recording" or was cancelled,
\* and never for one that failed while it started.
THEOREM StartCorrect == Spec => []SuccessfulStartMeansRecording
  <1>1. ResourceInv => SuccessfulStartMeansRecording
    BY DEF ResourceInv, WholeNow, Whole, Recorded, SuccessfulStartMeansRecording
  <1> QED
    BY <1>1, ResourceInvariance, PTL

\* A transcript is only sent to the polisher when the marker shown to the client said so.
THEOREM MarkerCorrect == Spec => []MarkerPromisesPolishing
  <1>1. ResourceInv => MarkerPromisesPolishing
    BY DEF ResourceInv, WholeNow, Whole, Promised, MarkerPromisesPolishing
  <1> QED
    BY <1>1, ResourceInvariance, PTL

-------------------------------------------------------------------------------
(***************************************************************************)
(* The table of transitions.                                               *)
(***************************************************************************)
\* Everything ALLOWED_TRANSITIONS is asked for, and that it is asked for nothing else.
LEMMA TransitionTable ==
  /\ "starting" \in AllowedTransitions["idle"]
  /\ "recording" \in AllowedTransitions["starting"]
  /\ "finishing" \in AllowedTransitions["recording"]
  /\ "recognizing" \in AllowedTransitions["finishing"]
  /\ "processing" \in AllowedTransitions["recognizing"]
  /\ {"polishing", "completed"} \subseteq AllowedTransitions["processing"]
  /\ {"choosing", "completed"} \subseteq AllowedTransitions["polishing"]
  /\ "completed" \in AllowedTransitions["choosing"]
  /\ "cancelled" \in AllowedTransitions["cancelling"]
  /\ \A st \in LiveStates : "failed" \in AllowedTransitions[st]
  /\ \A st \in LiveStates \ {"cancelling"} : "cancelling" \in AllowedTransitions[st]
  /\ \A outcome \in Outcomes : "idle" \in AllowedTransitions[outcome]
  BY DEF AllowedTransitions, LiveStates, SessionStates, Outcomes

LEMMA LiveState ==
  ASSUME Inv, NEW s \in Sessions, active = s
  PROVE  state \in LiveStates
  BY NoneIsNoSession DEF Inv, TypeOK, GateFollowsSession, LiveStates, Outcomes

Moves == state' \in AllowedTransitions[state] \/ UNCHANGED state

\* The state passes through that of the outcome the session is settled with.
Ends(s) ==
  /\ ~isSettled(s) /\ isSettled(s)'
  /\ ses[s].outcome' \in AllowedTransitions[state]
  /\ state' \in AllowedTransitions[ses[s].outcome']

LEMMA SettleEnds ==
  ASSUME TypeOK, NEW s \in Sessions, ~isSettled(s), NEW a \in ActiveSession,
         NEW outcome \in Outcomes, outcome \in AllowedTransitions[state],
         NEW events, Settle(s, a, outcome, events)
  PROVE  Ends(s)
  <1>1. ses'[s].outcome = outcome
    BY DEF Settle, TypeOK, ActiveSession
  <1>2. outcome # "none" /\ "idle" \in AllowedTransitions[outcome] /\ state' = "idle"
    BY TransitionTable DEF Settle, Outcomes
  <1> QED
    BY <1>1, <1>2 DEF Ends, isSettled

LEMMA StepIsLegal ==
  ASSUME Inv, NEW s \in Sessions, WholeNow(s), SessionStep(s)
  PROVE  Moves \/ Ends(s)
  <1> DEFINE a == ses[s]
             live == active = s
  <1> TypeOK /\ a \in ActiveSession
    BY DEF Inv, TypeOK
  <1>1. Whole(a, live, state)
    BY DEF WholeNow
  <1>2. live => ~isSettled(s) /\ state \in LiveStates
    BY LiveState DEF Inv, GateFollowsSession
  <1>3. CASE ClientStep(s)
    <2>1. CASE Start(s)
      <3>1. state = "idle" /\ state' = "starting"
        BY <2>1 DEF Start, Inv, GateFollowsSession
      <3> QED
        BY <3>1, TransitionTable DEF Moves
    <2>2. CASE \E enabled \in Toggles : SetPolishingEnabled(s, enabled)
      BY <2>2 DEF SetPolishingEnabled, coord, Moves
    <2>3. CASE Finish(s)
      BY <2>3, TransitionTable DEF Finish, Transition, Quietly, coord, Moves
    <2>4. CASE Cancel(s)
      <3>1. live /\ a.cancel = "none" /\ state' = "cancelling"
        BY <2>4 DEF Cancel, Transition, isCurrent
      <3> HIDE DEF a, live
      <3>2. state # "cancelling"
        BY <1>1, <3>1 DEF Whole, Interrupted
      <3> QED
        BY <1>2, <3>1, <3>2, TransitionTable DEF Moves
    <2>5. CASE \E choice \in Choices : SelectResult(s, choice)
      <3>1. PICK choice \in Choices : SelectResult(s, choice)
        BY <2>5
      <3> DEFINE request == IF a.request = "live" THEN "aborted" ELSE a.request
                 b == [a EXCEPT !.request = request]
                 c == [b EXCEPT !.told = choice]
                 events == Append(<<>>, Notification(s, "completed", choice))
      <3>2. live /\ state \in {"polishing", "choosing"} /\ Settle(s, c, "completed", events)
        BY <3>1 DEF SelectResult, Complete, isCurrent
      <3>3. request \in {"none", "live", "aborted", "done"}
        BY DEF ActiveSession
      <3> HIDE DEF request
      <3>4. c \in ActiveSession
        BY <3>3 DEF ActiveSession
      <3> HIDE DEF b, c, events
      <3>5. "completed" \in AllowedTransitions[state] /\ "completed" \in Outcomes
        BY <3>2, TransitionTable DEF Outcomes
      <3> QED
        BY <1>2, <3>2, <3>4, <3>5, SettleEnds
    <2> QED
      BY <1>3, <2>1, <2>2, <2>3, <2>4, <2>5 DEF ClientStep
  <1>4. CASE CancelSettles(s)
    <2> DEFINE cancelled == [a EXCEPT !.cancel = "done"]
    <2>1. /\ a.cancel = "waiting"
          /\ Quietly(s, cancelled) \/ (live /\ Settle(s, cancelled, "cancelled", <<>>))
      BY <1>4 DEF CancelSettles, isCurrent
    <2>2. cancelled \in ActiveSession
      BY DEF ActiveSession
    <2>3. live => state = "cancelling"
      BY <1>1, <2>1 DEF Whole, Interrupted
    <2> HIDE DEF cancelled
    <2>4. "cancelled" \in Outcomes
      BY DEF Outcomes
    <2> QED
      BY <1>2, <2>1, <2>2, <2>3, <2>4, SettleEnds, TransitionTable DEF Quietly, coord, Moves
  <1>5. CASE FailSettles(s)
    <2> DEFINE reported == [a EXCEPT !.fail = "done"]
               failed == [reported EXCEPT !.told = "error"]
               events == <<Notification(s, "error", "failure")>>
    <2>1. Quietly(s, reported) \/ (live /\ Settle(s, failed, "failed", events))
      BY <1>5 DEF FailSettles, isCurrent
    <2>2. failed \in ActiveSession
      BY DEF ActiveSession
    <2> HIDE DEF reported, failed, events
    <2>3. "failed" \in Outcomes
      BY DEF Outcomes
    <2> QED
      BY <1>2, <2>1, <2>2, <2>3, SettleEnds, TransitionTable DEF Quietly, coord, Moves
  <1>6. CASE StartStep(s)
    BY <1>6, TransitionTable DEF StartStep, AsrCreated, AsrStarted, StartAsrFails,
       CaptureStarted, CaptureStartFails, StartThrows, Fail, Quietly, Enter, Transition,
       coord, Moves
  <1>7. CASE FinishStep(s)
    BY <1>7, TransitionTable DEF FinishStep, CaptureStopped, CaptureStopFails, Drained,
       AsrFinished, AsrFinishFails, FinishThrows, Fail, Quietly, Enter, Transition,
       coord, Moves
  <1>8. CASE AudioStep(s) \/ RecordingTimeout(s)
    BY <1>8 DEF AudioStep, FrameArrives, FrameWritten, FrameWriteFails, AudioEnds,
       AudioThrows, AudioPumpFailed, RecordingTimeout, Fail, Quietly, coord, Moves
  <1>9. CASE AsrStep(s)
    BY <1>9, TransitionTable DEF AsrStep, AsrPreview, StaleAsrEvent, AsrCompleted, AsrFails,
       Fail, Quietly, Enter, Transition, coord, Moves
  <1>10. CASE TranscriptProcessed(s)
    <2> DEFINE known == [a EXCEPT !.transcript = TRUE]
               offered == known.offered \cup {"transcript"}
               over == [[known EXCEPT !.offered = offered] EXCEPT !.events = "ended"]
               b == [over EXCEPT !.told = "transcript"]
    <2>1. a.events = "processing"
      BY <1>10 DEF TranscriptProcessed
    <2>2. \/ UNCHANGED state
          \/ /\ live /\ state # "cancelling"
             /\ \/ state' = "polishing"
                \/ \E events : Settle(s, b, "completed", events)
      BY <1>10 DEF TranscriptProcessed, Quietly, Enter, Transition, Complete, isCurrent, coord
    <2>3. live /\ state # "cancelling" => state = "processing"
      BY <1>1, <2>1 DEF Whole, Placed
    <2>4. offered \in SUBSET Choices
      BY DEF ActiveSession, Choices
    <2> HIDE DEF offered
    <2>5. b \in ActiveSession
      <3>1. known \in ActiveSession
        BY DEF ActiveSession
      <3>2. over \in ActiveSession
        BY <2>4, <3>1 DEF ActiveSession
      <3> HIDE DEF over
      <3> QED
        BY <3>2 DEF ActiveSession, Choices
    <2> HIDE DEF b
    <2>6. "completed" \in Outcomes
      BY DEF Outcomes
    <2> QED
      BY <1>2, <2>2, <2>3, <2>5, <2>6, SettleEnds, TransitionTable DEF Moves
  <1>11. CASE TextStep(s) /\ ~TranscriptProcessed(s)
    BY <1>11, TransitionTable DEF TextStep, ProcessingFails, PolishDelta, PolishCompleted,
       PolishUnavailable, PolishThrows, PolishValidated, PolishedEmpty, PolishFallback,
       PolishWanted, Fail, Quietly, Enter, Transition, coord, Moves
  <1> QED
    BY <1>3, <1>4, <1>5, <1>6, <1>7, <1>8, <1>9, <1>10, <1>11 DEF SessionStep

\* LegalTransitions: every change of #state, by any handler or continuation, is one that
\* ALLOWED_TRANSITIONS has.  (Where #transition throws nothing changes, and the actions that
\* model a start() or an event pump meeting a session that is being cancelled do throw.)
THEOREM TransitionsCorrect == Spec => LegalTransitions
  <1>1. ASSUME Inv, ResourceInv, [Next]_vars
        PROVE  [ \/ state' \in AllowedTransitions[state]
                 \/ \E s \in Sessions :
                      /\ ~isSettled(s) /\ isSettled(s)'
                      /\ ses[s].outcome' \in AllowedTransitions[state]
                      /\ state' \in AllowedTransitions[ses[s].outcome'] ]_state
    <2>1. ASSUME NEW s \in Sessions, SessionStep(s)
          PROVE  Moves \/ Ends(s)
      BY <1>1, <2>1, StepIsLegal DEF ResourceInv
    <2>2. CASE OtherAcquires \/ OtherReleases \/ UNCHANGED vars
      BY <2>2 DEF OtherAcquires, OtherReleases, vars
    <2> QED
      BY <1>1, <2>1, <2>2 DEF Next, Moves, Ends
  <1> QED
    BY <1>1, Invariance, ResourceInvariance, PTL DEF Spec, LegalTransitions

-------------------------------------------------------------------------------
(***************************************************************************)
(* The announcement of "recording".                                        *)
(***************************************************************************)
Others(s) == { n \in NotesOf(s) : n # Notification(s, "phase", "recording") }

LEMMA OtherNotes ==
  ASSUME NEW s, NEW method \in Methods, NEW value \in NoteValues,
         method # "phase" \/ value # "recording"
  PROVE  Notification(s, method, value) \in Others(s)
  <1>1. Notification(s, method, value) \in NotesOf(s)
    BY NotificationTyped
  <1>2. Notification(s, method, value) # Notification(s, "phase", "recording")
    BY DEF Notification
  <1> QED
    BY <1>1, <1>2 DEF Others

LEMMA EnterOthers ==
  ASSUME NEW s \in Sessions, NEW b, NEW to \in Phases \ {"recording"},
         NEW before \in Seq(Others(s)), Enter(s, b, to, before)
  PROVE  outbox' \in Seq(Others(s))
  <1>1. "phase" \in Methods /\ to \in NoteValues
    BY DEF Methods, NoteValues
  <1>2. Notification(s, "phase", to) \in Others(s)
    BY <1>1, OtherNotes
  <1> QED
    BY <1>2 DEF Enter

LEMMA NotesInOthers ==
  ASSUME NEW s \in Sessions
  PROVE  /\ \A choice \in Choices : Notification(s, "completed", choice) \in Others(s)
         /\ \A shown \in {"none", "streaming", "final", "transcript"} :
              Results(s, shown) \in Others(s)
         /\ \A enabled : PolishingState(s, enabled) \in Others(s)
         /\ Notification(s, "error", "failure") \in Others(s)
         /\ Notification(s, "preview", "text") \in Others(s)
         /\ Notification(s, "phase", "preparing") \in Others(s)
  <1>1. /\ {"completed", "results", "polishingState", "error", "preview", "phase"} \subseteq Methods
        /\ {"none", "streaming", "final", "transcript", "failure", "text", "preparing",
            "on", "off"} \subseteq NoteValues
        /\ Choices \subseteq NoteValues
    BY DEF Methods, NoteValues, Choices, Phases
  <1>2. ASSUME NEW choice \in Choices
        PROVE  Notification(s, "completed", choice) \in Others(s)
    BY <1>1, OtherNotes
  <1>3. ASSUME NEW shown \in {"none", "streaming", "final", "transcript"}
        PROVE  Results(s, shown) \in Others(s)
    BY <1>1, OtherNotes DEF Results
  <1>4. ASSUME NEW enabled
        PROVE  PolishingState(s, enabled) \in Others(s)
    BY <1>1, OtherNotes DEF PolishingState
  <1>5. /\ Notification(s, "error", "failure") \in Others(s)
        /\ Notification(s, "preview", "text") \in Others(s)
        /\ Notification(s, "phase", "preparing") \in Others(s)
    BY <1>1, OtherNotes
  <1> QED
    BY <1>2, <1>3, <1>4, <1>5

LEMMA FewNotes ==
  ASSUME NEW S, NEW n \in S
  PROVE  /\ <<n>> \in Seq(S) /\ Append(<<>>, n) \in Seq(S)
         /\ \A m \in S : Append(<<m>>, n) \in Seq(S) /\ <<m, n>> \in Seq(S)
  OBVIOUS

\* "recording" is announced by the capture.start() that resolves in time.
LEMMA WhoAnnouncesRecording ==
  ASSUME TypeOK, NEW s \in Sessions, SessionStep(s)
  PROVE  \/ outbox' \in Seq(Others(s))
         \/ CaptureStarted(s) /\ ses[s].fail = "none" /\ isCurrent(s) /\ state = "starting"
  <1> <<>> \in Seq(Others(s))
    OBVIOUS
  <1>1. CASE ClientStep(s)
    <2>1. CASE Start(s)
      <3>1. PICK policy \in Policies :
              outbox' = <<Notification(s, "phase", "preparing"),
                          PolishingState(s, Marker(policy, "auto"))>>
        BY <2>1 DEF Start
      <3>2. /\ Notification(s, "phase", "preparing") \in Others(s)
            /\ PolishingState(s, Marker(policy, "auto")) \in Others(s)
        BY NotesInOthers
      <3> QED
        BY <3>1, <3>2, FewNotes
    <2>2. CASE \E enabled \in Toggles : SetPolishingEnabled(s, enabled)
      <3>1. PICK policy, mode :
              outbox' = <<>> \/ outbox' = <<PolishingState(s, Marker(policy, mode))>>
        BY <2>2 DEF SetPolishingEnabled
      <3>2. PolishingState(s, Marker(policy, mode)) \in Others(s)
        BY NotesInOthers
      <3> QED
        BY <3>1, <3>2, FewNotes
    <2>3. CASE Finish(s) \/ Cancel(s)
      BY <2>3 DEF Finish, Cancel, Quietly
    <2>4. CASE \E choice \in Choices : SelectResult(s, choice)
      <3>1. PICK choice \in Choices :
              outbox' = Append(<<>>, Notification(s, "completed", choice))
        BY <2>4 DEF SelectResult, Complete, Settle
      <3>2. Notification(s, "completed", choice) \in Others(s)
        BY NotesInOthers
      <3> QED
        BY <3>1, <3>2, FewNotes
    <2> QED
      BY <1>1, <2>1, <2>2, <2>3, <2>4 DEF ClientStep
  <1>2. CASE CancelSettles(s) \/ FailSettles(s)
    <2>1. outbox' = <<>> \/ outbox' = <<Notification(s, "error", "failure")>>
      <3>1. CASE CancelSettles(s)
        BY <3>1 DEF CancelSettles, Settle, Quietly
      <3>2. CASE FailSettles(s)
        BY <3>2 DEF FailSettles, Settle, Quietly
      <3> QED
        BY <1>2, <3>1, <3>2
    <2>2. Notification(s, "error", "failure") \in Others(s)
      BY NotesInOthers
    <2> QED
      BY <2>1, <2>2, FewNotes
  <1>3. CASE StartStep(s)
    <2>1. CASE CaptureStarted(s)
      <3> DEFINE capture == IF ses[s].aborted THEN "closed" ELSE "open"
      <3>1. [ses[s] EXCEPT !.capture = capture].fail = ses[s].fail
        BY DEF TypeOK, ActiveSession
      <3>2. \/ outbox' = <<>>
            \/ /\ [ses[s] EXCEPT !.capture = capture].fail = "none"
               /\ isCurrent(s) /\ state = "starting"
        BY <2>1 DEF CaptureStarted, Quietly
      <3> QED
        BY <2>1, <3>1, <3>2
    <2> QED
      BY <1>3, <2>1 DEF StartStep, AsrCreated, AsrStarted, StartAsrFails,
         CaptureStartFails, StartThrows, Fail, Quietly
  <1>4. CASE FinishStep(s)
    <2>1. ASSUME Drained(s)
          PROVE  outbox' \in Seq(Others(s))
      <3>1. "recognizing" \in Phases \ {"recording"}
        BY DEF Phases
      <3> QED
        BY <2>1, <3>1, EnterOthers DEF Drained, Quietly
    <2> QED
      BY <1>4, <2>1 DEF FinishStep, CaptureStopped, CaptureStopFails,
         AsrFinished, AsrFinishFails, FinishThrows, Fail, Quietly
  <1>5. CASE AudioStep(s) \/ RecordingTimeout(s)
    BY <1>5 DEF AudioStep, FrameArrives, FrameWritten, FrameWriteFails, AudioEnds,
       AudioThrows, AudioPumpFailed, RecordingTimeout, Fail, Quietly
  <1>6. CASE AsrStep(s)
    <2>1. "processing" \in Phases \ {"recording"}
      BY DEF Phases
    <2>2. Notification(s, "preview", "text") \in Others(s)
      BY NotesInOthers
    <2>3. \/ outbox' = <<>> \/ outbox' = <<Notification(s, "preview", "text")>>
          \/ \E b : Enter(s, b, "processing", <<>>)
      BY <1>6 DEF AsrStep, AsrPreview, StaleAsrEvent, AsrCompleted, AsrFails, Fail, Quietly
    <2> QED
      BY <2>1, <2>2, <2>3, EnterOthers, FewNotes
  <1>7. CASE TranscriptProcessed(s)
    <2>1. "polishing" \in Phases \ {"recording"} /\ "transcript" \in Choices
      BY DEF Phases, Choices
    <2>2. PICK shown \in {"none", "transcript"} :
            \/ outbox' = <<>> \/ outbox' = <<Results(s, shown)>>
            \/ \E b : Enter(s, b, "polishing", <<Results(s, shown)>>)
            \/ outbox' = Append(<<Results(s, shown)>>, Notification(s, "completed", "transcript"))
      BY <1>7 DEF TranscriptProcessed, Quietly, Complete, Settle
    <2>3. /\ Results(s, shown) \in Others(s)
          /\ Notification(s, "completed", "transcript") \in Others(s)
      BY <2>1, NotesInOthers
    <2>4. /\ <<Results(s, shown)>> \in Seq(Others(s))
          /\ Append(<<Results(s, shown)>>, Notification(s, "completed", "transcript"))
               \in Seq(Others(s))
      BY <2>3, FewNotes
    <2>5. ASSUME NEW b, Enter(s, b, "polishing", <<Results(s, shown)>>)
          PROVE  outbox' \in Seq(Others(s))
      BY <2>1, <2>4, <2>5, EnterOthers
    <2> QED
      BY <2>2, <2>4, <2>5
  <1>8. CASE TextStep(s) /\ ~TranscriptProcessed(s)
    <2>1. "choosing" \in Phases \ {"recording"}
      BY DEF Phases
    <2>2. \A shown \in {"none", "streaming", "final", "transcript"} :
            <<Results(s, shown)>> \in Seq(Others(s))
      BY NotesInOthers, FewNotes
    <2>3. ASSUME NEW a, PolishFallback(s, a)
          PROVE  outbox' \in Seq(Others(s))
      BY <2>1, <2>2, <2>3, EnterOthers DEF PolishFallback, Quietly
    <2> QED
      BY <1>8, <2>1, <2>2, <2>3, EnterOthers
      DEF TextStep, ProcessingFails, PolishDelta, PolishCompleted, PolishUnavailable,
          PolishThrows, PolishValidated, PolishedEmpty, Fail, Quietly
  <1> QED
    BY <1>1, <1>2, <1>3, <1>4, <1>5, <1>6, <1>7, <1>8 DEF SessionStep

\* The client is told "recording" when the recogniser and the microphone are open,
\* whatever happened to the session while they were being opened.
THEOREM ReadyCorrect == Spec => RecordingMeansReady
  <1> DEFINE Ready ==
        \A i \in DOMAIN outbox' :
          LET s == outbox'[i].session IN
          outbox'[i] = Notification(s, "phase", "recording") =>
            ses'[s].asr = "open" /\ ses'[s].capture = "open"
  <1>1. ASSUME Inv, ResourceInv, [Next]_vars
        PROVE  [Ready]_vars
    <2>1. ASSUME NEW s \in Sessions, SessionStep(s)
          PROVE  Ready
      <3> DEFINE a == ses[s]
      <3> TypeOK /\ a \in ActiveSession
        BY <1>1 DEF Inv, TypeOK
      <3>1. CASE outbox' \in Seq(Others(s))
        <4>1. ASSUME NEW i \in DOMAIN outbox'
              PROVE  outbox'[i] # Notification(outbox'[i].session, "phase", "recording")
          <5>1. outbox'[i] \in Others(s)
            BY <3>1, <4>1
          <5>2. outbox'[i].session = s
            BY <5>1 DEF Others, NotesOf
          <5> QED
            BY <5>1, <5>2 DEF Others
        <4> QED
          BY <4>1
      <3>2. CASE CaptureStarted(s) /\ a.fail = "none" /\ isCurrent(s) /\ state = "starting"
        <4> DEFINE capture == IF a.aborted THEN "closed" ELSE "open"
                   opened == [a EXCEPT !.capture = capture]
                   recording == [opened EXCEPT !.start = "returned", !.timer = TRUE,
                                               !.pump = "reading"]
                   b == [recording EXCEPT !.phase = "recording"]
        <4>1. a.start = "capStarting" /\ opened.fail = a.fail
          BY <3>2 DEF CaptureStarted, ActiveSession
        <4>2. Enter(s, recording, "recording", <<>>)
          BY <3>2, <4>1 DEF CaptureStarted
        <4>3. Whole(a, active = s, state)
          BY <1>1 DEF ResourceInv, WholeNow
        <4>4. a.asr = "open" /\ ~a.aborted
          BY <3>2, <4>1, <4>3 DEF Whole, Placed, Interrupted, isCurrent
        <4>5. b.asr = "open" /\ b.capture = "open"
          BY <4>4 DEF ActiveSession
        <4>6. ses'[s] = b /\ outbox' = <<Notification(s, "phase", "recording")>>
          BY <4>2 DEF Enter, TypeOK
        <4> HIDE DEF b
        <4>7. ASSUME NEW i \in DOMAIN outbox'
              PROVE  outbox'[i].session = s
          BY <4>6 DEF Notification
        <4> QED
          BY <4>5, <4>6, <4>7
      <3> QED
        BY <2>1, <3>1, <3>2, WhoAnnouncesRecording
    <2>2. CASE OtherAcquires \/ OtherReleases
      BY <2>2 DEF OtherAcquires, OtherReleases
    <2> QED
      BY <1>1, <2>1, <2>2 DEF Next
  <1> QED
    BY <1>1, Invariance, ResourceInvariance, PTL DEF Spec, RecordingMeansReady

===============================================================================
