------------------------- MODULE SessionServiceProofs -------------------------
(***************************************************************************)
(* SessionCoordinator implements SessionService, the interface its RPC     *)
(* connection is built on.  An operation of the coordinator is a step of   *)
(* the service that is read off the record it leaves (Served), and what    *)
(* the guards of that step ask for is where the session stands: which      *)
(* phase its state goes with, and which calls may still be pending then    *)
(* (Located).                                                              *)
(***************************************************************************)
EXTENDS SessionResourceProofs, SequenceTheorems

\* Record a, of a session that is active or not, when the coordinator is in state st.
Located(a, live, st) ==
  live =>
    /\ a.cancel # "done" /\ a.fail # "done"
    /\ st = "starting" => a.phase = "preparing"
    /\ st = "finishing" => a.phase = "recording"
    /\ st \in Phases => a.phase = st
    /\ st \in {"starting", "recording"} => a.finish \in {"none", "rejected"}
    /\ a.finish = "asrFinishing" => st # "finishing"
    /\ a.events = "processing" => a.phase = "processing"

LocatedNow(s) == Located(ses[s], active = s, state)

ServiceInv == \A s \in Sessions : LocatedNow(s)

\* What the service shows of a session with record a.
Shown(start, finish, cancel, failing, phase, offered) ==
  [ start |-> start, finish |-> finish, cancel |-> cancel, failing |-> failing,
    phase |-> phase, offered |-> offered ]

Failing(a, live) == live /\ a.fail = "waiting"

Served(a, live) ==
  Shown(StartCall(a), FinishCall(a), CancelCall(a), Failing(a, live), a.phase, a.offered)

SameStart(a, b) == StartCall(b) = StartCall(a)
SameFinish(a, b) == FinishCall(b) = FinishCall(a)
SameCancel(a, b) == CancelCall(b) = CancelCall(a)
SamePhase(a, b) == b.phase = a.phase
SameOffer(a, b) == b.offered = a.offered

\* From record a to record b only the promises of start() and finish() may settle.
Still(a, b, live) ==
  /\ SamePhase(a, b) /\ SameOffer(a, b) /\ b.cancel = a.cancel
  /\ live => b.fail = a.fail
  /\ b.events = "processing" => a.events = "processing"

Unfinished(a, b) ==
  SameFinish(a, b) /\ (b.finish = "asrFinishing" => a.finish = "asrFinishing")

\* From record a to record b nothing changes that the service shows.
Alike(a, b, live) == SameStart(a, b) /\ Unfinished(a, b) /\ Still(a, b, live)

\* The reasons for which a promise may be rejected.
Doomed(s) == active # s \/ ses[s].fail = "waiting" \/ ses[s].cancel = "waiting"

services == [s \in Sessions |-> Serves(s)]

ServiceStep == Service!Next \/ UNCHANGED Service!vars

-------------------------------------------------------------------------------
(***************************************************************************)
(* What the service shows changes with one record.                         *)
(***************************************************************************)
LEMMA ServesServed ==
  ASSUME NEW s
  PROVE  Serves(s) = Served(ses[s], active = s)
  BY DEF Serves, Served, Shown, Failing, isCurrent

LEMMA ActiveServed ==
  ASSUME NEW s \in Sessions, active = s
  PROVE  services[s] = Served(ses[s], TRUE)
  <1>1. (active = s) = TRUE
    OBVIOUS
  <1> QED
    BY <1>1, ServesServed DEF services

LEMMA ServedFields ==
  ASSUME NEW a, NEW live
  PROVE  LET r == Served(a, live) IN
         /\ r.start = StartCall(a) /\ r.finish = FinishCall(a) /\ r.cancel = CancelCall(a)
         /\ r.phase = a.phase /\ r.offered = a.offered
         /\ r.failing <=> Failing(a, live)
  <1>1. PICK st, fi, ca, fa, ph, of :
          /\ st = StartCall(a) /\ fi = FinishCall(a) /\ ca = CancelCall(a)
          /\ fa = Failing(a, live) /\ ph = a.phase /\ of = a.offered
    OBVIOUS
  <1>2. Served(a, live) = Shown(st, fi, ca, fa, ph, of)
    BY <1>1 DEF Served
  <1>3. LET r == Shown(st, fi, ca, fa, ph, of) IN
        /\ r.start = st /\ r.finish = fi /\ r.cancel = ca /\ r.failing = fa
        /\ r.phase = ph /\ r.offered = of
    BY DEF Shown
  <1> QED
    BY <1>1, <1>2, <1>3, Zenon

\* What is shown of two records that agree on a failure.
LEMMA ServedPair ==
  ASSUME NEW a, NEW b, NEW live, Failing(b, live) = Failing(a, live)
  PROVE  \E st, fi, ca, ph, of, st2, fi2, ca2, ph2, of2, fa :
           /\ st = StartCall(a) /\ fi = FinishCall(a) /\ ca = CancelCall(a)
           /\ ph = a.phase /\ of = a.offered
           /\ st2 = StartCall(b) /\ fi2 = FinishCall(b) /\ ca2 = CancelCall(b)
           /\ ph2 = b.phase /\ of2 = b.offered
           /\ Served(a, live) = Shown(st, fi, ca, fa, ph, of)
           /\ Served(b, live) = Shown(st2, fi2, ca2, fa, ph2, of2)
  <1> WITNESS StartCall(a), FinishCall(a), CancelCall(a), a.phase, a.offered,
              StartCall(b), FinishCall(b), CancelCall(b), b.phase, b.offered,
              Failing(a, live)
  <1> QED
    BY Zenon DEF Served

\* One field of what is shown changes, or two, or none.
LEMMA ServedStart ==
  ASSUME NEW a, NEW b, NEW live, Failing(b, live) = Failing(a, live),
         SameFinish(a, b), SameCancel(a, b), SamePhase(a, b), SameOffer(a, b)
  PROVE  Served(b, live) = [Served(a, live) EXCEPT !.start = StartCall(b)]
  <1>1. PICK st, fi, ca, ph, of, st2, fi2, ca2, ph2, of2, fa :
           /\ st = StartCall(a) /\ fi = FinishCall(a) /\ ca = CancelCall(a)
           /\ ph = a.phase /\ of = a.offered
           /\ st2 = StartCall(b) /\ fi2 = FinishCall(b) /\ ca2 = CancelCall(b)
           /\ ph2 = b.phase /\ of2 = b.offered
           /\ Served(a, live) = Shown(st, fi, ca, fa, ph, of)
           /\ Served(b, live) = Shown(st2, fi2, ca2, fa, ph2, of2)
    BY ServedPair
  <1>2. [Shown(st, fi, ca, fa, ph, of) EXCEPT !.start = st2]
          = Shown(st2, fi, ca, fa, ph, of)
    BY DEF Shown
  <1> QED
    BY <1>1, <1>2, Zenon DEF SameFinish, SameCancel, SamePhase, SameOffer

LEMMA ServedRecord ==
  ASSUME NEW a, NEW b, NEW live, Failing(b, live) = Failing(a, live),
         SameFinish(a, b), SameCancel(a, b), SameOffer(a, b)
  PROVE  Served(b, live) = [Served(a, live) EXCEPT !.start = StartCall(b), !.phase = b.phase]
  <1>1. PICK st, fi, ca, ph, of, st2, fi2, ca2, ph2, of2, fa :
           /\ st = StartCall(a) /\ fi = FinishCall(a) /\ ca = CancelCall(a)
           /\ ph = a.phase /\ of = a.offered
           /\ st2 = StartCall(b) /\ fi2 = FinishCall(b) /\ ca2 = CancelCall(b)
           /\ ph2 = b.phase /\ of2 = b.offered
           /\ Served(a, live) = Shown(st, fi, ca, fa, ph, of)
           /\ Served(b, live) = Shown(st2, fi2, ca2, fa, ph2, of2)
    BY ServedPair
  <1>2. [Shown(st, fi, ca, fa, ph, of) EXCEPT !.start = st2]
          = Shown(st2, fi, ca, fa, ph, of)
    BY DEF Shown
  <1>3. [Shown(st2, fi, ca, fa, ph, of) EXCEPT !.phase = ph2]
          = Shown(st2, fi, ca, fa, ph2, of)
    BY DEF Shown
  <1> QED
    BY <1>1, <1>2, <1>3, Zenon DEF SameFinish, SameCancel, SameOffer

LEMMA ServedFinish ==
  ASSUME NEW a, NEW b, NEW live, Failing(b, live) = Failing(a, live),
         SameStart(a, b), SameCancel(a, b), SamePhase(a, b), SameOffer(a, b)
  PROVE  Served(b, live) = [Served(a, live) EXCEPT !.finish = FinishCall(b)]
  <1>1. PICK st, fi, ca, ph, of, st2, fi2, ca2, ph2, of2, fa :
           /\ st = StartCall(a) /\ fi = FinishCall(a) /\ ca = CancelCall(a)
           /\ ph = a.phase /\ of = a.offered
           /\ st2 = StartCall(b) /\ fi2 = FinishCall(b) /\ ca2 = CancelCall(b)
           /\ ph2 = b.phase /\ of2 = b.offered
           /\ Served(a, live) = Shown(st, fi, ca, fa, ph, of)
           /\ Served(b, live) = Shown(st2, fi2, ca2, fa, ph2, of2)
    BY ServedPair
  <1>2. [Shown(st, fi, ca, fa, ph, of) EXCEPT !.finish = fi2]
          = Shown(st, fi2, ca, fa, ph, of)
    BY DEF Shown
  <1> QED
    BY <1>1, <1>2, Zenon DEF SameStart, SameCancel, SamePhase, SameOffer

LEMMA ServedCancel ==
  ASSUME NEW a, NEW b, NEW live, Failing(b, live) = Failing(a, live),
         SameStart(a, b), SameFinish(a, b), SamePhase(a, b), SameOffer(a, b)
  PROVE  Served(b, live) = [Served(a, live) EXCEPT !.cancel = CancelCall(b)]
  <1>1. PICK st, fi, ca, ph, of, st2, fi2, ca2, ph2, of2, fa :
           /\ st = StartCall(a) /\ fi = FinishCall(a) /\ ca = CancelCall(a)
           /\ ph = a.phase /\ of = a.offered
           /\ st2 = StartCall(b) /\ fi2 = FinishCall(b) /\ ca2 = CancelCall(b)
           /\ ph2 = b.phase /\ of2 = b.offered
           /\ Served(a, live) = Shown(st, fi, ca, fa, ph, of)
           /\ Served(b, live) = Shown(st2, fi2, ca2, fa, ph2, of2)
    BY ServedPair
  <1>2. [Shown(st, fi, ca, fa, ph, of) EXCEPT !.cancel = ca2]
          = Shown(st, fi, ca2, fa, ph, of)
    BY DEF Shown
  <1> QED
    BY <1>1, <1>2, Zenon DEF SameStart, SameFinish, SamePhase, SameOffer

LEMMA ServedPhase ==
  ASSUME NEW a, NEW b, NEW live, Failing(b, live) = Failing(a, live),
         SameStart(a, b), SameFinish(a, b), SameCancel(a, b), SameOffer(a, b)
  PROVE  Served(b, live) = [Served(a, live) EXCEPT !.phase = b.phase]
  <1>1. PICK st, fi, ca, ph, of, st2, fi2, ca2, ph2, of2, fa :
           /\ st = StartCall(a) /\ fi = FinishCall(a) /\ ca = CancelCall(a)
           /\ ph = a.phase /\ of = a.offered
           /\ st2 = StartCall(b) /\ fi2 = FinishCall(b) /\ ca2 = CancelCall(b)
           /\ ph2 = b.phase /\ of2 = b.offered
           /\ Served(a, live) = Shown(st, fi, ca, fa, ph, of)
           /\ Served(b, live) = Shown(st2, fi2, ca2, fa, ph2, of2)
    BY ServedPair
  <1>2. [Shown(st, fi, ca, fa, ph, of) EXCEPT !.phase = ph2]
          = Shown(st, fi, ca, fa, ph2, of)
    BY DEF Shown
  <1> QED
    BY <1>1, <1>2, Zenon DEF SameStart, SameFinish, SameCancel, SameOffer

LEMMA ServedOffer ==
  ASSUME NEW a, NEW b, NEW live, Failing(b, live) = Failing(a, live),
         SameStart(a, b), SameFinish(a, b), SameCancel(a, b), SamePhase(a, b)
  PROVE  Served(b, live) = [Served(a, live) EXCEPT !.offered = b.offered]
  <1>1. PICK st, fi, ca, ph, of, st2, fi2, ca2, ph2, of2, fa :
           /\ st = StartCall(a) /\ fi = FinishCall(a) /\ ca = CancelCall(a)
           /\ ph = a.phase /\ of = a.offered
           /\ st2 = StartCall(b) /\ fi2 = FinishCall(b) /\ ca2 = CancelCall(b)
           /\ ph2 = b.phase /\ of2 = b.offered
           /\ Served(a, live) = Shown(st, fi, ca, fa, ph, of)
           /\ Served(b, live) = Shown(st2, fi2, ca2, fa, ph2, of2)
    BY ServedPair
  <1>2. [Shown(st, fi, ca, fa, ph, of) EXCEPT !.offered = of2]
          = Shown(st, fi, ca, fa, ph, of2)
    BY DEF Shown
  <1> QED
    BY <1>1, <1>2, Zenon DEF SameStart, SameFinish, SameCancel, SamePhase

LEMMA ServedChoice ==
  ASSUME NEW a, NEW b, NEW live, Failing(b, live) = Failing(a, live),
         SameStart(a, b), SameFinish(a, b), SameCancel(a, b)
  PROVE  Served(b, live) = [Served(a, live) EXCEPT !.phase = b.phase, !.offered = b.offered]
  <1>1. PICK st, fi, ca, ph, of, st2, fi2, ca2, ph2, of2, fa :
           /\ st = StartCall(a) /\ fi = FinishCall(a) /\ ca = CancelCall(a)
           /\ ph = a.phase /\ of = a.offered
           /\ st2 = StartCall(b) /\ fi2 = FinishCall(b) /\ ca2 = CancelCall(b)
           /\ ph2 = b.phase /\ of2 = b.offered
           /\ Served(a, live) = Shown(st, fi, ca, fa, ph, of)
           /\ Served(b, live) = Shown(st2, fi2, ca2, fa, ph2, of2)
    BY ServedPair
  <1>2. [Shown(st, fi, ca, fa, ph, of) EXCEPT !.phase = ph2]
          = Shown(st, fi, ca, fa, ph2, of)
    BY DEF Shown
  <1>3. [Shown(st, fi, ca, fa, ph2, of) EXCEPT !.offered = of2]
          = Shown(st, fi, ca, fa, ph2, of2)
    BY DEF Shown
  <1> QED
    BY <1>1, <1>2, <1>3, Zenon DEF SameStart, SameFinish, SameCancel

LEMMA ServedDelivery ==
  ASSUME NEW a, NEW b, NEW live, Failing(b, live) = Failing(a, live),
         SameStart(a, b), SameFinish(a, b), SameCancel(a, b)
  PROVE  Served(b, live) = [Served(a, live) EXCEPT !.offered = b.offered, !.phase = b.phase]
  <1>1. PICK st, fi, ca, ph, of, st2, fi2, ca2, ph2, of2, fa :
           /\ st = StartCall(a) /\ fi = FinishCall(a) /\ ca = CancelCall(a)
           /\ ph = a.phase /\ of = a.offered
           /\ st2 = StartCall(b) /\ fi2 = FinishCall(b) /\ ca2 = CancelCall(b)
           /\ ph2 = b.phase /\ of2 = b.offered
           /\ Served(a, live) = Shown(st, fi, ca, fa, ph, of)
           /\ Served(b, live) = Shown(st2, fi2, ca2, fa, ph2, of2)
    BY ServedPair
  <1>2. [Shown(st, fi, ca, fa, ph, of) EXCEPT !.offered = of2]
          = Shown(st, fi, ca, fa, ph, of2)
    BY DEF Shown
  <1>3. [Shown(st, fi, ca, fa, ph, of2) EXCEPT !.phase = ph2]
          = Shown(st, fi, ca, fa, ph2, of2)
    BY DEF Shown
  <1> QED
    BY <1>1, <1>2, <1>3, Zenon DEF SameStart, SameFinish, SameCancel

LEMMA ServedSame ==
  ASSUME NEW a, NEW b, NEW live, Failing(b, live) = Failing(a, live),
         SameStart(a, b), SameFinish(a, b), SameCancel(a, b), SamePhase(a, b), SameOffer(a, b)
  PROVE  Served(b, live) = Served(a, live)
  BY Zenon DEF Served, SameStart, SameFinish, SameCancel, SamePhase, SameOffer

\* A recorded failure, and the settlement that takes it away.
LEMMA ServedFailing ==
  ASSUME NEW a, NEW b, SameStart(a, b), SameFinish(a, b), SameCancel(a, b), SamePhase(a, b),
         SameOffer(a, b)
  PROVE  /\ b.fail = "waiting" => Served(b, TRUE) = [Served(a, TRUE) EXCEPT !.failing = TRUE]
         /\ Served(b, FALSE) = [Served(a, TRUE) EXCEPT !.failing = FALSE]
  <1>1. PICK st, fi, ca, fa, ph, of :
          /\ st = StartCall(a) /\ fi = FinishCall(a) /\ ca = CancelCall(a)
          /\ fa = Failing(a, TRUE) /\ ph = a.phase /\ of = a.offered
    OBVIOUS
  <1>2. Served(a, TRUE) = Shown(st, fi, ca, fa, ph, of)
    BY <1>1 DEF Served
  <1>3. ASSUME NEW live
        PROVE  Served(b, live) = Shown(st, fi, ca, Failing(b, live), ph, of)
    BY <1>1, Zenon DEF Served, SameStart, SameFinish, SameCancel, SameOffer, SamePhase
  <1>4. /\ b.fail = "waiting" => Failing(b, TRUE) = TRUE
        /\ Failing(b, FALSE) = FALSE
    BY DEF Failing
  <1>5. \A yes : [Shown(st, fi, ca, fa, ph, of) EXCEPT !.failing = yes]
                  = Shown(st, fi, ca, yes, ph, of)
    BY DEF Shown
  <1>6. b.fail = "waiting" => Served(b, TRUE) = [Served(a, TRUE) EXCEPT !.failing = TRUE]
    BY <1>2, <1>3, <1>4, <1>5, Zenon
  <1>7. Served(b, FALSE) = [Served(a, TRUE) EXCEPT !.failing = FALSE]
    BY <1>2, <1>3, <1>4, <1>5, Zenon
  <1> QED
    BY <1>6, <1>7, Zenon

\* What the guards of the service see.
LEMMA ServiceFields ==
  ASSUME NEW s \in Sessions
  PROVE  /\ services[s].start = StartCall(ses[s]) /\ services[s].finish = FinishCall(ses[s])
         /\ services[s].cancel = CancelCall(ses[s]) /\ services[s].phase = ses[s].phase
         /\ services[s].offered = ses[s].offered
         /\ services[s].failing <=> (active = s /\ ses[s].fail = "waiting")
  <1>1. PICK now : now = (active = s)
    OBVIOUS
  <1>2. services[s] = Served(ses[s], now)
    BY <1>1, ServesServed DEF services
  <1>3. Failing(ses[s], now) <=> (active = s /\ ses[s].fail = "waiting")
    BY <1>1 DEF Failing
  <1> DEFINE r == Served(ses[s], now)
  <1>4. /\ r.start = StartCall(ses[s]) /\ r.finish = FinishCall(ses[s])
        /\ r.cancel = CancelCall(ses[s])
        /\ r.phase = ses[s].phase /\ r.offered = ses[s].offered
        /\ r.failing <=> Failing(ses[s], now)
    BY ServedFields, Zenon
  <1> HIDE DEF r
  <1> QED
    BY <1>2, <1>3, <1>4, Zenon DEF r

LEMMA ServicesChange ==
  ASSUME TypeOK, NEW s \in Sessions, NEW b, ses' = [ses EXCEPT ![s] = b],
         \A t \in Sessions \ {s} : active' = t <=> active = t
  PROVE  services' = [services EXCEPT ![s] = Served(b, active' = s)]
  <1>1. /\ ses'[s] = b
        /\ \A t \in Sessions \ {s} : ses'[t] = ses[t]
    BY DEF TypeOK
  <1>2. ASSUME NEW t \in Sessions
        PROVE  Serves(t)' = IF t = s THEN Served(b, active' = s) ELSE Serves(t)
    <2>1. CASE t = s
      BY <1>1, <2>1 DEF Serves, Served, Shown, Failing, isCurrent
    <2>2. CASE t # s
      <3>1. ses'[t] = ses[t] /\ (active' = t) = (active = t)
        BY <1>1, <2>2
      <3> QED
        BY <2>2, <3>1 DEF Serves, isCurrent
    <2> QED
      BY <2>1, <2>2
  <1> QED
    BY <1>2 DEF services

LEMMA AlikeLocated ==
  ASSUME NEW a, NEW b, NEW live, NEW st, Alike(a, b, live), Located(a, live, st)
  PROVE  Located(b, live, st)
  BY DEF Alike, Unfinished, Still, Located, SameFinish, FinishCall, SamePhase

LEMMA QuietlyServes ==
  ASSUME TypeOK, NEW s \in Sessions, LocatedNow(s), NEW b, Alike(ses[s], b, active = s),
         Quietly(s, b)
  PROVE  ServiceStep /\ LocatedNow(s)'
  <1>1. ses'[s] = b /\ ses' = [ses EXCEPT ![s] = b] /\ UNCHANGED coord /\ outbox' = <<>>
    BY DEF Quietly, TypeOK
  <1>2. LocatedNow(s)'
    BY <1>1, AlikeLocated DEF LocatedNow, coord
  <1>3. services' = [services EXCEPT ![s] = Served(b, active = s)]
    BY <1>1, ServicesChange DEF coord
  <1>4. Served(b, active = s) = services[s]
    <2>1. SameCancel(ses[s], b)
      BY DEF Alike, Still, SameCancel, CancelCall
    <2>2. Failing(b, active = s) = Failing(ses[s], active = s)
      BY DEF Alike, Still, Failing
    <2>3. Served(b, active = s) = Served(ses[s], active = s)
      BY <2>1, <2>2, ServedSame DEF Alike, Unfinished, Still
    <2> QED
      BY <2>3, ServesServed DEF services
  <1>5. services' = services
    BY <1>3, <1>4 DEF services
  <1>6. Service!Quiet
    BY <1>1, <1>5 DEF Service!Quiet, Service!book, services, coord
  <1> QED
    BY <1>2, <1>6 DEF ServiceStep, Service!Next

\* The active session becomes what is shown as r.
LEMMA BecomesBy ==
  ASSUME TypeOK, NEW s \in Sessions, active = s, NEW b, ses' = [ses EXCEPT ![s] = b],
         UNCHANGED <<active, lastSettled, gate>>, NEW events, outbox' = events,
         NEW r, r = Served(b, TRUE)
  PROVE  Service!Becomes(s, r, events)
  <1>1. services' = [services EXCEPT ![s] = Served(b, active' = s)]
    BY ServicesChange
  <1>2. (active' = s) = TRUE
    OBVIOUS
  <1>3. services' = [services EXCEPT ![s] = r]
    BY <1>1, <1>2
  <1> QED
    BY <1>3 DEF Service!Becomes, Service!book, services

\* The active session is settled: what is shown of it, before or after the call that
\* settles it returns, is r.
LEMMA SettleBy ==
  ASSUME Inv, NEW s \in Sessions, active = s, NEW a \in ActiveSession, NEW outcome,
         NEW events, Settle(s, a, outcome, events), NEW old, SameStart(old, a),
         SameFinish(old, a), SameCancel(old, a), SamePhase(old, a), SameOffer(old, a),
         NEW r, r = Served(old, TRUE)
  PROVE  Service!Settle(s, r, events) /\ LocatedNow(s)'
  <1> DEFINE b == [a EXCEPT !.timer = FALSE, !.outcome = outcome]
  <1>1. /\ ses' = [ses EXCEPT ![s] = b] /\ outbox' = events
        /\ lastSettled' = s /\ active' = None /\ gate' = "none"
    BY NoneIsNoSession DEF Settle, Inv, GateFollowsSession
  <1>2. /\ SameStart(old, b) /\ SameFinish(old, b) /\ SameCancel(old, b)
        /\ SamePhase(old, b) /\ SameOffer(old, b)
    BY DEF ActiveSession, SameStart, SameFinish, SameCancel, SamePhase, SameOffer, StartCall,
           FinishCall, CancelCall
  <1> HIDE DEF b
  <1>3. \A t \in Sessions : (active' = t) = FALSE
    BY <1>1, NoneIsNoSession
  <1>4. services' = [services EXCEPT ![s] = Served(b, FALSE)]
    <2>1. \A t \in Sessions \ {s} : active' = t <=> active = t
      BY <1>3
    <2>2. services' = [services EXCEPT ![s] = Served(b, active' = s)]
      BY <1>1, <2>1, ServicesChange DEF Inv
    <2> QED
      BY <1>3, <2>2
  <1>5. Served(b, FALSE) = [r EXCEPT !.failing = FALSE]
    BY <1>2, ServedFailing
  <1>6. Service!Settle(s, r, events)
    BY <1>1, <1>4, <1>5 DEF Service!Settle, services
  <1>7. LocatedNow(s)'
    BY <1>3 DEF LocatedNow, Located
  <1> QED
    BY <1>6, <1>7

\* A failure is recorded for the active session.
LEMMA FailBegins ==
  ASSUME TypeOK, NEW s \in Sessions, WholeNow(s), LocatedNow(s),
         NEW began \in ActiveSession, Alike(ses[s], began, active = s), CanFail(s),
         Quietly(s, [Interrupt(began) EXCEPT !.fail = "waiting"])
  PROVE  ServiceStep /\ LocatedNow(s)'
  <1> DEFINE a == ses[s]
             live == active = s
             b == [Interrupt(began) EXCEPT !.fail = "waiting"]
  <1>1. /\ b.start = began.start /\ b.fail = "waiting" /\ b.cancel = began.cancel
        /\ Kept(began, b)
    BY FailingFields
  <1>2. b.offered = began.offered
    <2>1. Interrupt(began) \in ActiveSession
      BY InterruptCarries DEF Carries
    <2>2. Interrupt(began).offered = began.offered
      BY <2>1 DEF Interrupt, ActiveSession
    <2> QED
      BY <2>1, <2>2 DEF ActiveSession
  <1>3. live /\ state # "cancelling" /\ a.fail = "none" /\ Quietly(s, b)
    BY DEF CanFail, isCurrent
  <1>4. a.cancel = "none"
    <2>1. Whole(a, live, state)
      BY DEF WholeNow
    <2> HIDE DEF a, live
    <2> QED
      BY <1>3, <2>1 DEF Whole, Interrupted
  <1> HIDE DEF b
  <1>5. LocatedNow(s)'
    <2>1. Located(b, live, state)
      BY <1>1, <1>3, <1>4 DEF LocatedNow, Located, Alike, Unfinished, Still, Kept, SameFinish, FinishCall, SamePhase
    <2> QED
      BY <1>3, <2>1 DEF Quietly, LocatedNow, TypeOK, coord
  <1>6. services[s] = Served(a, TRUE)
    BY <1>3, ActiveServed
  <1>7. /\ SameStart(a, b) /\ SameFinish(a, b) /\ SameCancel(a, b) /\ SamePhase(a, b)
        /\ SameOffer(a, b)
    BY <1>1, <1>2, <1>3 DEF Alike, Unfinished, Still, Kept, SameStart, SameFinish, SameCancel, SamePhase,
       SameOffer, StartCall, FinishCall, CancelCall
  <1>8. [Served(a, TRUE) EXCEPT !.failing = TRUE] = Served(b, TRUE)
    BY <1>1, <1>7, ServedFailing
  <1>9. Service!Becomes(s, [services[s] EXCEPT !.failing = TRUE], <<>>)
    BY <1>3, <1>6, <1>8, BecomesBy DEF Quietly, coord
  <1>10. ~services[s].failing /\ services[s].cancel = "none"
    BY <1>3, <1>4, ServiceFields DEF CancelCall
  <1>11. Service!Fail(s)
    BY <1>9, <1>10 DEF Service!Fail, Service!Cancelling, services
  <1> QED
    BY <1>5, <1>11 DEF ServiceStep, Service!Next

LEMMA FailServes ==
  ASSUME TypeOK, NEW s \in Sessions, WholeNow(s), LocatedNow(s),
         NEW began \in ActiveSession, NEW skipped,
         Alike(ses[s], began, active = s), Alike(ses[s], skipped, active = s),
         Fail(s, began, skipped)
  PROVE  ServiceStep /\ LocatedNow(s)'
  <1>1. CASE CanFail(s)
    BY <1>1, FailBegins DEF Fail
  <1>2. CASE ~CanFail(s)
    BY <1>2, QuietlyServes DEF Fail
  <1> QED
    BY <1>1, <1>2

LEMMA CannotFail ==
  ASSUME TypeOK, NEW s \in Sessions, WholeNow(s), LocatedNow(s), ~CanFail(s)
  PROVE  Doomed(s)
  <1> DEFINE a == ses[s]
             live == active = s
  <1>1. Whole(a, live, state) /\ Located(a, live, state) /\ a \in ActiveSession
    BY DEF WholeNow, LocatedNow, TypeOK
  <1>2. live => a.fail # "none" \/ state = "cancelling"
    BY DEF CanFail, isCurrent
  <1>3. a.fail \in {"none", "waiting", "done"} /\ a.cancel \in {"none", "waiting", "done"}
    BY <1>1 DEF ActiveSession
  <1> HIDE DEF a, live
  <1>4. live => a.fail = "waiting" \/ a.cancel = "waiting"
    BY <1>1, <1>2, <1>3 DEF Whole, Interrupted, Located
  <1> QED
    BY <1>4 DEF Doomed, a, live

-------------------------------------------------------------------------------
(***************************************************************************)
(* The promises of start() and finish() settle.                            *)
(***************************************************************************)
LEMMA StartAnswers ==
  ASSUME TypeOK, NEW s \in Sessions, LocatedNow(s), NEW b, Quietly(s, b),
         StartCall(ses[s]) = "pending", Unfinished(ses[s], b), Still(ses[s], b, active = s),
         \/ b.start = "threw" /\ Doomed(s)
         \/ b.start = "returned" /\ active # s
  PROVE  ServiceStep /\ LocatedNow(s)'
  <1> DEFINE a == ses[s]
  <1>1. ses'[s] = b /\ ses' = [ses EXCEPT ![s] = b] /\ UNCHANGED coord /\ outbox' = <<>>
    BY DEF Quietly, TypeOK
  <1>2. LocatedNow(s)'
    BY <1>1 DEF LocatedNow, Located, Unfinished, Still, SameFinish, FinishCall, SamePhase, coord
  <1>3. PICK now : now = (active = s)
    OBVIOUS
  <1>4. services' = [services EXCEPT ![s] = Served(b, now)]
    BY <1>1, <1>3, ServicesChange DEF coord
  <1>5. services[s] = Served(a, now)
    BY <1>3, ServesServed DEF services
  <1>6. /\ Failing(b, now) = Failing(a, now)
        /\ SameFinish(a, b) /\ SameCancel(a, b) /\ SamePhase(a, b) /\ SameOffer(a, b)
    BY <1>3 DEF Unfinished, Still, Failing, SameCancel, CancelCall
  <1>7. StartCall(b) = b.start
    BY DEF StartCall
  <1>8. services' = [services EXCEPT ![s].start = b.start]
    <2> HIDE DEF a
    <2>1. Served(b, now) = [Served(a, now) EXCEPT !.start = StartCall(b)]
      BY <1>6, ServedStart
    <2> QED
      BY <1>4, <1>5, <1>7, <2>1, Zenon
  <1>9. services[s].start = "pending" /\ (Doomed(s) => Service!Doomed(s))
    BY ServiceFields DEF Doomed, Service!Doomed, Service!Cancelling, CancelCall, services
  <1>10. Service!StartSettles(s, "threw") \/ Service!StartSettles(s, "returned")
    BY <1>1, <1>8, <1>9 DEF Service!StartSettles, Service!book, coord, services
  <1>11. ServiceStep
    BY <1>10 DEF ServiceStep, Service!Next, Service!Promise
  <1> QED
    BY <1>2, <1>11

LEMMA FinishAnswers ==
  ASSUME TypeOK, NEW s \in Sessions, LocatedNow(s), NEW b, Quietly(s, b),
         FinishCall(ses[s]) = "pending", SameStart(ses[s], b), Still(ses[s], b, active = s),
         \/ b.finish \in {"resolved", "rejected"} /\ Doomed(s)
         \/ b.finish = "resolved" /\ ses[s].phase # "recording"
  PROVE  ServiceStep /\ LocatedNow(s)'
  <1> DEFINE a == ses[s]
  <1>1. ses'[s] = b /\ ses' = [ses EXCEPT ![s] = b] /\ UNCHANGED coord /\ outbox' = <<>>
    BY DEF Quietly, TypeOK
  <1>2. LocatedNow(s)'
    BY <1>1 DEF LocatedNow, Located, Still, FinishCall, SamePhase, coord
  <1>3. PICK now : now = (active = s)
    OBVIOUS
  <1>4. services' = [services EXCEPT ![s] = Served(b, now)]
    BY <1>1, <1>3, ServicesChange DEF coord
  <1>5. services[s] = Served(a, now)
    BY <1>3, ServesServed DEF services
  <1>6. /\ Failing(b, now) = Failing(a, now)
        /\ SameStart(a, b) /\ SameCancel(a, b) /\ SamePhase(a, b) /\ SameOffer(a, b)
    BY <1>3 DEF Still, Failing, SameCancel, CancelCall
  <1>7. FinishCall(b) = b.finish
    BY DEF FinishCall
  <1>8. services' = [services EXCEPT ![s].finish = b.finish]
    <2> HIDE DEF a
    <2>1. Served(b, now) = [Served(a, now) EXCEPT !.finish = FinishCall(b)]
      BY <1>6, ServedFinish
    <2> QED
      BY <1>4, <1>5, <1>7, <2>1, Zenon
  <1>9. /\ services[s].finish = "pending" /\ services[s].phase = a.phase
        /\ Doomed(s) => Service!Doomed(s)
    BY ServiceFields DEF Doomed, Service!Doomed, Service!Cancelling, CancelCall, services
  <1>10. Service!FinishSettles(s, "resolved") \/ Service!FinishSettles(s, "rejected")
    BY <1>1, <1>8, <1>9 DEF Service!FinishSettles, Service!book, coord, services
  <1>11. ServiceStep
    BY <1>10 DEF ServiceStep, Service!Next, Service!Promise
  <1> QED
    BY <1>2, <1>11

-------------------------------------------------------------------------------
(***************************************************************************)
(* The actions.                                                            *)
(***************************************************************************)
\* start() failed to open a backend: it fails the session, or rejects because
\* something else is about to end it.
LEMMA StartFailServes ==
  ASSUME Inv, NEW s \in Sessions, WholeNow(s), LocatedNow(s), NEW a \in ActiveSession,
         a.start \in {"creating", "asrStarting", "capStarting"},
         Alike(ses[s], a, active = s),
         Fail(s, [a EXCEPT !.start = "failing"], [a EXCEPT !.start = "threw"])
  PROVE  ServiceStep /\ LocatedNow(s)'
  <1> DEFINE old == ses[s]
             live == active = s
             b == [a EXCEPT !.start = "failing"]
             c == [a EXCEPT !.start = "threw"]
  <1> TypeOK
    BY DEF Inv
  <1>1. /\ b.start = "failing" /\ b.finish = a.finish /\ b.cancel = a.cancel
        /\ b.fail = a.fail /\ b.phase = a.phase /\ b.offered = a.offered
        /\ b.events = a.events /\ b \in ActiveSession
    BY DEF ActiveSession
  <1>2. /\ c.start = "threw" /\ c.finish = a.finish /\ c.cancel = a.cancel
        /\ c.fail = a.fail /\ c.phase = a.phase /\ c.offered = a.offered
        /\ c.events = a.events
    BY DEF ActiveSession
  <1>3. StartCall(a) = "pending" /\ StartCall(old) = "pending" /\ StartCall(b) = "pending"
    BY <1>1 DEF StartCall, Alike, SameStart
  <1> HIDE DEF b, c
  <1>4. CASE CanFail(s)
    <2>1. Alike(old, b, live)
      BY <1>1, <1>3 DEF Alike, Unfinished, Still, SameStart, SameFinish, FinishCall,
         SamePhase, SameOffer
    <2>2. Quietly(s, [Interrupt(b) EXCEPT !.fail = "waiting"])
      BY <1>4 DEF Fail, b
    <2> QED
      BY <1>1, <1>4, <2>1, <2>2, FailBegins
  <1>5. CASE ~CanFail(s)
    <2>1. Unfinished(old, c) /\ Still(old, c, live)
      BY <1>2 DEF Alike, Unfinished, Still, SameFinish, FinishCall, SamePhase, SameOffer
    <2>2. Quietly(s, c) /\ Doomed(s)
      BY <1>5, CannotFail DEF Fail, c
    <2> QED
      BY <1>2, <1>3, <2>1, <2>2, StartAnswers
  <1> QED
    BY <1>4, <1>5

\* start() rejects, or is about to, only for a session that is over or going to be.
LEMMA InterruptedDoomed ==
  ASSUME NEW s \in Sessions, WholeNow(s), LocatedNow(s), ses[s] \in ActiveSession,
         ses[s].aborted \/ (state = "cancelling")
  PROVE  Doomed(s)
  <1> DEFINE a == ses[s]
             live == active = s
  <1>1. Whole(a, live, state) /\ Located(a, live, state) /\ a \in ActiveSession
    BY DEF WholeNow, LocatedNow
  <1>2. a.fail \in {"none", "waiting", "done"} /\ a.cancel \in {"none", "waiting", "done"}
    BY <1>1 DEF ActiveSession
  <1>3. a.aborted \/ state = "cancelling"
    OBVIOUS
  <1> HIDE DEF a, live
  <1>4. live => a.fail = "waiting" \/ a.cancel = "waiting"
    BY <1>1, <1>2, <1>3 DEF Whole, Interrupted, Located
  <1> QED
    BY <1>4 DEF Doomed, a, live

LEMMA Announced ==
  ASSUME NEW s, NEW p
  PROVE  Append(<<>>, Notification(s, "phase", p)) = <<Service!Phase(s, p)>>
  BY DEF Notification, Service!Phase, Service!Event

\* capture.start() resolved while the session was starting.
LEMMA RecordServes ==
  ASSUME Inv, NEW s \in Sessions, WholeNow(s), LocatedNow(s), active = s, state = "starting",
         ses[s].start = "capStarting", ses[s].fail = "none", NEW c,
         c.start = "returned", c.finish = ses[s].finish, c.cancel = ses[s].cancel,
         c.fail = ses[s].fail, c.phase = "recording", c.offered = ses[s].offered,
         c.events = ses[s].events,
         ses' = [ses EXCEPT ![s] = c], Transition("recording"),
         outbox' = <<Service!Phase(s, "recording")>>
  PROVE  ServiceStep /\ LocatedNow(s)'
  <1> DEFINE a == ses[s]
             live == active = s
  <1> TypeOK
    BY DEF Inv
  <1>1. Whole(a, TRUE, "starting") /\ Located(a, TRUE, "starting") /\ a \in ActiveSession
    <2>1. live = TRUE
      OBVIOUS
    <2> QED
      BY <2>1 DEF WholeNow, LocatedNow, Inv, TypeOK
  <1>2. a.cancel = "none" /\ a.phase = "preparing"
    BY <1>1 DEF Whole, Interrupted, Located
  <1>3. LocatedNow(s)'
    <2>1. Located(c, TRUE, "recording")
      BY <1>1, <1>2 DEF Located, Whole, Placed, Phases
    <2>2. state' = "recording" /\ (active' = s) = TRUE /\ ses'[s] = c
      BY DEF Transition, Inv, TypeOK
    <2> QED
      BY <2>1, <2>2 DEF LocatedNow
  <1>4. Served(c, TRUE) = [services[s] EXCEPT !.start = "returned", !.phase = "recording"]
    <2>1. PICK now : now = TRUE
      OBVIOUS
    <2>2. /\ Failing(c, now) = Failing(a, now)
          /\ SameFinish(a, c) /\ SameCancel(a, c) /\ SameOffer(a, c)
      BY DEF Failing, SameFinish, SameCancel, SameOffer, FinishCall, CancelCall
    <2>3. StartCall(c) = "returned" /\ c.phase = "recording"
      BY DEF StartCall
    <2>4. services[s] = Served(a, now)
      BY <2>1, ActiveServed
    <2> HIDE DEF a
    <2>5. Served(c, now) = [Served(a, now) EXCEPT !.start = StartCall(c), !.phase = c.phase]
      BY <2>2, ServedRecord
    <2> QED
      BY <2>1, <2>3, <2>4, <2>5, Zenon
  <1>5. Service!Becomes(s, [services[s] EXCEPT !.start = "returned", !.phase = "recording"],
                        <<Service!Phase(s, "recording")>>)
    BY <1>4, BecomesBy DEF Transition
  <1>6. /\ services[s].start = "pending" /\ services[s].phase = "preparing"
        /\ ~services[s].failing /\ services[s].cancel = "none"
    BY <1>2, ServiceFields DEF StartCall, CancelCall
  <1>7. Service!Record(s)
    BY <1>5, <1>6 DEF Service!Record, Service!Cancelling, services
  <1> QED
    BY <1>3, <1>7 DEF ServiceStep, Service!Next, Service!Progress

LEMMA StartServes ==
  ASSUME Inv, NEW s \in Sessions, WholeNow(s), LocatedNow(s), StartStep(s)
  PROVE  ServiceStep /\ LocatedNow(s)'
  <1> DEFINE a == ses[s]
             live == active = s
  <1> TypeOK /\ a \in ActiveSession
    BY DEF Inv, TypeOK
  <1>1. CASE AsrCreated(s)
    <2> DEFINE b == [a EXCEPT !.start = "asrStarting", !.asr = "created"]
    <2>1. a.start = "creating" /\ Quietly(s, b)
      BY <1>1 DEF AsrCreated
    <2>2. Alike(a, b, live)
      BY <2>1 DEF ActiveSession, Alike, Unfinished, Still, SameStart, StartCall, SameFinish,
         FinishCall, SamePhase, SameOffer
    <2> QED
      BY <2>1, <2>2, QuietlyServes
  <1>2. CASE AsrStarted(s)
    <2>1. PICK asr : asr = IF a.aborted THEN "closed" ELSE "open"
      OBVIOUS
    <2> DEFINE b == [a EXCEPT !.start = "capStarting", !.asr = asr, !.events = "reading",
                              !.capture = "starting"]
    <2>2. a.start = "asrStarting" /\ Quietly(s, b)
      BY <1>2, <2>1 DEF AsrStarted
    <2>3. Alike(a, b, live)
      BY <2>2 DEF ActiveSession, Alike, Unfinished, Still, SameStart, StartCall, SameFinish,
         FinishCall, SamePhase, SameOffer
    <2> QED
      BY <2>2, <2>3, QuietlyServes
  <1>3. CASE StartAsrFails(s)
    <2>1. PICK asr : asr = IF a.asr = "none" THEN "none" ELSE "closed"
      OBVIOUS
    <2> DEFINE b == [a EXCEPT !.asr = asr]
    <2>2. /\ a.start \in {"creating", "asrStarting"}
          /\ Fail(s, [b EXCEPT !.start = "failing"], [b EXCEPT !.start = "threw"])
      BY <1>3, <2>1 DEF StartAsrFails
    <2>3. asr \in AsrStates
      BY <2>1 DEF AsrStates
    <2>4. b \in ActiveSession /\ b.start = a.start
      BY <2>3 DEF ActiveSession
    <2>5. Alike(a, b, live)
      BY DEF ActiveSession, Alike, Unfinished, Still, SameStart, StartCall, SameFinish,
         FinishCall, SamePhase, SameOffer
    <2> QED
      BY <2>2, <2>4, <2>5, StartFailServes
  <1>4. CASE CaptureStarted(s)
    <2>1. PICK capture : capture = IF a.aborted THEN "closed" ELSE "open"
      OBVIOUS
    <2> DEFINE b == [a EXCEPT !.capture = capture]
               undone == [b EXCEPT !.start = "undoing", !.capture = "closed"]
               recording == [b EXCEPT !.start = "returned", !.timer = TRUE, !.pump = "reading"]
               threw == [b EXCEPT !.start = "threw"]
    <2>2. /\ a.start = "capStarting"
          /\ \/ b.fail # "none" /\ Quietly(s, undone)
             \/ /\ b.fail = "none" /\ live /\ state = "starting"
                /\ Enter(s, recording, "recording", <<>>)
             \/ b.fail = "none" /\ live /\ state = "cancelling" /\ Quietly(s, threw)
             \/ b.fail = "none" /\ ~live /\ Quietly(s, recording)
      BY <1>4, <2>1 DEF CaptureStarted, isCurrent
    <2> DEFINE Rest(r) == /\ r.finish = a.finish /\ r.cancel = a.cancel /\ r.fail = a.fail
                          /\ r.phase = a.phase /\ r.offered = a.offered /\ r.events = a.events
    <2>3. Rest(undone) /\ undone.start = "undoing"
      BY DEF ActiveSession
    <2>4. Rest(recording) /\ recording.start = "returned"
      BY DEF ActiveSession
    <2>5. Rest(threw) /\ threw.start = "threw"
      BY DEF ActiveSession
    <2>6. b.fail = a.fail
      BY DEF ActiveSession
    <2>7. StartCall(a) = "pending"
      BY <2>2 DEF StartCall
    <2>8. CASE b.fail = "none" /\ live /\ state = "starting"
      <3> DEFINE c == [recording EXCEPT !.phase = "recording"]
      <3>1. /\ ses' = [ses EXCEPT ![s] = c] /\ Transition("recording")
            /\ outbox' = Append(<<>>, Notification(s, "phase", "recording"))
        BY <2>2, <2>6, <2>8 DEF Enter
      <3>2. /\ c.start = "returned" /\ c.finish = a.finish /\ c.cancel = a.cancel
            /\ c.fail = a.fail /\ c.phase = "recording" /\ c.offered = a.offered
            /\ c.events = a.events
        BY DEF ActiveSession
      <3> HIDE DEF c
      <3>3. outbox' = <<Service!Phase(s, "recording")>>
        BY <3>1, Announced
      <3> QED
        BY <2>2, <2>6, <2>8, <3>1, <3>2, <3>3, RecordServes
    <2> HIDE DEF b, undone, recording, threw
    <2>9. CASE b.fail # "none"
      <3>1. Quietly(s, undone)
        BY <2>2, <2>9
      <3>2. Alike(a, undone, live)
        BY <2>2, <2>3 DEF Alike, Unfinished, Still, SameStart, StartCall, SameFinish,
           FinishCall, SamePhase, SameOffer
      <3> QED
        BY <3>1, <3>2, QuietlyServes
    <2>10. CASE b.fail = "none" /\ live /\ state = "cancelling"
      <3>1. Quietly(s, threw)
        BY <2>2, <2>10
      <3>2. Unfinished(a, threw) /\ Still(a, threw, live)
        BY <2>5 DEF Unfinished, Still, SameFinish, FinishCall, SamePhase, SameOffer
      <3>3. Doomed(s)
        BY <2>10, InterruptedDoomed
      <3> QED
        BY <2>5, <2>7, <3>1, <3>2, <3>3, StartAnswers
    <2>11. CASE b.fail = "none" /\ ~live
      <3>1. Quietly(s, recording)
        BY <2>2, <2>11
      <3>2. Unfinished(a, recording) /\ Still(a, recording, live)
        BY <2>4 DEF Unfinished, Still, SameFinish, FinishCall, SamePhase, SameOffer
      <3> QED
        BY <2>4, <2>7, <2>11, <3>1, <3>2, StartAnswers
    <2> QED
      BY <2>2, <2>8, <2>9, <2>10, <2>11
  <1>5. CASE CaptureStartFails(s)
    <2> DEFINE b == [a EXCEPT !.capture = "closed"]
    <2>1. /\ a.start = "capStarting"
          /\ Fail(s, [b EXCEPT !.start = "failing"], [b EXCEPT !.start = "threw"])
      BY <1>5 DEF CaptureStartFails
    <2>2. b \in ActiveSession /\ b.start = a.start
      BY DEF ActiveSession, CaptureStates
    <2>3. Alike(a, b, live)
      BY DEF ActiveSession, Alike, Unfinished, Still, SameStart, StartCall, SameFinish,
         FinishCall, SamePhase, SameOffer
    <2> QED
      BY <2>1, <2>2, <2>3, StartFailServes
  <1>6. CASE StartThrows(s)
    <2> DEFINE b == [a EXCEPT !.start = "threw"]
    <2>1. /\ Quietly(s, b)
          /\ a.start = "undoing" \/ (a.start = "failing" /\ a.fail = "done")
      BY <1>6 DEF StartThrows
    <2>2. b.start = "threw" /\ Unfinished(a, b) /\ Still(a, b, live)
      BY DEF ActiveSession, Unfinished, Still, SameFinish, FinishCall, SamePhase, SameOffer
    <2>3. a.aborted
      BY <2>1 DEF WholeNow, Whole, Held, Done
    <2>4. Doomed(s)
      BY <2>3, InterruptedDoomed
    <2>5. StartCall(a) = "pending"
      BY <2>1 DEF StartCall
    <2> HIDE DEF b
    <2> QED
      BY <2>1, <2>2, <2>4, <2>5, StartAnswers
  <1> QED
    BY <1>1, <1>2, <1>3, <1>4, <1>5, <1>6 DEF StartStep

\* The active session enters the phase `to`, and nothing else is shown of it.
LEMMA MovesTo ==
  ASSUME TypeOK, NEW s \in Sessions, active = s, NEW c, NEW to, c.phase = to,
         SameStart(ses[s], c), SameFinish(ses[s], c), SameOffer(ses[s], c),
         c.cancel = ses[s].cancel, c.fail = ses[s].fail,
         ses' = [ses EXCEPT ![s] = c], UNCHANGED <<active, lastSettled, gate>>,
         NEW events, outbox' = events
  PROVE  Service!Becomes(s, [services[s] EXCEPT !.phase = to], events)
  <1> DEFINE a == ses[s]
  <1>1. PICK now : now = TRUE
    OBVIOUS
  <1>2. Failing(c, now) = Failing(a, now) /\ SameCancel(a, c)
    BY DEF Failing, SameCancel, CancelCall
  <1>3. services[s] = Served(a, now)
    BY <1>1, ActiveServed
  <1>4. SameStart(a, c) /\ SameFinish(a, c) /\ SameOffer(a, c)
    OBVIOUS
  <1> HIDE DEF a
  <1>5. Served(c, now) = [Served(a, now) EXCEPT !.phase = c.phase]
    BY <1>2, <1>4, ServedPhase
  <1>6. Served(c, TRUE) = [services[s] EXCEPT !.phase = to]
    BY <1>1, <1>3, <1>5, Zenon
  <1> QED
    BY <1>6, BecomesBy

LEMMA FinishFailServes ==
  ASSUME Inv, NEW s \in Sessions, WholeNow(s), LocatedNow(s),
         FinishCall(ses[s]) = "pending",
         Fail(s, [ses[s] EXCEPT !.finish = "failing"], [ses[s] EXCEPT !.finish = "rejected"])
  PROVE  ServiceStep /\ LocatedNow(s)'
  <1> DEFINE a == ses[s]
             live == active = s
             b == [a EXCEPT !.finish = "failing"]
             c == [a EXCEPT !.finish = "rejected"]
  <1> TypeOK /\ a \in ActiveSession
    BY DEF Inv, TypeOK
  <1>1. b \in ActiveSession /\ b.finish = "failing" /\ SameStart(a, b) /\ Still(a, b, live)
    BY DEF ActiveSession, SameStart, StartCall, Still, SamePhase, SameOffer
  <1>2. c.finish = "rejected" /\ SameStart(a, c) /\ Still(a, c, live)
    BY DEF ActiveSession, SameStart, StartCall, Still, SamePhase, SameOffer
  <1> HIDE DEF b, c
  <1>3. CASE CanFail(s)
    <2>1. Alike(a, b, live)
      BY <1>1 DEF Alike, Unfinished, SameFinish, FinishCall
    <2>2. Quietly(s, [Interrupt(b) EXCEPT !.fail = "waiting"])
      BY <1>3 DEF Fail, b
    <2> QED
      BY <1>1, <1>3, <2>1, <2>2, FailBegins
  <1>4. CASE ~CanFail(s)
    <2>1. Quietly(s, c) /\ Doomed(s)
      BY <1>4, CannotFail DEF Fail, c
    <2> QED
      BY <1>2, <2>1, FinishAnswers
  <1> QED
    BY <1>3, <1>4

\* finish() resolves once the recording is behind the session, or never to be resumed.
LEMMA BeyondRecording ==
  ASSUME Inv, NEW s \in Sessions, WholeNow(s), LocatedNow(s),
         ses[s].finish \in {"draining", "asrFinishing"},
         active = s => state # "finishing"
  PROVE  Doomed(s) \/ ses[s].phase # "recording"
  <1> DEFINE a == ses[s]
             live == active = s
  <1>1. Located(a, live, state)
    BY DEF LocatedNow
  <1>2. CASE live /\ state # "cancelling"
    <2>1. state \in LiveStates
      BY <1>2, LiveState
    <2>2. state \in {"starting", "recording", "finishing", "recognizing", "processing",
                     "polishing", "choosing", "cancelling"}
      BY <2>1 DEF LiveStates, SessionStates, AllowedTransitions, Outcomes
    <2>3. state \in Phases \ {"preparing", "recording"}
      BY <1>1, <1>2, <2>2 DEF Located, Phases
    <2> QED
      BY <1>1, <1>2, <2>3 DEF Located
  <1>3. CASE live /\ state = "cancelling"
    BY <1>3, InterruptedDoomed DEF Inv, TypeOK
  <1>4. CASE ~live
    BY <1>4 DEF Doomed
  <1> QED
    BY <1>2, <1>3, <1>4

LEMMA FinishServes ==
  ASSUME Inv, NEW s \in Sessions, WholeNow(s), LocatedNow(s), FinishStep(s)
  PROVE  ServiceStep /\ LocatedNow(s)'
  <1> DEFINE a == ses[s]
             live == active = s
             resolved == [a EXCEPT !.finish = "resolved"]
             rejected == [a EXCEPT !.finish = "rejected"]
  <1> TypeOK /\ a \in ActiveSession
    BY DEF Inv, TypeOK
  <1>1. resolved.finish = "resolved" /\ SameStart(a, resolved) /\ Still(a, resolved, live)
    BY DEF ActiveSession, SameStart, StartCall, Still, SamePhase, SameOffer
  <1>2. rejected.finish = "rejected" /\ SameStart(a, rejected) /\ Still(a, rejected, live)
    BY DEF ActiveSession, SameStart, StartCall, Still, SamePhase, SameOffer
  <1>3. ASSUME Quietly(s, resolved), FinishCall(a) = "pending",
               Doomed(s) \/ a.phase # "recording"
        PROVE  ServiceStep /\ LocatedNow(s)'
    <2> HIDE DEF resolved
    <2> QED
      BY <1>1, <1>3, FinishAnswers
  <1>4. ASSUME Quietly(s, rejected), FinishCall(a) = "pending", Doomed(s)
        PROVE  ServiceStep /\ LocatedNow(s)'
    <2> HIDE DEF rejected
    <2> QED
      BY <1>2, <1>4, FinishAnswers
  <1>5. CASE CaptureStopped(s)
    <2>1. PICK capture : capture = IF a.capture = "open" THEN "stopped" ELSE a.capture
      OBVIOUS
    <2> DEFINE b == [a EXCEPT !.finish = "draining", !.capture = capture]
    <2>2. a.finish = "stopping" /\ Quietly(s, b)
      BY <1>5, <2>1 DEF CaptureStopped
    <2>3. Alike(a, b, live)
      BY <2>2 DEF ActiveSession, Alike, Unfinished, Still, SameStart, StartCall, SameFinish,
         FinishCall, SamePhase, SameOffer
    <2> QED
      BY <2>2, <2>3, QuietlyServes
  <1>6. CASE CaptureStopFails(s)
    BY <1>6, FinishFailServes DEF CaptureStopFails, FinishCall
  <1>7. CASE Drained(s)
    <2> DEFINE b == [a EXCEPT !.finish = "asrFinishing"]
    <2>1. /\ a.finish = "draining"
          /\ \/ a.fail # "none" /\ Quietly(s, rejected)
             \/ (~live \/ state # "finishing") /\ Quietly(s, resolved)
             \/ /\ a.fail = "none" /\ live /\ state = "finishing"
                /\ Enter(s, b, "recognizing", <<>>)
      BY <1>7 DEF Drained, isCurrent
    <2>2. FinishCall(a) = "pending"
      BY <2>1 DEF FinishCall
    <2> HIDE DEF resolved, rejected
    <2>3. CASE a.fail # "none" /\ Quietly(s, rejected)
      <3>1. a.aborted
        BY <2>3 DEF WholeNow, Whole, Interrupted
      <3> QED
        BY <1>4, <2>2, <2>3, <3>1, InterruptedDoomed
    <2>4. CASE (~live \/ state # "finishing") /\ Quietly(s, resolved)
      BY <1>3, <2>1, <2>2, <2>4, BeyondRecording
    <2>5. CASE a.fail = "none" /\ live /\ state = "finishing" /\ Enter(s, b, "recognizing", <<>>)
      <3> DEFINE c == [b EXCEPT !.phase = "recognizing"]
      <3>1. /\ ses' = [ses EXCEPT ![s] = c] /\ Transition("recognizing")
            /\ outbox' = Append(<<>>, Notification(s, "phase", "recognizing"))
        BY <2>5 DEF Enter
      <3>2. /\ c.start = a.start /\ c.finish = "asrFinishing" /\ c.cancel = a.cancel
            /\ c.fail = a.fail /\ c.phase = "recognizing" /\ c.offered = a.offered
            /\ c.events = a.events
        BY DEF ActiveSession
      <3> HIDE DEF c
      <3>3. outbox' = <<Service!Phase(s, "recognizing")>>
        BY <3>1, Announced
      <3>4. Service!Becomes(s, [services[s] EXCEPT !.phase = "recognizing"],
                            <<Service!Phase(s, "recognizing")>>)
        BY <2>2, <2>5, <3>1, <3>2, <3>3, MovesTo DEF Transition, SameStart, StartCall,
           SameFinish, FinishCall, SameOffer
      <3>5. /\ Whole(a, TRUE, "finishing") /\ Located(a, TRUE, "finishing")
        <4>1. live = TRUE
          BY <2>5
        <4> QED
          BY <2>5, <4>1 DEF WholeNow, LocatedNow
      <3>6. a.cancel = "none" /\ a.phase = "recording" /\ a.events # "processing"
        BY <3>5 DEF Whole, Interrupted, Located
      <3>7. /\ services[s].phase = "recording" /\ services[s].finish = "pending"
            /\ ~services[s].failing /\ services[s].cancel = "none"
        BY <2>2, <2>5, <3>6, ServiceFields DEF CancelCall
      <3>8. Service!Recognize(s)
        BY <3>4, <3>7 DEF Service!Recognize, Service!Cancelling, services
      <3>9. LocatedNow(s)'
        <4>1. Located(c, TRUE, "recognizing")
          BY <2>5, <3>2, <3>6 DEF Located, Phases
        <4>2. state' = "recognizing" /\ (active' = s) = TRUE /\ ses'[s] = c
          BY <2>5, <3>1 DEF Transition, TypeOK
        <4> QED
          BY <4>1, <4>2 DEF LocatedNow
      <3> QED
        BY <3>8, <3>9 DEF ServiceStep, Service!Next, Service!Progress
    <2> QED
      BY <2>1, <2>3, <2>4, <2>5
  <1>8. CASE AsrFinished(s)
    <2>1. a.finish = "asrFinishing" /\ Quietly(s, resolved)
      BY <1>8 DEF AsrFinished
    <2>2. live => state # "finishing"
      BY <2>1 DEF LocatedNow, Located
    <2>3. FinishCall(a) = "pending"
      BY <2>1 DEF FinishCall
    <2> QED
      BY <1>3, <2>1, <2>2, <2>3, BeyondRecording
  <1>9. CASE AsrFinishFails(s)
    <2>1. FinishCall(a) = "pending"
      BY <1>9 DEF AsrFinishFails, FinishCall
    <2>2. CASE ~live \/ state = "cancelling"
      <3>1. Quietly(s, resolved)
        BY <1>9, <2>2 DEF AsrFinishFails, isCurrent
      <3>2. Doomed(s)
        BY <2>2, InterruptedDoomed DEF Doomed
      <3> QED
        BY <1>3, <2>1, <3>1, <3>2
    <2>3. CASE ~(~live \/ state = "cancelling")
      BY <1>9, <2>1, <2>3, FinishFailServes DEF AsrFinishFails, isCurrent
    <2> QED
      BY <2>2, <2>3
  <1>10. CASE FinishThrows(s)
    <2>1. a.finish = "failing" /\ a.fail = "done" /\ Quietly(s, rejected)
      BY <1>10 DEF FinishThrows
    <2>2. FinishCall(a) = "pending"
      BY <2>1 DEF FinishCall
    <2>3. Doomed(s)
      BY <2>1 DEF LocatedNow, Located, Doomed
    <2> QED
      BY <1>4, <2>1, <2>2, <2>3
  <1> QED
    BY <1>5, <1>6, <1>7, <1>8, <1>9, <1>10 DEF FinishStep

LEMMA AudioServes ==
  ASSUME Inv, NEW s \in Sessions, WholeNow(s), LocatedNow(s),
         AudioStep(s) \/ RecordingTimeout(s)
  PROVE  ServiceStep /\ LocatedNow(s)'
  <1> DEFINE a == ses[s]
             live == active = s
             to(pump) == [a EXCEPT !.pump = pump]
             unarmed == [a EXCEPT !.timer = FALSE]
  <1> TypeOK /\ a \in ActiveSession
    BY DEF Inv, TypeOK
  <1>1. \A pump : Alike(a, to(pump), live)
    BY DEF ActiveSession, Alike, Unfinished, Still, SameStart, StartCall, SameFinish,
       FinishCall, SamePhase, SameOffer
  <1>2. Alike(a, unarmed, live)
    BY DEF ActiveSession, Alike, Unfinished, Still, SameStart, StartCall, SameFinish,
       FinishCall, SamePhase, SameOffer
  <1>3. to("failing") \in ActiveSession
    BY DEF ActiveSession
  <1>4. unarmed \in ActiveSession
    BY DEF ActiveSession
  <1>5. \/ Quietly(s, to("writing")) \/ Quietly(s, to("ended")) \/ Quietly(s, to("reading"))
        \/ Fail(s, to("failing"), to("ended"))
        \/ Fail(s, unarmed, unarmed)
    <2>1. ASSUME AudioEnds(s)
          PROVE  Fail(s, to("failing"), to("ended")) \/ Quietly(s, to("ended"))
      <3>1. [to("ended") EXCEPT !.pump = "failing"] = to("failing")
        BY DEF ActiveSession
      <3> QED
        BY <2>1, <3>1 DEF AudioEnds
    <2> QED
      BY <2>1 DEF AudioStep, FrameArrives, FrameWritten, FrameWriteFails, AudioThrows,
                  AudioPumpFailed, RecordingTimeout
  <1> HIDE DEF to, unarmed
  <1> QED
    BY <1>1, <1>2, <1>3, <1>4, <1>5, QuietlyServes, FailServes

\* Nothing is shown of what the active session goes through but some events.
LEMMA Remains ==
  ASSUME TypeOK, NEW s \in Sessions, active = s, NEW c, Alike(ses[s], c, TRUE),
         ses' = [ses EXCEPT ![s] = c], UNCHANGED <<active, lastSettled, gate>>,
         NEW events, outbox' = events
  PROVE  Service!Becomes(s, services[s], events)
  <1> DEFINE a == ses[s]
  <1>1. PICK now : now = TRUE
    OBVIOUS
  <1>2. /\ Failing(c, now) = Failing(a, now) /\ SameCancel(a, c)
        /\ SameStart(a, c) /\ SameFinish(a, c) /\ SamePhase(a, c) /\ SameOffer(a, c)
    BY DEF Alike, Unfinished, Still, Failing, SameCancel, CancelCall
  <1>3. services[s] = Served(a, now)
    BY <1>1, ActiveServed
  <1> HIDE DEF a
  <1>4. Served(c, now) = Served(a, now)
    BY <1>2, ServedSame
  <1> QED
    BY <1>1, <1>3, <1>4, BecomesBy

LEMMA AsrServes ==
  ASSUME Inv, NEW s \in Sessions, WholeNow(s), LocatedNow(s), AsrStep(s)
  PROVE  ServiceStep /\ LocatedNow(s)'
  <1> DEFINE a == ses[s]
             live == active = s
             closed == [a EXCEPT !.asr = "closed"]
             ended == [closed EXCEPT !.events = "ended"]
             c == [[closed EXCEPT !.events = "processing"] EXCEPT !.phase = "processing"]
  <1> TypeOK /\ a \in ActiveSession
    BY DEF Inv, TypeOK
  <1>1. CASE AsrPreview(s)
    <2>1. /\ live /\ UNCHANGED coord
          /\ outbox' = <<Service!Event(s, "preview", "text")>>
      BY <1>1 DEF AsrPreview, isCurrent, Notification, Service!Event
    <2>2. ses' = [ses EXCEPT ![s] = a] /\ ses' = ses
      BY <1>1 DEF AsrPreview, TypeOK
    <2>3. Alike(a, a, TRUE)
      BY DEF Alike, Unfinished, Still, SameStart, SameFinish, SamePhase, SameOffer
    <2>4. Service!Preview(s)
      BY <2>1, <2>2, <2>3, Remains DEF Service!Preview, coord, services
    <2>5. LocatedNow(s)'
      BY <2>1, <2>2 DEF LocatedNow, coord
    <2> QED
      BY <2>4, <2>5 DEF ServiceStep, Service!Next
  <1>2. CASE StaleAsrEvent(s)
    <2> DEFINE b == [a EXCEPT !.events = "ended"]
    <2>1. Alike(a, b, live)
      BY DEF ActiveSession, Alike, Unfinished, Still, SameStart, StartCall, SameFinish,
         FinishCall, SamePhase, SameOffer
    <2> QED
      BY <1>2, <2>1, QuietlyServes DEF StaleAsrEvent
  <1>3. CASE AsrCompleted(s) \/ AsrFails(s)
    <2>1. ended \in ActiveSession
      BY DEF ActiveSession, AsrStates
    <2>2. [a EXCEPT !.events = "ended", !.asr = "closed"] = ended
      BY DEF ActiveSession
    <2>3. \/ Fail(s, ended, ended)
          \/ /\ live /\ state = "recognizing"
             /\ ses' = [ses EXCEPT ![s] = c] /\ Transition("processing")
             /\ outbox' = Append(<<>>, Notification(s, "phase", "processing"))
      BY <1>3, <2>2 DEF AsrCompleted, AsrFails, Enter, isCurrent
    <2>4. Alike(a, ended, live)
      BY DEF ActiveSession, Alike, Unfinished, Still, SameStart, StartCall, SameFinish,
         FinishCall, SamePhase, SameOffer
    <2>5. ASSUME live, state = "recognizing", ses' = [ses EXCEPT ![s] = c],
                 Transition("processing"),
                 outbox' = Append(<<>>, Notification(s, "phase", "processing"))
          PROVE  ServiceStep /\ LocatedNow(s)'
      <3>1. /\ c.start = a.start /\ c.finish = a.finish /\ c.cancel = a.cancel
            /\ c.fail = a.fail /\ c.phase = "processing" /\ c.offered = a.offered
        BY DEF ActiveSession
      <3> HIDE DEF c
      <3>2. /\ Whole(a, TRUE, "recognizing") /\ Located(a, TRUE, "recognizing")
        <4>1. live = TRUE
          BY <2>5
        <4> QED
          BY <2>5, <4>1 DEF WholeNow, LocatedNow
      <3>3. a.cancel = "none" /\ a.phase = "recognizing"
        BY <3>2 DEF Whole, Interrupted, Located, Phases
      <3>4. Service!Becomes(s, [services[s] EXCEPT !.phase = "processing"],
                            <<Service!Phase(s, "processing")>>)
        BY <2>5, <3>1, Announced, MovesTo DEF Transition, SameStart, StartCall,
           SameFinish, FinishCall, SameOffer
      <3>5. services[s].phase = "recognizing" /\ services[s].cancel = "none"
        BY <3>3, ServiceFields DEF CancelCall
      <3>6. Service!Process(s)
        BY <3>4, <3>5 DEF Service!Process, Service!Cancelling, services
      <3>7. LocatedNow(s)'
        <4>1. Located(c, TRUE, "processing")
          BY <3>1, <3>2 DEF Located, Phases
        <4>2. state' = "processing" /\ (active' = s) = TRUE /\ ses'[s] = c
          BY <2>5 DEF Transition, TypeOK
        <4> QED
          BY <4>1, <4>2 DEF LocatedNow
      <3> QED
        BY <3>6, <3>7 DEF ServiceStep, Service!Next, Service!Progress
    <2> HIDE DEF ended
    <2> QED
      BY <2>1, <2>3, <2>4, <2>5, FailServes
  <1> QED
    BY <1>1, <1>2, <1>3 DEF AsrStep

LEMMA TwoNotes ==
  ASSUME NEW m, NEW n
  PROVE  Append(<<m>>, n) = <<m, n>>
  <1> DEFINE S == {m, n}
  <1> m \in S /\ n \in S
    OBVIOUS
  <1> HIDE DEF S
  <1>1. <<m>> \in Seq(S) /\ <<m, n>> \in Seq(S) /\ Append(<<m>>, n) \in Seq(S)
    OBVIOUS
  <1>2. Len(<<m>>) = 1 /\ Len(<<m, n>>) = 2 /\ Len(Append(<<m>>, n)) = 2
    BY <1>1
  <1>3. \A i \in 1 .. 2 : Append(<<m>>, n)[i] = <<m, n>>[i]
    BY <1>1, <1>2
  <1> QED
    BY <1>1, <1>2, <1>3, SeqEqual

LEMMA AnnouncedAfter ==
  ASSUME NEW s, NEW v, NEW p
  PROVE  /\ Results(s, v) = Service!Event(s, "results", v)
         /\ Append(<<Results(s, v)>>, Notification(s, "phase", p))
              = <<Service!Event(s, "results", v), Service!Phase(s, p)>>
         /\ Append(<<Results(s, v)>>, Notification(s, "completed", p))
              = <<Service!Event(s, "results", v), Service!Event(s, "completed", p)>>
  <1>1. /\ Results(s, v) = Service!Event(s, "results", v)
        /\ Notification(s, "phase", p) = Service!Phase(s, p)
        /\ Notification(s, "completed", p) = Service!Event(s, "completed", p)
    BY DEF Notification, Results, Service!Phase, Service!Event
  <1> QED
    BY <1>1, TwoNotes

\* The polisher is over, and leaves the choice to the client.
LEMMA ChoosingServes ==
  ASSUME Inv, NEW s \in Sessions, WholeNow(s), LocatedNow(s), active = s, state = "polishing",
         NEW c, SameStart(ses[s], c), c.finish = ses[s].finish, c.cancel = ses[s].cancel,
         c.fail = ses[s].fail, c.phase = "choosing", c.events = "ended",
         NEW v, \/ c.offered = ses[s].offered /\ v = "transcript"
                \/ c.offered = Choices /\ v = "final",
         ses' = [ses EXCEPT ![s] = c], Transition("choosing"),
         outbox' = <<Service!Event(s, "results", v), Service!Phase(s, "choosing")>>
  PROVE  ServiceStep /\ LocatedNow(s)'
  <1> DEFINE a == ses[s]
  <1> TypeOK
    BY DEF Inv
  <1>1. Whole(a, TRUE, "polishing") /\ Located(a, TRUE, "polishing")
    <2>1. (active = s) = TRUE
      OBVIOUS
    <2> QED
      BY <2>1 DEF WholeNow, LocatedNow
  <1>2. a.cancel = "none" /\ a.phase = "polishing"
    BY <1>1 DEF Whole, Interrupted, Located, Phases
  <1>3. LocatedNow(s)'
    <2>1. Located(c, TRUE, "choosing")
      BY <1>1 DEF Located, Phases
    <2>2. state' = "choosing" /\ (active' = s) = TRUE /\ ses'[s] = c
      BY DEF Transition, TypeOK
    <2> QED
      BY <2>1, <2>2 DEF LocatedNow
  <1>4. SameFinish(a, c) /\ SameStart(a, c)
    BY DEF SameFinish, FinishCall
  <1>5. services[s].phase = "polishing" /\ services[s].cancel = "none"
    BY <1>2, ServiceFields DEF CancelCall
  <1>6. CASE c.offered = a.offered /\ v = "transcript"
    <2>1. SameOffer(a, c)
      BY <1>6 DEF SameOffer
    <2>2. Service!Becomes(s, [services[s] EXCEPT !.phase = "choosing"],
            <<Service!Event(s, "results", "transcript"), Service!Phase(s, "choosing")>>)
      BY <1>4, <1>6, <2>1, MovesTo DEF Transition
    <2>3. Service!PolishEnds(s)
      BY <1>5, <2>2 DEF Service!PolishEnds, Service!Cancelling, services
    <2> QED
      BY <1>3, <2>3 DEF ServiceStep, Service!Next, Service!Progress
  <1>7. CASE c.offered = Choices /\ v = "final"
    <2>1. PICK now : now = TRUE
      OBVIOUS
    <2>2. Failing(c, now) = Failing(a, now) /\ SameCancel(a, c)
      BY DEF Failing, SameCancel, CancelCall
    <2>3. services[s] = Served(a, now)
      BY <2>1, ActiveServed
    <2> HIDE DEF a
    <2>4. Served(c, now) = [Served(a, now) EXCEPT !.phase = c.phase, !.offered = c.offered]
      BY <1>4, <2>2, ServedChoice
    <2>5. Served(c, TRUE) = [services[s] EXCEPT !.phase = "choosing",
                                                !.offered = Service!Choices]
      BY <1>7, <2>1, <2>3, <2>4, Zenon DEF Choices, Service!Choices
    <2>6. Service!Becomes(s, [services[s] EXCEPT !.phase = "choosing",
                                                 !.offered = Service!Choices],
            <<Service!Event(s, "results", "final"), Service!Phase(s, "choosing")>>)
      BY <1>7, <2>5, BecomesBy DEF Transition
    <2>7. Service!PolishEnds(s)
      BY <1>5, <2>6 DEF Service!PolishEnds, Service!Cancelling, services
    <2> QED
      BY <1>3, <2>7 DEF ServiceStep, Service!Next, Service!Progress
  <1> QED
    BY <1>6, <1>7

\* What the end of the polisher's pump leaves of a record.
LEMMA PolisherDoneAlike ==
  ASSUME NEW a \in ActiveSession, NEW live
  PROVE  LET b == PolisherDone(a) IN
         /\ b \in ActiveSession /\ Alike(a, b, live)
         /\ b.events = "ended" /\ b.start = a.start /\ b.finish = a.finish
         /\ b.cancel = a.cancel /\ b.fail = a.fail /\ b.offered = a.offered
  <1>1. PICK request : request = IF a.request = "live" THEN "done" ELSE a.request
    OBVIOUS
  <1>2. PolisherDone(a) = [a EXCEPT !.events = "ended", !.request = request]
    BY <1>1 DEF PolisherDone
  <1>3. PolisherDone(a) \in ActiveSession
    BY PolisherDoneCarries DEF Carries
  <1>4. LET b == PolisherDone(a) IN
        /\ b.events = "ended" /\ b.start = a.start /\ b.finish = a.finish
        /\ b.cancel = a.cancel /\ b.fail = a.fail /\ b.offered = a.offered
        /\ b.phase = a.phase
    BY <1>2 DEF ActiveSession
  <1> QED
    BY <1>3, <1>4 DEF Alike, Unfinished, Still, SameStart, StartCall, SameFinish,
       FinishCall, SamePhase, SameOffer

LEMMA FallbackServes ==
  ASSUME Inv, NEW s \in Sessions, WholeNow(s), LocatedNow(s), NEW a \in ActiveSession,
         Alike(ses[s], a, active = s), a.finish = ses[s].finish, a.fail = ses[s].fail,
         PolishFallback(s, a)
  PROVE  ServiceStep /\ LocatedNow(s)'
  <1> DEFINE old == ses[s]
             live == active = s
             done == PolisherDone(a)
             c == [[done EXCEPT !.polished = FALSE] EXCEPT !.phase = "choosing"]
  <1> TypeOK
    BY DEF Inv
  <1>1. /\ done \in ActiveSession /\ Alike(a, done, live)
        /\ done.events = "ended" /\ done.start = a.start /\ done.finish = a.finish
        /\ done.cancel = a.cancel /\ done.fail = a.fail /\ done.offered = a.offered
    BY PolisherDoneAlike
  <1>2. \/ /\ live /\ state = "polishing" /\ Transition("choosing")
           /\ ses' = [ses EXCEPT ![s] = c]
           /\ outbox' = Append(<<Results(s, "transcript")>>,
                               Notification(s, "phase", "choosing"))
        \/ Quietly(s, done)
    BY DEF PolishFallback, PolishWanted, Enter, isCurrent
  <1> HIDE DEF done
  <1>3. CASE Quietly(s, done)
    <2>1. Alike(old, done, live)
      BY <1>1 DEF Alike, Unfinished, Still, SameStart, SameFinish, SamePhase, SameOffer
    <2> QED
      BY <1>3, <2>1, QuietlyServes
  <1>4. CASE /\ live /\ state = "polishing" /\ Transition("choosing")
             /\ ses' = [ses EXCEPT ![s] = c]
             /\ outbox' = Append(<<Results(s, "transcript")>>,
                                 Notification(s, "phase", "choosing"))
    <2>1. /\ c.start = done.start /\ c.finish = done.finish /\ c.cancel = done.cancel
          /\ c.fail = done.fail /\ c.phase = "choosing" /\ c.offered = done.offered
          /\ c.events = done.events
      BY <1>1 DEF ActiveSession
    <2> HIDE DEF c
    <2>2. /\ SameStart(old, c) /\ c.finish = old.finish /\ c.cancel = old.cancel
          /\ c.fail = old.fail /\ c.offered = old.offered /\ c.events = "ended"
      BY <1>1, <2>1 DEF Alike, Still, SameStart, StartCall, SameOffer
    <2>3. outbox' = <<Service!Event(s, "results", "transcript"), Service!Phase(s, "choosing")>>
      BY <1>4, AnnouncedAfter
    <2> QED
      BY <1>4, <2>1, <2>2, <2>3, ChoosingServes
  <1> QED
    BY <1>2, <1>3, <1>4

\* The active session offers its transcript, in the phase it was in or in another one.
LEMMA TranscriptShown ==
  ASSUME NEW s \in Sessions, active = s, NEW c, SameStart(ses[s], c), SameFinish(ses[s], c),
         c.cancel = ses[s].cancel, c.fail = ses[s].fail,
         c.offered = ses[s].offered \cup {"transcript"},
         SamePhase(ses[s], c)
  PROVE  Served(c, TRUE)
           = [services[s] EXCEPT !.offered = services[s].offered \cup {"transcript"}]
  <1> DEFINE a == ses[s]
  <1>1. PICK now : now = TRUE
    OBVIOUS
  <1>2. /\ Failing(c, now) = Failing(a, now) /\ SameCancel(a, c)
        /\ SameStart(a, c) /\ SameFinish(a, c) /\ SamePhase(a, c)
    BY DEF Failing, SameCancel, CancelCall
  <1>3. services[s] = Served(a, now)
    BY <1>1, ActiveServed
  <1>4. services[s].offered \cup {"transcript"} = c.offered
    BY ServiceFields
  <1> HIDE DEF a
  <1>5. Served(c, now) = [Served(a, now) EXCEPT !.offered = c.offered]
    BY <1>2, ServedOffer
  <1> QED
    BY <1>1, <1>3, <1>4, <1>5, Zenon

LEMMA DeliveryShown ==
  ASSUME NEW s \in Sessions, active = s, NEW c, NEW now, now = TRUE,
         Failing(c, now) = Failing(ses[s], now), SameStart(ses[s], c),
         SameFinish(ses[s], c), SameCancel(ses[s], c)
  PROVE  Served(c, TRUE) = [services[s] EXCEPT !.offered = c.offered, !.phase = c.phase]
  <1>1. services[s] = Served(ses[s], now)
    BY ActiveServed
  <1>2. Served(c, now)
          = [Served(ses[s], now) EXCEPT !.offered = c.offered, !.phase = c.phase]
    BY ServedDelivery
  <1> QED
    BY <1>1, <1>2, Zenon

LEMMA DeliverServes ==
  ASSUME Inv, NEW s \in Sessions, WholeNow(s), LocatedNow(s), TranscriptProcessed(s)
  PROVE  ServiceStep /\ LocatedNow(s)'
  <1> DEFINE a == ses[s]
             live == active = s
             known == [a EXCEPT !.transcript = TRUE]
             offered == known.offered \cup {"transcript"}
             shown == [known EXCEPT !.offered = offered]
             polishing == [known EXCEPT !.events = "polishing", !.request = "live"]
             visible == [polishing EXCEPT !.offered = offered]
             ended == [known EXCEPT !.events = "ended"]
             over == [shown EXCEPT !.events = "ended"]
             entered == [visible EXCEPT !.phase = "polishing"]
             told == [over EXCEPT !.told = "transcript"]
             Like(b) == /\ b.start = a.start /\ b.finish = a.finish /\ b.cancel = a.cancel
                        /\ b.fail = a.fail
  <1> TypeOK /\ a \in ActiveSession
    BY DEF Inv, TypeOK
  <1>1. /\ a.events = "processing"
        /\ \/ ~live /\ Quietly(s, polishing)
           \/ ~live /\ Quietly(s, ended)
           \/ /\ live /\ state = "cancelling"
              /\ ses' = [ses EXCEPT ![s] = over] /\ UNCHANGED coord
              /\ \E v \in {"none", "transcript"} : outbox' = <<Results(s, v)>>
           \/ /\ live /\ state # "cancelling"
              /\ ses' = [ses EXCEPT ![s] = entered] /\ Transition("polishing")
              /\ outbox' = Append(<<Results(s, "none")>>, Notification(s, "phase", "polishing"))
           \/ /\ live /\ state # "cancelling"
              /\ Settle(s, told, "completed",
                        Append(<<Results(s, "transcript")>>,
                               Notification(s, "completed", "transcript")))
    BY DEF TranscriptProcessed, Enter, Complete, isCurrent
  <1>2. Like(polishing) /\ SamePhase(a, polishing) /\ SameOffer(a, polishing)
        /\ polishing.events = "polishing"
    BY DEF ActiveSession, SamePhase, SameOffer
  <1>3. Like(ended) /\ SamePhase(a, ended) /\ SameOffer(a, ended) /\ ended.events = "ended"
    BY DEF ActiveSession, SamePhase, SameOffer
  <1>4. Like(over) /\ SamePhase(a, over) /\ over.events = "ended"
        /\ over.offered = a.offered \cup {"transcript"}
    BY DEF ActiveSession, SamePhase
  <1>5. Like(entered) /\ entered.phase = "polishing" /\ entered.events = "polishing"
        /\ entered.offered = a.offered \cup {"transcript"}
    BY DEF ActiveSession
  <1>6. Like(told) /\ SamePhase(a, told) /\ told.offered = a.offered \cup {"transcript"}
    BY DEF ActiveSession, SamePhase
  <1> HIDE DEF over, told
  <1>7. told \in ActiveSession
    <2>1. offered \in SUBSET Choices
      BY DEF ActiveSession, Choices
    <2>2. known \in ActiveSession
      BY DEF ActiveSession
    <2> HIDE DEF offered, known
    <2>3. shown \in ActiveSession
      BY <2>1, <2>2 DEF ActiveSession
    <2> HIDE DEF shown
    <2>4. over \in ActiveSession
      BY <2>3 DEF ActiveSession, over
    <2> QED
      BY <2>4 DEF ActiveSession, Choices, told
  <1>8. live => a.phase = "processing"
    BY <1>1 DEF LocatedNow, Located
  <1>9. live /\ state # "cancelling" => a.cancel = "none"
    BY DEF WholeNow, Whole, Interrupted
  <1>10. live /\ state = "cancelling" => a.cancel = "waiting"
    BY DEF WholeNow, Whole, Interrupted, LocatedNow, Located, ActiveSession
  <1>11. live => /\ services[s].phase = "processing"
                 /\ (services[s].cancel = "pending" <=> state = "cancelling")
    BY <1>8, <1>9, <1>10, ServiceFields DEF CancelCall
  <1> HIDE DEF polishing, ended, entered
  <1>12. CASE ~live /\ Quietly(s, polishing)
    <2>1. Alike(a, polishing, live)
      BY <1>1, <1>2 DEF Alike, Unfinished, Still, SameStart, StartCall, SameFinish, FinishCall
    <2> QED
      BY <1>12, <2>1, QuietlyServes
  <1>13. CASE ~live /\ Quietly(s, ended)
    <2>1. Alike(a, ended, live)
      BY <1>1, <1>3 DEF Alike, Unfinished, Still, SameStart, StartCall, SameFinish, FinishCall
    <2> QED
      BY <1>13, <2>1, QuietlyServes
  <1>14. CASE /\ live /\ state = "cancelling"
              /\ ses' = [ses EXCEPT ![s] = over] /\ UNCHANGED coord
              /\ \E v \in {"none", "transcript"} : outbox' = <<Results(s, v)>>
    <2>1. PICK v \in {"none", "transcript"} : outbox' = <<Service!Event(s, "results", v)>>
      BY <1>14, AnnouncedAfter
    <2>2. Served(over, TRUE)
            = [services[s] EXCEPT !.offered = services[s].offered \cup {"transcript"}]
      BY <1>4, <1>14, TranscriptShown DEF SameStart, StartCall, SameFinish, FinishCall
    <2>3. Service!Becomes(s,
            [services[s] EXCEPT !.offered = services[s].offered \cup {"transcript"}],
            <<Service!Event(s, "results", v)>>)
      BY <1>14, <2>1, <2>2, BecomesBy DEF coord
    <2>4. Service!Deliver(s)
      BY <1>11, <1>14, <2>3 DEF Service!Deliver, Service!Cancelling, services
    <2>5. LocatedNow(s)'
      <3>1. Located(over, TRUE, "cancelling")
        <4>1. Located(a, TRUE, "cancelling")
          BY <1>14 DEF LocatedNow
        <4> QED
          BY <1>4, <4>1 DEF Located, Phases
      <3>2. state' = "cancelling" /\ (active' = s) = TRUE /\ ses'[s] = over
        BY <1>14 DEF TypeOK, coord
      <3> QED
        BY <3>1, <3>2 DEF LocatedNow
    <2> QED
      BY <2>4, <2>5 DEF ServiceStep, Service!Next, Service!Progress
  <1>15. CASE /\ live /\ state # "cancelling"
              /\ ses' = [ses EXCEPT ![s] = entered] /\ Transition("polishing")
              /\ outbox' = Append(<<Results(s, "none")>>, Notification(s, "phase", "polishing"))
    <2>1. outbox' = <<Service!Event(s, "results", "none"), Service!Phase(s, "polishing")>>
      BY <1>15, AnnouncedAfter
    <2> DEFINE r == [services[s] EXCEPT !.offered = services[s].offered \cup {"transcript"},
                                        !.phase = "polishing"]
    <2>2. Served(entered, TRUE) = r
      <3>1. PICK now : now = TRUE
        OBVIOUS
      <3>2. Served(entered, TRUE)
              = [services[s] EXCEPT !.offered = entered.offered, !.phase = entered.phase]
        <4>1. /\ Failing(entered, now) = Failing(a, now) /\ SameCancel(a, entered)
              /\ SameStart(a, entered) /\ SameFinish(a, entered)
          BY <1>5 DEF Failing, SameCancel, CancelCall, SameStart, StartCall, SameFinish,
             FinishCall
        <4> QED
          BY <1>15, <3>1, <4>1, DeliveryShown, Zenon
      <3>3. entered.offered = services[s].offered \cup {"transcript"}
        BY <1>5, ServiceFields
      <3> QED
        BY <1>5, <3>2, <3>3, Zenon
    <2>3. Service!Becomes(s, r,
            <<Service!Event(s, "results", "none"), Service!Phase(s, "polishing")>>)
      <3> HIDE DEF r
      <3> QED
        BY <1>15, <2>1, <2>2, BecomesBy DEF Transition
    <2>4. Service!Deliver(s)
      BY <1>11, <1>15, <2>3 DEF Service!Deliver, Service!Cancelling, services
    <2>5. LocatedNow(s)'
      <3>1. Located(entered, TRUE, "polishing")
        <4>1. Located(a, TRUE, state)
          BY <1>15 DEF LocatedNow
        <4> QED
          BY <1>5, <4>1 DEF Located, Phases
      <3>2. state' = "polishing" /\ (active' = s) = TRUE /\ ses'[s] = entered
        BY <1>15 DEF TypeOK, Transition
      <3> QED
        BY <3>1, <3>2 DEF LocatedNow
    <2> QED
      BY <2>4, <2>5 DEF ServiceStep, Service!Next, Service!Progress
  <1>16. CASE /\ live /\ state # "cancelling"
              /\ Settle(s, told, "completed",
                        Append(<<Results(s, "transcript")>>,
                               Notification(s, "completed", "transcript")))
    <2> DEFINE r == [services[s] EXCEPT !.offered = services[s].offered \cup {"transcript"}]
               events == <<Service!Event(s, "results", "transcript"),
                           Service!Event(s, "completed", "transcript")>>
    <2>1. Settle(s, told, "completed", events)
      BY <1>16, AnnouncedAfter
    <2>2. Served(told, TRUE) = r
      BY <1>6, <1>16, TranscriptShown DEF SameStart, StartCall, SameFinish, FinishCall
    <2>3. Service!Settle(s, r, events) /\ LocatedNow(s)'
      <3> HIDE DEF r, events
      <3>1. /\ SameStart(told, told) /\ SameFinish(told, told) /\ SameCancel(told, told)
            /\ SamePhase(told, told) /\ SameOffer(told, told)
        BY DEF SameStart, SameFinish, SameCancel, SamePhase, SameOffer
      <3> QED
        BY <1>7, <1>16, <2>1, <2>2, <3>1, SettleBy
    <2>4. Service!Deliver(s)
      BY <1>11, <1>16, <2>3 DEF Service!Deliver, Service!Cancelling, services
    <2> QED
      BY <2>3, <2>4 DEF ServiceStep, Service!Next, Service!Progress
  <1> QED
    BY <1>1, <1>12, <1>13, <1>14, <1>15, <1>16

LEMMA ValidatedServes ==
  ASSUME Inv, NEW s \in Sessions, WholeNow(s), LocatedNow(s), PolishValidated(s)
  PROVE  ServiceStep /\ LocatedNow(s)'
  <1> DEFINE old == ses[s]
             live == active = s
             a == [old EXCEPT !.polished = TRUE]
             done == PolisherDone(a)
             c == [[done EXCEPT !.offered = Choices] EXCEPT !.phase = "choosing"]
  <1> TypeOK /\ old \in ActiveSession
    BY DEF Inv, TypeOK
  <1>1. \/ /\ live /\ state = "polishing" /\ Transition("choosing")
           /\ ses' = [ses EXCEPT ![s] = c]
           /\ outbox' = Append(<<Results(s, "final")>>, Notification(s, "phase", "choosing"))
        \/ Quietly(s, done)
    BY DEF PolishValidated, PolishWanted, Enter, isCurrent
  <1>2. a \in ActiveSession
    BY DEF ActiveSession
  <1>3. /\ a.start = old.start /\ a.finish = old.finish /\ a.cancel = old.cancel
        /\ a.fail = old.fail /\ a.phase = old.phase /\ a.offered = old.offered
        /\ a.events = old.events
    BY DEF ActiveSession
  <1> HIDE DEF a
  <1>4. /\ done \in ActiveSession /\ Alike(a, done, live)
        /\ done.events = "ended" /\ done.start = a.start /\ done.finish = a.finish
        /\ done.cancel = a.cancel /\ done.fail = a.fail /\ done.offered = a.offered
    BY <1>2, PolisherDoneAlike
  <1> HIDE DEF done
  <1>5. CASE Quietly(s, done)
    <2>1. Alike(old, done, live)
      BY <1>3, <1>4 DEF Alike, Unfinished, Still, SameStart, StartCall, SameFinish,
         FinishCall, SamePhase, SameOffer
    <2> QED
      BY <1>5, <2>1, QuietlyServes
  <1>6. CASE /\ live /\ state = "polishing" /\ Transition("choosing")
             /\ ses' = [ses EXCEPT ![s] = c]
             /\ outbox' = Append(<<Results(s, "final")>>, Notification(s, "phase", "choosing"))
    <2>1. /\ c.start = done.start /\ c.finish = done.finish /\ c.cancel = done.cancel
          /\ c.fail = done.fail /\ c.phase = "choosing" /\ c.offered = Choices
          /\ c.events = done.events
      BY <1>4 DEF ActiveSession
    <2> HIDE DEF c
    <2>2. /\ SameStart(old, c) /\ c.finish = old.finish /\ c.cancel = old.cancel
          /\ c.fail = old.fail /\ c.events = "ended"
      BY <1>3, <1>4, <2>1 DEF SameStart, StartCall
    <2>3. outbox' = <<Service!Event(s, "results", "final"), Service!Phase(s, "choosing")>>
      BY <1>6, AnnouncedAfter
    <2> QED
      BY <1>6, <2>1, <2>2, <2>3, ChoosingServes
  <1> QED
    BY <1>1, <1>5, <1>6

LEMMA TextServes ==
  ASSUME Inv, NEW s \in Sessions, WholeNow(s), LocatedNow(s), TextStep(s)
  PROVE  ServiceStep /\ LocatedNow(s)'
  <1> DEFINE a == ses[s]
             live == active = s
  <1> TypeOK /\ a \in ActiveSession
    BY DEF Inv, TypeOK
  <1>1. Alike(a, PolisherDone(a), live)
    BY PolisherDoneAlike
  <1>2. Alike(a, a, live)
    BY DEF Alike, Unfinished, Still, SameStart, SameFinish, SamePhase, SameOffer
  <1>3. CASE ProcessingFails(s)
    <2> DEFINE ended == [a EXCEPT !.events = "ended"]
    <2>1. ended \in ActiveSession
      BY DEF ActiveSession
    <2>2. Alike(a, ended, live)
      BY DEF ActiveSession, Alike, Unfinished, Still, SameStart, StartCall, SameFinish,
         FinishCall, SamePhase, SameOffer
    <2> QED
      BY <1>3, <2>1, <2>2, FailServes DEF ProcessingFails
  <1>4. CASE PolishDelta(s) /\ PolishWanted(s)
    <2> DEFINE b == [a EXCEPT !.delta = TRUE]
    <2>1. /\ live /\ state = "polishing" /\ UNCHANGED coord
          /\ ses' = [ses EXCEPT ![s] = b]
          /\ outbox' = <<Results(s, "streaming")>>
      BY <1>4 DEF PolishDelta, PolishWanted, isCurrent
    <2>2. Alike(a, b, TRUE)
      BY DEF ActiveSession, Alike, Unfinished, Still, SameStart, StartCall, SameFinish,
         FinishCall, SamePhase, SameOffer
    <2> HIDE DEF b
    <2>3. outbox' = <<Service!Event(s, "results", "streaming")>>
      BY <2>1, AnnouncedAfter
    <2>4. Service!Becomes(s, services[s], <<Service!Event(s, "results", "streaming")>>)
      BY <2>1, <2>2, <2>3, Remains DEF coord
    <2>5. Whole(a, TRUE, "polishing") /\ Located(a, TRUE, "polishing")
      <3>1. live = TRUE
        BY <2>1
      <3> QED
        BY <2>1, <3>1 DEF WholeNow, LocatedNow
    <2>6. a.cancel = "none" /\ a.phase = "polishing"
      BY <2>5 DEF Whole, Interrupted, Located, Phases
    <2>7. services[s].phase = "polishing" /\ services[s].cancel = "none"
      BY <2>6, ServiceFields DEF CancelCall
    <2>8. Service!PolishDelta(s)
      BY <2>4, <2>7 DEF Service!PolishDelta, Service!Cancelling, services
    <2>9. LocatedNow(s)'
      <3>1. Located(b, TRUE, "polishing")
        BY <2>2, <2>5, AlikeLocated
      <3>2. state' = "polishing" /\ (active' = s) = TRUE /\ ses'[s] = b
        BY <2>1 DEF coord, TypeOK
      <3> QED
        BY <3>1, <3>2 DEF LocatedNow
    <2> QED
      BY <2>8, <2>9 DEF ServiceStep, Service!Next
  <1>5. CASE PolishDelta(s) /\ ~PolishWanted(s)
    BY <1>1, <1>5, QuietlyServes DEF PolishDelta
  <1>6. CASE PolishCompleted(s)
    <2> DEFINE b == [a EXCEPT !.events = "validating"]
    <2>1. Alike(a, b, live)
      BY DEF ActiveSession, Alike, Unfinished, Still, SameStart, StartCall, SameFinish,
         FinishCall, SamePhase, SameOffer
    <2>2. Quietly(s, b) \/ Quietly(s, PolisherDone(a))
      BY <1>6 DEF PolishCompleted
    <2> QED
      BY <1>1, <2>1, <2>2, QuietlyServes
  <1>7. CASE PolishUnavailable(s) \/ PolishThrows(s)
    <2>1. PolishFallback(s, a) \/ Quietly(s, PolisherDone(a))
      BY <1>7 DEF PolishUnavailable, PolishThrows
    <2> QED
      BY <1>1, <1>2, <2>1, FallbackServes, QuietlyServes
  <1>8. CASE PolishedEmpty(s)
    <2> DEFINE empty == [a EXCEPT !.polished = FALSE]
    <2>1. empty \in ActiveSession
      BY DEF ActiveSession
    <2>2. Alike(a, empty, live) /\ empty.finish = a.finish /\ empty.fail = a.fail
      BY DEF ActiveSession, Alike, Unfinished, Still, SameStart, StartCall, SameFinish,
         FinishCall, SamePhase, SameOffer
    <2>3. PolishFallback(s, empty)
      BY <1>8 DEF PolishedEmpty
    <2> HIDE DEF empty
    <2> QED
      BY <2>1, <2>2, <2>3, FallbackServes
  <1> QED
    BY <1>3, <1>4, <1>5, <1>6, <1>7, <1>8, DeliverServes, ValidatedServes DEF TextStep

LEMMA SettlersServe ==
  ASSUME Inv, NEW s \in Sessions, WholeNow(s), LocatedNow(s),
         CancelSettles(s) \/ FailSettles(s)
  PROVE  ServiceStep /\ LocatedNow(s)'
  <1> DEFINE a == ses[s]
             live == active = s
             cancelled == [a EXCEPT !.cancel = "done"]
             reported == [a EXCEPT !.fail = "done"]
             told == [reported EXCEPT !.told = "error"]
  <1> TypeOK /\ a \in ActiveSession
    BY DEF Inv, TypeOK
  <1>1. CASE CancelSettles(s)
    <2>1. /\ a.cancel = "waiting"
          /\ \/ live /\ Settle(s, cancelled, "cancelled", <<>>)
             \/ ~live /\ Quietly(s, cancelled)
      BY <1>1 DEF CancelSettles, isCurrent
    <2>2. cancelled \in ActiveSession
      BY DEF ActiveSession
    <2>3. /\ cancelled.cancel = "done" /\ cancelled.fail = a.fail
          /\ SameStart(a, cancelled) /\ SameFinish(a, cancelled)
          /\ SamePhase(a, cancelled) /\ SameOffer(a, cancelled)
      BY DEF ActiveSession, SameStart, StartCall, SameFinish, FinishCall, SamePhase, SameOffer
    <2> HIDE DEF cancelled
    <2>4. PICK now : now = live
      OBVIOUS
    <2>5. Served(cancelled, now) = [services[s] EXCEPT !.cancel = "done"]
      <3>1. Failing(cancelled, now) = Failing(a, now) /\ CancelCall(cancelled) = "done"
        BY <2>3 DEF Failing, CancelCall
      <3>2. services[s] = Served(a, now)
        BY <2>4, ServesServed DEF services
      <3> HIDE DEF a
      <3>3. Served(cancelled, now) = [Served(a, now) EXCEPT !.cancel = CancelCall(cancelled)]
        BY <2>3, <3>1, ServedCancel
      <3> QED
        BY <3>1, <3>2, <3>3, Zenon
    <2>6. services[s].cancel = "pending"
      BY <2>1, ServiceFields DEF CancelCall
    <2>7. CASE live /\ Settle(s, cancelled, "cancelled", <<>>)
      <3> DEFINE r == [services[s] EXCEPT !.cancel = "done"]
      <3>1. r = Served(cancelled, TRUE)
        BY <2>4, <2>5, <2>7
      <3>2. Service!Settle(s, r, <<>>) /\ LocatedNow(s)'
        <4> HIDE DEF r
        <4>1. /\ SameStart(cancelled, cancelled) /\ SameFinish(cancelled, cancelled)
              /\ SameCancel(cancelled, cancelled) /\ SamePhase(cancelled, cancelled)
              /\ SameOffer(cancelled, cancelled)
          BY DEF SameStart, SameFinish, SameCancel, SamePhase, SameOffer
        <4> QED
          BY <2>2, <2>7, <3>1, <4>1, SettleBy
      <3>3. Service!CancelSettles(s)
        BY <2>6, <3>2 DEF Service!CancelSettles, Service!Cancelling, services
      <3> QED
        BY <3>2, <3>3 DEF ServiceStep, Service!Next, Service!Promise
    <2>8. CASE ~live /\ Quietly(s, cancelled)
      <3>1. /\ ses' = [ses EXCEPT ![s] = cancelled] /\ UNCHANGED coord /\ outbox' = <<>>
        BY <2>8 DEF Quietly
      <3>2. services' = [services EXCEPT ![s] = Served(cancelled, now)]
        BY <2>4, <3>1, ServicesChange DEF coord
      <3>3. services' = [services EXCEPT ![s] = [services[s] EXCEPT !.cancel = "done"]]
        BY <2>5, <3>2, Zenon
      <3>4. Service!CancelSettles(s)
        BY <2>6, <2>8, <3>1, <3>3
        DEF Service!CancelSettles, Service!Cancelling, Service!book, services, coord
      <3>5. LocatedNow(s)'
        BY <2>8, <3>1 DEF LocatedNow, Located, coord
      <3> QED
        BY <3>4, <3>5 DEF ServiceStep, Service!Next, Service!Promise
    <2> QED
      BY <2>1, <2>7, <2>8
  <1>2. CASE FailSettles(s)
    <2> DEFINE events == <<Notification(s, "error", "failure")>>
    <2>1. /\ a.fail = "waiting"
          /\ \/ live /\ Settle(s, told, "failed", events)
             \/ ~live /\ Quietly(s, reported)
      BY <1>2 DEF FailSettles, isCurrent
    <2>2. CASE live /\ Settle(s, told, "failed", events)
      <3>1. told \in ActiveSession
        BY DEF ActiveSession
      <3>2. /\ SameStart(a, told) /\ SameFinish(a, told) /\ SameCancel(a, told)
            /\ SamePhase(a, told) /\ SameOffer(a, told)
        BY DEF ActiveSession, SameStart, StartCall, SameFinish, FinishCall, SameCancel,
           CancelCall, SamePhase, SameOffer
      <3>3. services[s] = Served(a, TRUE)
        BY <2>2, ActiveServed
      <3>4. events = <<Service!Event(s, "error", "failure")>>
        BY DEF Notification, Service!Event
      <3> HIDE DEF told, events
      <3>5. Service!Settle(s, services[s], events) /\ LocatedNow(s)'
        BY <2>2, <3>1, <3>2, <3>3, SettleBy
      <3>6. services[s].failing
        BY <2>1, <2>2, ServiceFields
      <3>7. Service!FailSettles(s)
        BY <3>4, <3>5, <3>6 DEF Service!FailSettles, services
      <3> QED
        BY <3>5, <3>7 DEF ServiceStep, Service!Next, Service!Progress
    <2>3. CASE ~live /\ Quietly(s, reported)
      <3>1. Alike(a, reported, live)
        BY <2>3 DEF ActiveSession, Alike, Unfinished, Still, SameStart, StartCall, SameFinish,
           FinishCall, SamePhase, SameOffer
      <3> QED
        BY <2>3, <3>1, QuietlyServes
    <2> QED
      BY <2>1, <2>2, <2>3
  <1> QED
    BY <1>1, <1>2

-------------------------------------------------------------------------------
(***************************************************************************)
(* The calls of the client.                                                *)
(***************************************************************************)
LEMMA TwoFields ==
  ASSUME NEW S, NEW f, f = [x \in S |-> f[x]], NEW s \in S,
         NEW r, r = [f[s] EXCEPT !.start = "pending", !.phase = "preparing"]
  PROVE  [f EXCEPT ![s] = r] = [f EXCEPT ![s].start = "pending", ![s].phase = "preparing"]
  <1> DEFINE g == [f EXCEPT ![s].start = "pending"]
  <1>1. g = [f EXCEPT ![s] = [f[s] EXCEPT !.start = "pending"]]
    OBVIOUS
  <1>2. g[s] = [f[s] EXCEPT !.start = "pending"] /\ g = [x \in S |-> g[x]]
    OBVIOUS
  <1>3. \A x \in S \ {s} : g[x] = f[x]
    OBVIOUS
  <1> HIDE DEF g
  <1>4. r = [g[s] EXCEPT !.phase = "preparing"]
    BY <1>2, Zenon
  <1>5. [g EXCEPT ![s] = r] = [f EXCEPT ![s] = r]
    BY <1>2, <1>3
  <1>6. [g EXCEPT ![s].phase = "preparing"] = [g EXCEPT ![s] = r]
    BY <1>4
  <1>7. [f EXCEPT ![s].start = "pending", ![s].phase = "preparing"]
          = [g EXCEPT ![s].phase = "preparing"]
    BY DEF g
  <1> QED
    BY <1>5, <1>6, <1>7

LEMMA OpenServes ==
  ASSUME Inv, NEW s \in Sessions, WholeNow(s), Start(s)
  PROVE  ServiceStep /\ LocatedNow(s)'
  <1> DEFINE a == ses[s]
             live == active = s
  <1> TypeOK /\ a \in ActiveSession
    BY DEF Inv, TypeOK
  <1>1. Whole(a, live, state) /\ a.start = "none" /\ ~live
    BY NoneIsNoSession DEF WholeNow, Start
  <1>2. PICK policy \in Policies :
          LET marker == Marker(policy, "auto") IN
          /\ ses' = [ses EXCEPT ![s].start = "creating", ![s].phase = "preparing",
                                ![s].policy = policy, ![s].marker = marker]
          /\ outbox' = <<Notification(s, "phase", "preparing"), PolishingState(s, marker)>>
    BY DEF Start
  <1> DEFINE marker == Marker(policy, "auto")
             b == [a EXCEPT !.start = "creating", !.phase = "preparing",
                            !.policy = policy, !.marker = marker]
  <1>3. /\ ses' = [ses EXCEPT ![s] = b] /\ active' = s /\ state' = "starting"
        /\ gate' = "self" /\ lastSettled' = lastSettled /\ active = None /\ gate = "none"
    BY <1>2 DEF TypeOK, Start
  <1>4. PICK word : word = IF marker THEN "on" ELSE "off"
    OBVIOUS
  <1>5. /\ outbox' = <<Service!Phase(s, "preparing"), Service!Event(s, "polishingState", word)>>
        /\ word \in {"on", "off"}
    BY <1>2, <1>4, Zenon DEF Notification, PolishingState, Service!Phase, Service!Event
  <1> HIDE DEF marker
  <1>6. /\ b.start = "creating" /\ b.phase = "preparing" /\ b.fail = a.fail
        /\ b.cancel = a.cancel /\ b.finish = a.finish /\ b.events = a.events
        /\ b.offered = a.offered
    BY DEF ActiveSession
  <1>7. a.fail = "none" /\ a.cancel = "none"
    <2> HIDE DEF a
    <2> QED
      BY <1>1 DEF Whole, Held, Interrupted
  <1>8. a.finish \in {"none", "rejected"} /\ a.events # "processing"
    <2> HIDE DEF a
    <2> QED
      BY <1>1 DEF Whole, Recorded, Working
  <1> HIDE DEF b
  <1>9. LocatedNow(s)'
    <2>1. Located(b, TRUE, "starting")
      BY <1>6, <1>7, <1>8 DEF Located, Phases
    <2>2. ses'[s] = b /\ (active' = s) = TRUE
      BY <1>3 DEF TypeOK
    <2> QED
      BY <1>3, <2>1, <2>2 DEF LocatedNow
  <1>10. services' = [services EXCEPT ![s] = Served(b, TRUE)]
    <2>1. \A t \in Sessions \ {s} : active' = t <=> active = t
      BY <1>3, NoneIsNoSession
    <2>2. services' = [services EXCEPT ![s] = Served(b, active' = s)]
      BY <1>3, <2>1, ServicesChange
    <2> QED
      BY <1>3, <2>2
  <1>11. Served(b, TRUE) = [services[s] EXCEPT !.start = "pending", !.phase = "preparing"]
    <2>1. PICK now : now = FALSE
      OBVIOUS
    <2>2. /\ Failing(b, now) = Failing(a, now) /\ SameFinish(a, b) /\ SameCancel(a, b)
          /\ SameOffer(a, b)
      BY <1>6, <2>1 DEF Failing, SameFinish, FinishCall, SameCancel, CancelCall, SameOffer
    <2>3. StartCall(b) = "pending"
      BY <1>6 DEF StartCall
    <2>4. Failing(b, TRUE) = FALSE /\ Failing(b, now) = FALSE
      BY <1>6, <1>7, <2>1 DEF Failing
    <2>5. Served(b, TRUE) = Served(b, now)
      BY <2>4, Zenon DEF Served
    <2>6. services[s] = Served(a, now)
      <3>1. (active = s) = now
        BY <1>1, <2>1
      <3> QED
        BY <3>1, ServesServed DEF services
    <2> HIDE DEF a
    <2>7. Served(b, now) = [Served(a, now) EXCEPT !.start = StartCall(b), !.phase = b.phase]
      BY <2>2, ServedRecord
    <2> QED
      BY <1>6, <2>3, <2>5, <2>6, <2>7, Zenon
  <1>12. services' = [services EXCEPT ![s].start = "pending", ![s].phase = "preparing"]
    <2>1. services = [x \in Sessions |-> services[x]]
      BY DEF services
    <2> HIDE DEF services
    <2>2. [services EXCEPT ![s] = Served(b, TRUE)]
            = [services EXCEPT ![s].start = "pending", ![s].phase = "preparing"]
      BY <1>11, <2>1, TwoFields
    <2> QED
      BY <1>10, <2>2
  <1>13. services[s].start = "none"
    BY <1>1, ServiceFields DEF StartCall
  <1>14. Service!Open(s)
    BY <1>3, <1>5, <1>12, <1>13 DEF Service!Open, services
  <1> QED
    BY <1>9, <1>14 DEF ServiceStep, Service!Next, Service!Call

LEMMA ToggleServes ==
  ASSUME Inv, NEW s \in Sessions, WholeNow(s), LocatedNow(s), NEW enabled \in Toggles,
         SetPolishingEnabled(s, enabled)
  PROVE  ServiceStep /\ LocatedNow(s)'
  <1> DEFINE a == ses[s]
             mode == IF enabled THEN "forceOn" ELSE "forceOff"
             marker == Marker(a.policy, mode)
             b == [a EXCEPT !.mode = mode, !.marker = marker]
  <1> TypeOK /\ a \in ActiveSession
    BY DEF Inv, TypeOK
  <1>1. /\ active = s /\ state = "recording"
        /\ ses' = [ses EXCEPT ![s] = b] /\ UNCHANGED coord
        /\ outbox' = IF marker = a.marker THEN <<>> ELSE <<PolishingState(s, marker)>>
    BY DEF SetPolishingEnabled, isCurrent, TypeOK
  <1>2. PICK events : events = outbox'
    OBVIOUS
  <1>3. events \in {<<>>, <<Service!Event(s, "polishingState", "on")>>,
                    <<Service!Event(s, "polishingState", "off")>>}
    <2>1. PICK word : word = IF marker THEN "on" ELSE "off"
      OBVIOUS
    <2>2. word \in {"on", "off"} /\ PolishingState(s, marker) = Service!Event(s, "polishingState", word)
      BY <2>1, Zenon DEF PolishingState, Notification, Service!Event
    <2>3. events = <<>> \/ events = <<Service!Event(s, "polishingState", word)>>
      BY <1>1, <1>2, <2>2
    <2> QED
      BY <2>2, <2>3
  <1> HIDE DEF mode, marker
  <1>4. Alike(a, b, TRUE)
    BY DEF ActiveSession, Alike, Unfinished, Still, SameStart, StartCall, SameFinish, FinishCall,
       SamePhase, SameOffer
  <1> HIDE DEF b
  <1>5. (active = s) = TRUE
    BY <1>1
  <1>6. Located(a, TRUE, state) /\ Whole(a, TRUE, state)
    BY <1>5 DEF LocatedNow, WholeNow
  <1>7. LocatedNow(s)'
    <2>1. Located(b, TRUE, state)
      BY <1>4, <1>6, AlikeLocated
    <2>2. ses'[s] = b /\ (active' = s) = TRUE /\ state' = state
      BY <1>1 DEF TypeOK, coord
    <2> QED
      BY <2>1, <2>2 DEF LocatedNow
  <1>8. Service!Becomes(s, services[s], events)
    BY <1>1, <1>2, <1>4, Remains DEF coord
  <1>9. a.phase = "recording" /\ a.finish \in {"none", "rejected"} /\ a.cancel = "none"
    <2> HIDE DEF a
    <2> QED
      BY <1>1, <1>6 DEF Located, Phases, Whole, Interrupted
  <1>10. /\ services[s].phase = "recording" /\ services[s].cancel = "none"
         /\ services[s].finish \in {"none", "rejected"}
    BY <1>9, ServiceFields DEF CancelCall, FinishCall
  <1>11. Service!Toggle(s)
    BY <1>1, <1>3, <1>8, <1>10
    DEF Service!Toggle, Service!CanToggle, Service!Cancelling, services
  <1> QED
    BY <1>7, <1>11 DEF ServiceStep, Service!Next, Service!Call

LEMMA FinishAccepted ==
  ASSUME Inv, NEW s \in Sessions, WholeNow(s), LocatedNow(s), Finish(s)
  PROVE  ServiceStep /\ LocatedNow(s)'
  <1> DEFINE a == ses[s]
             stopping == [a EXCEPT !.finish = "stopping", !.timer = FALSE]
             rejected == [a EXCEPT !.finish = "rejected"]
  <1> TypeOK /\ a \in ActiveSession
    BY DEF Inv, TypeOK
  <1>1. active = s /\ a.finish = "none" /\ (active = s) = TRUE
    BY DEF Finish, isCurrent
  <1>2. Located(a, TRUE, state) /\ Whole(a, TRUE, state)
    BY <1>1 DEF LocatedNow, WholeNow
  <1>3. ASSUME NEW b, SameStart(a, b), SamePhase(a, b), SameOffer(a, b), b.fail = a.fail,
               b.cancel = a.cancel, ses' = [ses EXCEPT ![s] = b],
               UNCHANGED <<active, lastSettled, gate>>, outbox' = <<>>
        PROVE  Service!Becomes(s, [services[s] EXCEPT !.finish = FinishCall(b)], <<>>)
    <2>1. PICK now : now = TRUE
      OBVIOUS
    <2>2. Failing(b, now) = Failing(a, now) /\ SameCancel(a, b)
      BY <1>3 DEF Failing, SameCancel, CancelCall
    <2>3. services[s] = Served(a, now)
      BY <1>1, <2>1, ActiveServed
    <2>4. Served(b, now) = [Served(a, now) EXCEPT !.finish = FinishCall(b)]
      <3> HIDE DEF a
      <3> QED
        BY <1>3, <2>2, ServedFinish
    <2>5. Served(b, TRUE) = [services[s] EXCEPT !.finish = FinishCall(b)]
      BY <2>1, <2>3, <2>4, Zenon
    <2> QED
      BY <1>1, <1>3, <2>5, BecomesBy
  <1>4. services[s].finish = "none" /\ services[s].phase = a.phase
        /\ services[s].cancel = CancelCall(a)
    BY <1>1, ServiceFields DEF FinishCall
  <1>5. CASE /\ state = "recording" /\ Transition("finishing")
             /\ ses' = [ses EXCEPT ![s].finish = "stopping", ![s].timer = FALSE]
             /\ outbox' = <<>>
    <2>1. /\ ses' = [ses EXCEPT ![s] = stopping] /\ state' = "finishing"
          /\ UNCHANGED <<active, lastSettled, gate>>
      BY <1>5 DEF Transition, TypeOK
    <2>2. /\ SameStart(a, stopping) /\ SamePhase(a, stopping) /\ SameOffer(a, stopping)
          /\ stopping.fail = a.fail /\ stopping.cancel = a.cancel
          /\ stopping.phase = a.phase /\ stopping.events = a.events
          /\ stopping.finish = "stopping"
      BY DEF ActiveSession, SameStart, StartCall, SamePhase, SameOffer
    <2>3. a.phase = "recording" /\ a.cancel = "none"
      <3> HIDE DEF a
      <3> QED
        BY <1>2, <1>5 DEF Located, Phases, Whole, Interrupted
    <2> HIDE DEF stopping
    <2>4. FinishCall(stopping) = "pending"
      BY <2>2 DEF FinishCall
    <2>5. Service!Becomes(s, [services[s] EXCEPT !.finish = "pending"], <<>>)
      <3>1. Service!Becomes(s, [services[s] EXCEPT !.finish = FinishCall(stopping)], <<>>)
        BY <1>3, <1>5, <2>1, <2>2
      <3> QED
        BY <2>4, <3>1
    <2>6. LocatedNow(s)'
      <3>1. Located(stopping, TRUE, "finishing")
        BY <1>2, <2>2, <2>3 DEF Located, Phases
      <3>2. ses'[s] = stopping /\ (active' = s) = TRUE
        BY <1>1, <2>1 DEF TypeOK
      <3> QED
        BY <2>1, <3>1, <3>2 DEF LocatedNow
    <2>7. Service!Finish(s)
      BY <1>4, <2>3, <2>5 DEF Service!Finish, Service!Cancelling, services, CancelCall
    <2> QED
      BY <2>6, <2>7 DEF ServiceStep, Service!Next, Service!Call
  <1>6. CASE state \in {"starting", "cancelling"} /\ Quietly(s, rejected)
    <2>1. /\ ses' = [ses EXCEPT ![s] = rejected] /\ UNCHANGED coord /\ outbox' = <<>>
      BY <1>6 DEF Quietly
    <2>2. /\ SameStart(a, rejected) /\ SamePhase(a, rejected) /\ SameOffer(a, rejected)
          /\ rejected.fail = a.fail /\ rejected.cancel = a.cancel
          /\ rejected.phase = a.phase /\ rejected.events = a.events
          /\ rejected.finish = "rejected"
      BY DEF ActiveSession, SameStart, StartCall, SamePhase, SameOffer
    <2>3. a.phase = "preparing" \/ CancelCall(a) = "pending"
      <3>1. CASE state = "starting"
        BY <1>2, <3>1 DEF Located
      <3>2. CASE state = "cancelling"
        <4>1. a.cancel # "none" /\ a.cancel # "done"
          <5> HIDE DEF a
          <5> QED
            BY <1>2, <3>2 DEF Located, Whole, Interrupted
        <4> QED
          BY <4>1 DEF CancelCall, ActiveSession
      <3> QED
        BY <1>6, <3>1, <3>2
    <2> HIDE DEF rejected
    <2>4. FinishCall(rejected) = "rejected"
      BY <2>2 DEF FinishCall
    <2>5. Service!Becomes(s, [services[s] EXCEPT !.finish = "rejected"], <<>>)
      <3>1. Service!Becomes(s, [services[s] EXCEPT !.finish = FinishCall(rejected)], <<>>)
        BY <1>3, <2>1, <2>2 DEF coord
      <3> QED
        BY <2>4, <3>1
    <2>6. LocatedNow(s)'
      <3>1. Located(rejected, TRUE, state)
        BY <1>2, <2>2 DEF Located
      <3>2. ses'[s] = rejected /\ (active' = s) = TRUE /\ state' = state
        BY <1>1, <2>1 DEF TypeOK, coord
      <3> QED
        BY <3>1, <3>2 DEF LocatedNow
    <2>7. Service!Finish(s)
      BY <1>4, <2>3, <2>5 DEF Service!Finish, Service!Cancelling, services
    <2> QED
      BY <2>6, <2>7 DEF ServiceStep, Service!Next, Service!Call
  <1> QED
    BY <1>5, <1>6 DEF Finish

LEMMA CancelAccepted ==
  ASSUME Inv, NEW s \in Sessions, LocatedNow(s), Cancel(s)
  PROVE  ServiceStep /\ LocatedNow(s)'
  <1> DEFINE a == ses[s]
             c == Interrupt(a)
             b == [c EXCEPT !.cancel = "waiting"]
  <1> TypeOK /\ a \in ActiveSession
    BY DEF Inv, TypeOK
  <1>1. active = s /\ a.cancel = "none" /\ (active = s) = TRUE
    BY DEF Cancel, isCurrent
  <1>2. /\ ses' = [ses EXCEPT ![s] = b] /\ state' = "cancelling" /\ outbox' = <<>>
        /\ UNCHANGED <<active, lastSettled, gate>>
    BY DEF Cancel, Transition, TypeOK
  <1>3. /\ c \in ActiveSession /\ c.start = a.start /\ c.fail = a.fail /\ Kept(a, c)
    BY InterruptFields
  <1>4. c.offered = a.offered
    BY <1>3 DEF Interrupt, ActiveSession
  <1> HIDE DEF c
  <1>5. /\ b.cancel = "waiting" /\ b.start = c.start /\ b.fail = c.fail /\ b.phase = c.phase
        /\ b.finish = c.finish /\ b.events = c.events /\ b.offered = c.offered
    BY <1>3 DEF ActiveSession
  <1>6. /\ b.start = a.start /\ b.fail = a.fail /\ b.phase = a.phase /\ b.finish = a.finish
        /\ b.events = a.events /\ b.offered = a.offered
    BY <1>3, <1>4, <1>5 DEF Kept
  <1> HIDE DEF b
  <1>7. Served(b, TRUE) = [services[s] EXCEPT !.cancel = "pending"]
    <2>1. PICK now : now = TRUE
      OBVIOUS
    <2>2. /\ Failing(b, now) = Failing(a, now) /\ SameStart(a, b) /\ SameFinish(a, b)
          /\ SamePhase(a, b) /\ SameOffer(a, b) /\ CancelCall(b) = "pending"
      BY <1>5, <1>6
      DEF Failing, SameStart, StartCall, SameFinish, FinishCall, SamePhase, SameOffer, CancelCall
    <2>3. services[s] = Served(a, now)
      BY <1>1, <2>1, ActiveServed
    <2>4. Served(b, now) = [Served(a, now) EXCEPT !.cancel = CancelCall(b)]
      <3> HIDE DEF a
      <3> QED
        BY <2>2, ServedCancel
    <2> QED
      BY <2>1, <2>2, <2>3, <2>4, Zenon
  <1>8. Service!Becomes(s, [services[s] EXCEPT !.cancel = "pending"], <<>>)
    BY <1>1, <1>2, <1>7, BecomesBy
  <1>9. services[s].cancel = "none"
    BY <1>1, ServiceFields DEF CancelCall
  <1>10. Service!Cancel(s)
    BY <1>8, <1>9 DEF Service!Cancel, services
  <1>11. LocatedNow(s)'
    <2>1. Located(a, TRUE, state)
      BY <1>1 DEF LocatedNow
    <2>2. Located(b, TRUE, "cancelling")
      BY <1>5, <1>6, <2>1 DEF Located, Phases
    <2>3. ses'[s] = b /\ (active' = s) = TRUE
      BY <1>1, <1>2 DEF TypeOK
    <2> QED
      BY <1>2, <2>2, <2>3 DEF LocatedNow
  <1> QED
    BY <1>10, <1>11 DEF ServiceStep, Service!Next, Service!Call

LEMMA SelectServes ==
  ASSUME Inv, NEW s \in Sessions, WholeNow(s), SoundNow(s), LocatedNow(s),
         NEW choice \in Choices, SelectResult(s, choice)
  PROVE  ServiceStep /\ LocatedNow(s)'
  <1> DEFINE a == ses[s]
             request == IF a.request = "live" THEN "aborted" ELSE a.request
             b == [a EXCEPT !.request = request]
             c == [b EXCEPT !.told = choice]
             events == Append(<<>>, Notification(s, "completed", choice))
  <1> TypeOK /\ a \in ActiveSession
    BY DEF Inv, TypeOK
  <1>1. active = s /\ state \in {"polishing", "choosing"} /\ (active = s) = TRUE
    BY DEF SelectResult, isCurrent
  <1>2. Settle(s, c, "completed", events)
    BY DEF SelectResult, Complete
  <1>3. Whole(a, TRUE, state) /\ Located(a, TRUE, state) /\ Sound(a, TRUE, state)
    BY <1>1 DEF WholeNow, LocatedNow, SoundNow
  <1>4. choice \in a.offered
    <2>1. IF choice = "polished" THEN a.polished ELSE a.transcript
      BY Zenon DEF SelectResult
    <2>2. (choice = "polished" /\ a.polished) \/ (choice = "transcript" /\ a.transcript)
      BY <2>1, Zenon DEF Choices
    <2> HIDE DEF a
    <2> QED
      BY <1>1, <1>3, <2>2 DEF Sound
  <1>5. a.phase = state /\ a.cancel = "none"
    <2> HIDE DEF a
    <2> QED
      BY <1>1, <1>3 DEF Located, Phases, Whole, Interrupted
  <1>6. events = <<Service!Event(s, "completed", choice)>>
    BY DEF Notification, Service!Event
  <1>7. b \in ActiveSession /\ b.start = a.start /\ b.finish = a.finish /\ b.cancel = a.cancel
        /\ b.phase = a.phase /\ b.offered = a.offered
    <2>1. request \in {"none", "live", "aborted", "done"}
      BY DEF ActiveSession
    <2> HIDE DEF request
    <2> QED
      BY <2>1 DEF ActiveSession
  <1> HIDE DEF b
  <1>8. c \in ActiveSession /\ c.start = b.start /\ c.finish = b.finish /\ c.cancel = b.cancel
        /\ c.phase = b.phase /\ c.offered = b.offered
    BY <1>7 DEF ActiveSession, Choices
  <1> HIDE DEF c, events
  <1>9. /\ SameStart(a, c) /\ SameFinish(a, c) /\ SameCancel(a, c) /\ SamePhase(a, c)
        /\ SameOffer(a, c)
    BY <1>7, <1>8 DEF SameStart, StartCall, SameFinish, FinishCall, SameCancel, CancelCall,
                      SamePhase, SameOffer
  <1>10. services[s] = Served(a, TRUE)
    BY <1>1, ActiveServed
  <1>11. Service!Settle(s, services[s], events) /\ LocatedNow(s)'
    BY <1>1, <1>2, <1>8, <1>9, <1>10, SettleBy
  <1>12. /\ services[s].phase = state /\ services[s].cancel = "none"
         /\ choice \in services[s].offered
    BY <1>4, <1>5, ServiceFields DEF CancelCall
  <1>13. Service!Select(s, choice)
    BY <1>1, <1>6, <1>11, <1>12
    DEF Service!Select, Service!CanSelect, Service!Cancelling, services
  <1>14. choice \in Service!Choices
    BY DEF Choices, Service!Choices
  <1> QED
    BY <1>11, <1>13, <1>14 DEF ServiceStep, Service!Next, Service!Call

LEMMA ClientServes ==
  ASSUME Inv, NEW s \in Sessions, WholeNow(s), SoundNow(s), LocatedNow(s), ClientStep(s)
  PROVE  ServiceStep /\ LocatedNow(s)'
  BY OpenServes, ToggleServes, FinishAccepted, CancelAccepted, SelectServes DEF ClientStep

-------------------------------------------------------------------------------
(***************************************************************************)
(* The invariant and the refinement.                                       *)
(***************************************************************************)
LEMMA OtherSessionsLocated ==
  ASSUME Inv, ServiceInv, NEW s \in Sessions, Begins(s) \/ Works(s) \/ Settles(s),
         NEW t \in Sessions \ {s}
  PROVE  LocatedNow(t)'
  <1>1. PICK b \in ActiveSession : ses' = [ses EXCEPT ![s] = b]
    BY DEF Begins, Works, Settles
  <1>2. ses'[t] = ses[t]
    BY <1>1, OneRecordChanges DEF Inv
  <1>3. active' = t => active = t /\ state' = state
    BY NoneIsNoSession DEF Begins, Works, Settles, coord
  <1>4. Located(ses[t], active = t, state)
    BY DEF ServiceInv, LocatedNow
  <1>5. Located(ses[t], active' = t, state')
    BY <1>3, <1>4 DEF Located
  <1> QED
    BY <1>2, <1>5 DEF LocatedNow

LEMMA ServiceInit == Init => ServiceInv /\ Service!Init
  <1> SUFFICES ASSUME Init
               PROVE  ServiceInv /\ Service!Init
    OBVIOUS
  <1>1. ASSUME NEW s \in Sessions
        PROVE  LocatedNow(s) /\ Serves(s) = Service!Fresh
    <2>1. ses[s] = NewSession /\ (active = s) = FALSE
      BY NoneIsNoSession DEF Init
    <2>2. Located(NewSession, FALSE, state)
      BY DEF Located
    <2>3. LocatedNow(s)
      BY <2>1, <2>2 DEF LocatedNow
    <2>4. /\ StartCall(NewSession) = "none" /\ FinishCall(NewSession) = "none"
          /\ CancelCall(NewSession) = "none" /\ NewSession.phase = "none"
          /\ NewSession.offered = {} /\ Failing(NewSession, FALSE) = FALSE
      BY DEF NewSession, StartCall, FinishCall, CancelCall, Failing
    <2>5. Serves(s) = Served(NewSession, FALSE)
      BY <2>1, ServesServed
    <2>6. Served(NewSession, FALSE) = Shown("none", "none", "none", FALSE, "none", {})
      BY <2>4, Zenon DEF Served
    <2> QED
      BY <2>3, <2>5, <2>6 DEF Shown, Service!Fresh
  <1>2. Service!Init
    BY <1>1 DEF Init, Service!Init
  <1> QED
    BY <1>1, <1>2 DEF ServiceInv

LEMMA ServiceNext ==
  ASSUME Inv, CommitInv, ResourceInv, ServiceInv, [Next]_vars
  PROVE  ServiceStep /\ ServiceInv'
  <1>1. ASSUME NEW s \in Sessions, SessionStep(s)
        PROVE  ServiceStep /\ ServiceInv'
    <2>1. WholeNow(s) /\ SoundNow(s) /\ LocatedNow(s)
      BY DEF ResourceInv, CommitInv, ServiceInv
    <2>2. ServiceStep /\ LocatedNow(s)'
      BY <1>1, <2>1, ClientServes, StartServes, FinishServes, AudioServes, AsrServes,
         TextServes, SettlersServe DEF SessionStep
    <2>3. Begins(s) \/ Works(s) \/ Settles(s)
      BY <1>1, StepShapes DEF Inv
    <2> QED
      BY <2>2, <2>3, OtherSessionsLocated DEF ServiceInv
  <1>2. CASE OtherAcquires \/ OtherReleases
    <2>1. services' = services
      BY <1>2 DEF OtherAcquires, OtherReleases, services, Serves, isCurrent
    <2>2. Service!GateMoves
      BY <1>2, <2>1 DEF OtherAcquires, OtherReleases, Service!GateMoves, services
    <2> QED
      BY <1>2, <2>2
      DEF OtherAcquires, OtherReleases, ServiceStep, Service!Next, ServiceInv, LocatedNow
  <1>3. CASE UNCHANGED vars
    <2>1. services' = services
      BY <1>3 DEF vars, services, Serves, isCurrent
    <2> QED
      BY <1>3, <2>1
      DEF vars, ServiceStep, Service!vars, Service!book, services, ServiceInv, LocatedNow
  <1> QED
    BY <1>1, <1>2, <1>3 DEF Next

\* Every behaviour of the coordinator, whatever its backends do, is one of the service
\* its RPC connection relies on: which calls it accepts, how their promises settle, and
\* which events it publishes when.
THEOREM ServiceCorrect == Spec => ImplementsService
  <1>1. Init => ServiceInv /\ Service!Init
    BY ServiceInit
  <1>2. Inv /\ CommitInv /\ ResourceInv /\ ServiceInv /\ [Next]_vars
          => [Service!Next]_(Service!vars) /\ ServiceInv'
    BY ServiceNext DEF ServiceStep
  <1> QED
    BY <1>1, <1>2, Invariance, CommitInvariance, ResourceInvariance, PTL
    DEF Spec, ImplementsService, Service!Spec

===============================================================================
