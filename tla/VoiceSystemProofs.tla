-------------------------- MODULE VoiceSystemProofs --------------------------
(***************************************************************************)
(* Theorems about VoiceSystem.                                             *)
(***************************************************************************)
EXTENDS VoiceSystem, SequenceTheorems, WellFoundedInduction, TLAPS

Methods == {"initialize", "start", "finish", "cancel", "select", "polish"}
Choices == {"transcript", "polished"}
Texts == Choices \cup {"none", "user", "1", "on", "off", "ok", "error", "failure",
                        "streaming", "final", "preparing", "recording", "recognizing",
                        "processing", "polishing", "choosing"}
Words == Contexts \cup Texts

\* The requests of an addon that knows of the transcripts of the sessions T and of the
\* polished texts of the sessions P.
Asked(T, P) ==
  { r \in [session : Sessions \cup {None}, method : Methods, value : Words] :
      /\ r.method \notin {"initialize", "start"} => r.session \in Sessions
      /\ r.method = "select" =>
           r.session \in T /\ r.value \in Choices /\ (r.value = "polished" => r.session \in P) }

-------------------------------------------------------------------------------
(***************************************************************************)
(* The addon, when the keyboard is at f.                                   *)
(***************************************************************************)
VoiceOk(v, f, T, P) ==
  /\ DOMAIN v = DOMAIN Addon!NoVoice
  /\ v.ic \in {None, f} /\ v.id \in Sessions \cup {None} /\ v.selected \in Choices
  /\ v.ic = None => v.id = None /\ ~v.pending
  /\ v.transcript => v.id \in T
  /\ v.polished = "final" => v.id \in P

\* The fields of a context; nothing goes on where the keyboard is not.
Rests(x) == x.tap = "Idle" /\ ~x.hold /\ ~x.grace /\ ~x.panel

PlacesOk(ic, f) ==
  /\ DOMAIN ic = Contexts
  /\ \A c \in Contexts : DOMAIN ic[c] = DOMAIN Addon!IdleContext
  /\ \A c \in Contexts \ {f} : Rests(ic[c])

Fields(m, f, T, P) ==
  /\ DOMAIN m = DOMAIN Addon!Loaded(TRUE)
  /\ m.sent \in Seq(Asked(T, P))
  /\ m.pendingStart \in Contexts \cup {None}
  /\ VoiceOk(m.voice, f, T, P)
  /\ PlacesOk(m.ic, f)

\* A phase that waits for a timer has it.
Timed(x) ==
  /\ x.tap \in Addon!TapPhases
  /\ x.tap = "Pending" => x.hold
  /\ x.tap \in {"ActiveTriggerRelease", "FailedTriggerRelease"} => x.grace

\* An error has ended the recording, and a panel has its reason.
Calm(x) == x.error => x.tap \notin {"Active", "ActiveTriggerRelease"}
Shows(x, owner) == x.panel => owner \/ x.error

Place(x, owner) == Timed(x) /\ Calm(x) /\ Shows(x, owner)

AddonOk(m, f, T, P) ==
  /\ Fields(m, f, T, P)
  /\ f # None => Place(m.ic[f], m.voice.ic = f)

Keyboard == Contexts \cup {None}

\* n is m, but for what has no part in this.
Same(m, n) ==
  /\ DOMAIN n = DOMAIN m /\ n.sent = m.sent /\ n.pendingStart = m.pendingStart
  /\ n.voice = m.voice /\ n.ic = m.ic

-------------------------------------------------------------------------------
LEMMA SameKeeps ==
  ASSUME NEW m, NEW n, Same(m, n), NEW f, NEW T, NEW P
  PROVE  /\ Fields(m, f, T, P) => Fields(n, f, T, P)
         /\ AddonOk(m, f, T, P) => AddonOk(n, f, T, P)
BY DEF Same, Fields, AddonOk

LEMMA Silent ==
  ASSUME NEW f, NEW T, NEW P
  PROVE  /\ VoiceOk(Addon!NoVoice, f, T, P)
         /\ Addon!NoVoice.ic = None /\ Addon!NoVoice.id = None
BY NoneIsNobody DEF VoiceOk, Addon!NoVoice, Choices

\* Fields that are replaced.
LEMMA VoiceReplaced ==
  ASSUME NEW m, NEW f, NEW T, NEW P, Fields(m, f, T, P), NEW v, VoiceOk(v, f, T, P)
  PROVE  LET n == [m EXCEPT !.voice = v] IN
         /\ Fields(n, f, T, P)
         /\ DOMAIN n = DOMAIN m /\ n.sent = m.sent /\ n.pendingStart = m.pendingStart
         /\ n.voice = v /\ n.ic = m.ic
BY DEF Fields, Addon!Loaded

LEMMA PlaceReplaced ==
  ASSUME NEW m, NEW f \in Contexts, NEW T, NEW P, Fields(m, f, T, P),
         NEW x, DOMAIN x = DOMAIN Addon!IdleContext
  PROVE  LET n == [m EXCEPT !.ic[f] = x] IN
         /\ Fields(n, f, T, P)
         /\ DOMAIN n = DOMAIN m /\ n.sent = m.sent /\ n.pendingStart = m.pendingStart
         /\ n.voice = m.voice /\ n.ic[f] = x
<1> DEFINE n == [m EXCEPT !.ic[f] = x]
<1>1. /\ DOMAIN n = DOMAIN m /\ n.sent = m.sent /\ n.pendingStart = m.pendingStart
      /\ n.voice = m.voice /\ n.ic = [m.ic EXCEPT ![f] = x]
  BY DEF Fields, Addon!Loaded
<1> HIDE DEF n
<1>2. PlacesOk(n.ic, f) /\ n.ic[f] = x
  BY <1>1 DEF Fields, PlacesOk
<1> QED BY <1>1, <1>2 DEF Fields, n

-------------------------------------------------------------------------------
LEMMA QueueIs ==
  ASSUME NEW m, NEW f, NEW T, NEW P, Fields(m, f, T, P),
         NEW s, NEW method, NEW value, Addon!Request(s, method, value) \in Asked(T, P)
  PROVE  LET n == Addon!Queue(m, s, method, value) IN
         Fields(n, f, T, P) /\ n.ic = m.ic /\ n.voice = m.voice
<1> DEFINE r == Addon!Request(s, method, value)
           n == [m EXCEPT !.sent = Append(m.sent, r)]
<1> HIDE DEF r
<1>1. Append(m.sent, r) \in Seq(Asked(T, P))
  BY AppendProperties DEF Fields, r
<1>2. /\ DOMAIN n = DOMAIN m /\ n.sent = Append(m.sent, r) /\ n.pendingStart = m.pendingStart
      /\ n.voice = m.voice /\ n.ic = m.ic
  BY DEF Fields, Addon!Loaded
<1>3. n = Addon!Queue(m, s, method, value)
  BY DEF Addon!Queue, r
<1> HIDE DEF n
<1> QED BY <1>1, <1>2, <1>3 DEF Fields

\* What may be said of the session that is shown.
May(m, method, value, T, P) ==
  /\ method \in Methods /\ value \in Texts
  /\ method = "select" =>
       m.voice.id \in T /\ value \in Choices /\ (value = "polished" => m.voice.id \in P)

LEMMA SendIs ==
  ASSUME NEW m, NEW f, NEW T, NEW P, Fields(m, f, T, P),
         NEW method, NEW value, May(m, method, value, T, P)
  PROVE  LET n == Addon!Send(m, method, value) IN
         Fields(n, f, T, P) /\ n.ic = m.ic /\ n.voice = m.voice
<1>1. m.voice.id # None => Addon!Request(m.voice.id, method, value) \in Asked(T, P)
  BY DEF May, Asked, Words, Texts, Addon!Request, Fields, VoiceOk
<1> QED BY <1>1, QueueIs DEF Addon!Send


\* A record of a context or of the voice, with some fields replaced.
LEMMA RenderIs ==
  ASSUME NEW m, NEW f \in Keyboard, NEW T, NEW P, Fields(m, f, T, P)
  PROVE  LET n == Addon!Render(m) IN
         /\ Fields(n, f, T, P) /\ n.voice = m.voice
         /\ f # None /\ Timed(m.ic[f]) => Timed(n.ic[f])
         /\ f # None /\ m.voice.ic = f /\ Timed(m.ic[f]) => Place(n.ic[f], TRUE)
         /\ m.voice.ic = None => n = m
<1>1. CASE m.voice.ic = None
  BY <1>1 DEF Addon!Render
<1>2. CASE m.voice.ic # None
  <2>1. m.voice.ic = f /\ f \in Contexts
    BY <1>2 DEF Fields, VoiceOk, Keyboard
  <2> DEFINE x == [m.ic[f] EXCEPT !.panel = TRUE, !.error = FALSE]
             n == [m EXCEPT !.ic[f] = x]
  <2>2. DOMAIN m.ic[f] = DOMAIN Addon!IdleContext
    BY <2>1 DEF Fields, PlacesOk
  <2>3. /\ DOMAIN x = DOMAIN Addon!IdleContext
        /\ x.tap = m.ic[f].tap /\ x.hold = m.ic[f].hold /\ x.grace = m.ic[f].grace
        /\ x.error = FALSE
    BY <2>2 DEF Addon!IdleContext
  <2>4. [m EXCEPT !.ic[f].panel = TRUE, !.ic[f].error = FALSE] = n
    BY <2>1 DEF Fields, PlacesOk, Addon!Loaded
  <2>5. Addon!Render(m) = n
    BY <1>2, <2>1, <2>4 DEF Addon!Render
  <2> HIDE DEF x
  <2>6. Fields(n, f, T, P) /\ n.voice = m.voice /\ n.ic[f] = x
    BY <2>1, <2>3, PlaceReplaced
  <2> HIDE DEF n
  <2>7. /\ Timed(m.ic[f]) => Timed(n.ic[f])
        /\ Timed(m.ic[f]) => Place(n.ic[f], TRUE)
    BY <2>3, <2>6 DEF Place, Timed, Calm, Shows
  <2> QED BY <1>2, <2>1, <2>5, <2>6, <2>7
<1> QED BY <1>1, <1>2

LEMMA clearOwnPanelIs ==
  ASSUME NEW m, NEW f \in Contexts, NEW T, NEW P, Fields(m, f, T, P)
  PROVE  LET n == Addon!clearOwnPanel(m, f) IN
         /\ Fields(n, f, T, P) /\ n.voice = m.voice
         /\ Timed(m.ic[f]) /\ Calm(m.ic[f]) => \A owner : Place(n.ic[f], owner)
<1> DEFINE x == [m.ic[f] EXCEPT !.panel = FALSE]
           n == [m EXCEPT !.ic[f] = x]
<1>1. DOMAIN m.ic[f] = DOMAIN Addon!IdleContext
  BY DEF Fields, PlacesOk
<1>2. /\ DOMAIN x = DOMAIN Addon!IdleContext
      /\ x.tap = m.ic[f].tap /\ x.hold = m.ic[f].hold /\ x.grace = m.ic[f].grace
      /\ x.error = m.ic[f].error /\ x.panel = FALSE
  BY <1>1 DEF Addon!IdleContext
<1>3. Addon!clearOwnPanel(m, f) = n
  BY DEF Addon!clearOwnPanel
<1> HIDE DEF x
<1>4. Fields(n, f, T, P) /\ n.voice = m.voice /\ n.ic[f] = x
  BY <1>2, PlaceReplaced
<1> HIDE DEF n
<1>5. Timed(m.ic[f]) /\ Calm(m.ic[f]) => \A owner : Place(n.ic[f], owner)
  BY <1>2, <1>4 DEF Place, Timed, Calm, Shows
<1> QED BY <1>3, <1>4, <1>5

LEMMA RenderKeeps ==
  ASSUME NEW m, NEW f \in Keyboard, NEW T, NEW P, AddonOk(m, f, T, P)
  PROVE  AddonOk(Addon!Render(m), f, T, P)
<1> DEFINE n == Addon!Render(m)
<1>1. /\ Fields(n, f, T, P) /\ n.voice = m.voice
      /\ f # None /\ m.voice.ic = f /\ Timed(m.ic[f]) => Place(n.ic[f], TRUE)
      /\ m.voice.ic = None => n = m
  BY RenderIs DEF AddonOk
<1> HIDE DEF n
<1>2. CASE m.voice.ic = None
  BY <1>1, <1>2 DEF n
<1>3. CASE m.voice.ic # None
  <2>1. m.voice.ic = f
    BY <1>3 DEF AddonOk, Fields, VoiceOk
  <2>2. f # None => Place(n.ic[f], TRUE)
    BY <1>1, <1>3, <2>1 DEF AddonOk, Place
  <2>3. AddonOk(n, f, T, P)
    BY <1>1, <2>1, <2>2 DEF AddonOk
  <2> QED BY <2>3 DEF n
<1> QED BY <1>2, <1>3

\* A failure takes the key out of the phases that record.
LEMMA FailureStopsTheKey ==
  ASSUME NEW tap \in Addon!TapPhases
  PROVE  LET t == Addon!TapHold(tap, "Failed").phase IN
         /\ t \in Addon!TapPhases /\ t \notin {"Active", "ActiveTriggerRelease"}
         /\ t = "Pending" => tap = "Pending"
         /\ t = "FailedTriggerRelease" => tap \in {"ActiveTriggerRelease", "FailedTriggerRelease"}
BY DEF Addon!TapHold, Addon!Step, Addon!TapPhases

LEMMA handleDaemonErrorKeeps ==
  ASSUME NEW m, NEW f \in Keyboard, NEW T, NEW P, AddonOk(m, f, T, P), NEW s
  PROVE  LET n == Addon!handleDaemonError(m, s) IN AddonOk(n, f, T, P) /\ n.sent = m.sent
<1>1. CASE m.voice.ic = None \/ (s # None /\ s # m.voice.id)
  BY <1>1 DEF Addon!handleDaemonError
<1>2. CASE ~(m.voice.ic = None \/ (s # None /\ s # m.voice.id))
  <2>1. m.voice.ic = f /\ f \in Contexts /\ f # None
    BY <1>2 DEF AddonOk, Fields, VoiceOk, Keyboard
  <2> DEFINE t == Addon!TapHold(m.ic[f].tap, "Failed").phase
             x == [m.ic[f] EXCEPT !.tap = t, !.panel = TRUE, !.error = TRUE]
             n == Addon!handleDaemonError(m, s)
  <2>2. DOMAIN m.ic[f] = DOMAIN Addon!IdleContext
    BY <2>1 DEF AddonOk, Fields, PlacesOk
  <2>3. Place(m.ic[f], TRUE)
    BY <2>1 DEF AddonOk
  <2>4. /\ t \in Addon!TapPhases /\ t \notin {"Active", "ActiveTriggerRelease"}
        /\ t = "Pending" => m.ic[f].tap = "Pending"
        /\ t = "FailedTriggerRelease" =>
             m.ic[f].tap \in {"ActiveTriggerRelease", "FailedTriggerRelease"}
    BY <2>3, FailureStopsTheKey DEF Place, Timed
  <2>5. n = [m EXCEPT !.ic[f].tap = t, !.ic[f].panel = TRUE, !.ic[f].error = TRUE,
                      !.voice = Addon!NoVoice]
    BY <1>2, <2>1 DEF Addon!handleDaemonError
  <2> HIDE DEF t, n
  <2>6. /\ DOMAIN n = DOMAIN m /\ n.sent = m.sent /\ n.pendingStart = m.pendingStart
        /\ n.voice = Addon!NoVoice /\ n.ic = [m.ic EXCEPT ![f] = x]
    BY <2>1, <2>2, <2>5 DEF AddonOk, Fields, PlacesOk, Addon!Loaded, Addon!IdleContext
  <2>7. /\ DOMAIN x = DOMAIN Addon!IdleContext
        /\ x.tap = t /\ x.hold = m.ic[f].hold /\ x.grace = m.ic[f].grace /\ x.error = TRUE
    BY <2>2 DEF Addon!IdleContext
  <2> HIDE DEF x
  <2>8. PlacesOk(n.ic, f) /\ n.ic[f] = x
    BY <2>1, <2>6, <2>7 DEF AddonOk, Fields, PlacesOk
  <2>9. Fields(n, f, T, P)
    BY <2>6, <2>8, Silent DEF AddonOk, Fields
  <2>10. \A owner : Place(x, owner)
    BY <2>3, <2>4, <2>7 DEF Place, Timed, Calm, Shows
  <2>11. AddonOk(n, f, T, P)
    BY <2>8, <2>9, <2>10 DEF AddonOk
  <2> QED BY <2>6, <2>11 DEF n
<1> QED BY <1>1, <1>2

LEMMA disconnectKeeps ==
  ASSUME NEW m, NEW f \in Keyboard, NEW T, NEW P, AddonOk(m, f, T, P)
  PROVE  LET n == Addon!disconnect(m) IN AddonOk(n, f, T, P) /\ n.sent = m.sent
<1> DEFINE k == [m EXCEPT !.connection = "Disconnected", !.ready = FALSE]
<1>1. Same(m, k)
  BY DEF Same, AddonOk, Fields, Addon!Loaded
<1> HIDE DEF k
<1>2. AddonOk(k, f, T, P) /\ k.sent = m.sent
  BY <1>1, SameKeeps DEF Same
<1> QED BY <1>2, handleDaemonErrorKeeps DEF Addon!disconnect, k

\* The session of whoever has one is given up.
LEMMA cancelVoiceSessionIs ==
  ASSUME NEW m, NEW f \in Keyboard, NEW T, NEW P, Fields(m, f, T, P), NEW c \in {f, None}
  PROVE  LET n == Addon!cancelVoiceSession(m, c) IN
         Fields(n, f, T, P) /\ n.ic = m.ic /\ n.voice.ic = None
<1>1. CASE c # None /\ c # m.voice.ic
  <2>1. m.voice.ic = None
    BY <1>1 DEF Fields, VoiceOk
  <2> QED BY <1>1, <2>1 DEF Addon!cancelVoiceSession
<1>2. CASE ~(c # None /\ c # m.voice.ic)
  <2> DEFINE a == IF m.voice.id = None THEN [m EXCEPT !.pendingStart = None]
                                       ELSE Addon!Send(m, "cancel", "user")
             b == [a EXCEPT !.voice = Addon!NoVoice]
             n == Addon!cancelVoiceSession(m, c)
  <2>1. Fields(a, f, T, P) /\ a.ic = m.ic
    <3>1. CASE m.voice.id = None
      <4> DEFINE k == [m EXCEPT !.pendingStart = None]
      <4>1. DOMAIN k = DOMAIN m /\ k.sent = m.sent /\ k.pendingStart = None
            /\ k.voice = m.voice /\ k.ic = m.ic
        BY DEF Fields, Addon!Loaded
      <4>2. a = k
        BY <3>1
      <4> HIDE DEF k, a
      <4> QED BY <4>1, <4>2 DEF Fields
    <3>2. CASE m.voice.id # None
      <4>1. May(m, "cancel", "user", T, P)
        BY DEF May, Methods, Texts
      <4> QED BY <3>2, <4>1, SendIs
    <3> QED BY <3>1, <3>2
  <2>2. PICK w : w = (m.pendingCancel \/ (m.voice.id = None /\ m.voice.pending))
    OBVIOUS
  <2>3. \/ n = [b EXCEPT !.pendingCancel = a.pendingCancel \/ (m.voice.id = None /\ m.voice.pending)]
    BY <1>2 DEF Addon!cancelVoiceSession
  <2> HIDE DEF a
  <2>4. Fields(b, f, T, P) /\ b.ic = m.ic /\ b.voice.ic = None
    BY <2>1, VoiceReplaced, Silent
  <2> HIDE DEF b, n
  <2>5. PICK v : n = [b EXCEPT !.pendingCancel = v]
    BY <2>3
  <2>6. Same(b, n)
    BY <2>4, <2>5 DEF Same, Fields, Addon!Loaded
  <2>7. Fields(n, f, T, P) /\ n.ic = m.ic /\ n.voice.ic = None
    BY <2>4, <2>6, SameKeeps DEF Same
  <2> QED BY <2>7 DEF n
<1> QED BY <1>1, <1>2

LEMMA PartsKeep ==
  ASSUME NEW m, NEW n, NEW f, NEW T, NEW P, AddonOk(m, f, T, P), Fields(n, f, T, P),
         n.ic = m.ic, n.voice = m.voice
  PROVE  AddonOk(n, f, T, P)
BY DEF AddonOk

LEMMA sendPendingStartKeeps ==
  ASSUME NEW m, NEW f \in Keyboard, NEW T, NEW P, AddonOk(m, f, T, P)
  PROVE  AddonOk(Addon!sendPendingStart(m), f, T, P)
<1>1. CASE ~(m.ready /\ m.pendingStart # None)
  BY <1>1 DEF Addon!sendPendingStart
<1>2. CASE m.ready /\ m.pendingStart # None
  <2> DEFINE q == Addon!Queue(m, None, "start", m.pendingStart)
             n == [q EXCEPT !.pendingStart = None]
  <2>1. Addon!Request(None, "start", m.pendingStart) \in Asked(T, P)
    BY <1>2 DEF Asked, Addon!Request, Methods, Words, AddonOk, Fields
  <2>2. Fields(q, f, T, P) /\ q.ic = m.ic /\ q.voice = m.voice
    BY <2>1, QueueIs DEF AddonOk
  <2>3. Addon!sendPendingStart(m) = n
    BY <1>2 DEF Addon!sendPendingStart
  <2> HIDE DEF q
  <2>4. /\ DOMAIN n = DOMAIN q /\ n.sent = q.sent /\ n.pendingStart = None
        /\ n.voice = q.voice /\ n.ic = q.ic
    BY <2>2 DEF Fields, Addon!Loaded
  <2> HIDE DEF n
  <2>5. Fields(n, f, T, P)
    BY <2>2, <2>4 DEF Fields
  <2> QED BY <2>2, <2>3, <2>4, <2>5, PartsKeep
<1> QED BY <1>1, <1>2

LEMMA sendInitializeKeeps ==
  ASSUME NEW m, NEW f \in Keyboard, NEW T, NEW P, AddonOk(m, f, T, P)
  PROVE  LET n == Addon!sendInitialize([m EXCEPT !.connection = "Connected"]) IN
         AddonOk(n, f, T, P)
<1> DEFINE k == [m EXCEPT !.connection = "Connected"]
<1>1. Same(m, k)
  BY DEF Same, AddonOk, Fields, Addon!Loaded
<1> HIDE DEF k
<1>2. AddonOk(k, f, T, P)
  BY <1>1, SameKeeps
<1>3. Addon!Request(None, "initialize", "1") \in Asked(T, P)
  BY DEF Asked, Addon!Request, Methods, Words, Texts
<1>4. AddonOk(Addon!sendInitialize(k), f, T, P)
  BY <1>2, <1>3, QueueIs, PartsKeep DEF Addon!sendInitialize, AddonOk
<1> QED BY <1>4 DEF k

Dials == {"connected", "connecting", "refused", "none"}

LEMMA ensureConnectedKeeps ==
  ASSUME NEW m, NEW f \in Keyboard, NEW T, NEW P, AddonOk(m, f, T, P),
         NEW dial \in Dials, m.connection = "Disconnected" => dial # "none"
  PROVE  AddonOk(Addon!ensureConnected(m, dial), f, T, P)
<1>1. CASE m.connection # "Disconnected"
  BY <1>1 DEF Addon!ensureConnected
<1>2. CASE m.connection = "Disconnected" /\ dial = "connected"
  BY <1>2, sendInitializeKeeps DEF Addon!ensureConnected
<1>3. CASE m.connection = "Disconnected" /\ dial = "connecting"
  <2> DEFINE k == [m EXCEPT !.connection = "Connecting"]
  <2>1. Same(m, k)
    BY DEF Same, AddonOk, Fields, Addon!Loaded
  <2>2. Addon!ensureConnected(m, dial) = k
    BY <1>3 DEF Addon!ensureConnected
  <2> HIDE DEF k
  <2> QED BY <2>1, <2>2, SameKeeps
<1>4. CASE m.connection = "Disconnected" /\ dial = "refused"
  BY <1>4, handleDaemonErrorKeeps DEF Addon!ensureConnected
<1> QED BY <1>1, <1>2, <1>3, <1>4 DEF Dials

LEMMA startVoiceSessionKeeps ==
  ASSUME NEW m, NEW f \in Contexts, NEW T, NEW P, Fields(m, f, T, P), Timed(m.ic[f]),
         NEW dial \in Dials \ {"none"}
  PROVE  AddonOk(Addon!startVoiceSession(m, f, dial), f, T, P)
<1> DEFINE a == Addon!cancelVoiceSession(m, None)
           v == [a.voice EXCEPT !.ic = f, !.pending = TRUE]
           b == [a EXCEPT !.pendingCancel = FALSE, !.voice.ic = f, !.voice.pending = TRUE]
           r == Addon!Render(b)
           asked == [r EXCEPT !.pendingStart = f]
<1>1. f \in Keyboard /\ f # None
  BY NoneIsNobody DEF Keyboard
<1>2. Fields(a, f, T, P) /\ a.ic = m.ic /\ a.voice.ic = None
  BY <1>1, cancelVoiceSessionIs
<1>3. Addon!startVoiceSession(m, f, dial)
        = IF m.ready THEN Addon!sendPendingStart(asked) ELSE Addon!ensureConnected(asked, dial)
  BY DEF Addon!startVoiceSession
<1> HIDE DEF a
<1>4. VoiceOk(v, f, T, P) /\ v.ic = f
  BY <1>2, NoneIsNobody DEF Fields, VoiceOk, Addon!NoVoice
<1>5. /\ DOMAIN b = DOMAIN a /\ b.sent = a.sent /\ b.pendingStart = a.pendingStart
      /\ b.voice = v /\ b.ic = a.ic
  BY <1>2 DEF Fields, Addon!Loaded
<1> HIDE DEF b, v
<1>6. Fields(b, f, T, P)
  BY <1>2, <1>4, <1>5 DEF Fields
<1>7. Fields(r, f, T, P) /\ r.voice = v /\ Place(r.ic[f], TRUE)
  BY <1>1, <1>2, <1>4, <1>5, <1>6, RenderIs
<1> HIDE DEF r
<1>8. /\ DOMAIN asked = DOMAIN r /\ asked.sent = r.sent /\ asked.pendingStart = f
      /\ asked.voice = r.voice /\ asked.ic = r.ic
  BY <1>7 DEF Fields, Addon!Loaded
<1> HIDE DEF asked
<1>9. AddonOk(asked, f, T, P)
  <2>1. Fields(asked, f, T, P)
    BY <1>7, <1>8 DEF Fields
  <2> QED BY <1>4, <1>7, <1>8, <2>1 DEF AddonOk
<1> QED BY <1>1, <1>3, <1>9, sendPendingStartKeeps, ensureConnectedKeeps

LEMMA finishVoiceSessionKeeps ==
  ASSUME NEW m, NEW f \in Contexts, NEW T, NEW P, Fields(m, f, T, P),
         m.ic[f].tap = "Idle", Shows(m.ic[f], m.voice.ic = f),
         m.voice.ic = f \/ ~m.ic[f].error
  PROVE  AddonOk(Addon!finishVoiceSession(m, f), f, T, P)
<1> DEFINE x == [m.ic[f] EXCEPT !.hold = FALSE, !.error = FALSE]
           a == [m EXCEPT !.ic[f].hold = FALSE, !.ic[f].error = FALSE]
           v == [m.voice EXCEPT !.finish = TRUE, !.phase = "recognizing"]
           b == [a EXCEPT !.voice.finish = TRUE, !.voice.phase = "recognizing"]
<1>1. f \in Keyboard /\ f # None
  BY NoneIsNobody DEF Keyboard
<1>2. /\ DOMAIN x = DOMAIN Addon!IdleContext
      /\ x.tap = "Idle" /\ x.panel = m.ic[f].panel /\ x.error = FALSE
  BY DEF Fields, PlacesOk, Addon!IdleContext
<1>3. /\ DOMAIN a = DOMAIN m /\ a.sent = m.sent /\ a.pendingStart = m.pendingStart
      /\ a.voice = m.voice /\ a.ic = [m.ic EXCEPT ![f] = x]
  BY DEF Fields, PlacesOk, Addon!Loaded, Addon!IdleContext
<1>4. Addon!finishVoiceSession(m, f)
        = IF m.voice.ic # f THEN a ELSE Addon!Send(Addon!Render(b), "finish", "none")
  BY <1>3 DEF Addon!finishVoiceSession
<1> HIDE DEF a, x
<1>5. PlacesOk(a.ic, f) /\ a.ic[f] = x
  BY <1>2, <1>3 DEF Fields, PlacesOk
<1>6. Fields(a, f, T, P)
  BY <1>3, <1>5 DEF Fields
<1>7. Timed(x) /\ Calm(x)
  BY <1>2 DEF Timed, Calm, Addon!TapPhases
<1>8. CASE m.voice.ic # f
  <2>1. Place(x, FALSE)
    BY <1>2, <1>7, <1>8 DEF Place, Shows
  <2>2. AddonOk(a, f, T, P)
    BY <1>3, <1>5, <1>6, <1>8, <2>1 DEF AddonOk
  <2> QED BY <1>4, <1>8, <2>2
<1>9. CASE m.voice.ic = f
  <2>1. /\ DOMAIN b = DOMAIN a /\ b.sent = a.sent /\ b.pendingStart = a.pendingStart
        /\ b.voice = v /\ b.ic = a.ic
    BY <1>3, <1>6 DEF Fields, VoiceOk, Addon!Loaded, Addon!NoVoice
  <2>2. VoiceOk(v, f, T, P) /\ v.ic = f
    BY <1>9 DEF Fields, VoiceOk, Addon!NoVoice
  <2> HIDE DEF b, v
  <2>3. Fields(b, f, T, P)
    BY <1>6, <2>1, <2>2 DEF Fields
  <2>4. AddonOk(Addon!Render(b), f, T, P)
    <3> DEFINE r == Addon!Render(b)
    <3>1. Fields(r, f, T, P) /\ r.voice = v /\ Place(r.ic[f], TRUE)
      BY <1>1, <1>5, <1>7, <2>1, <2>2, <2>3, RenderIs
    <3> HIDE DEF r
    <3>2. AddonOk(r, f, T, P)
      BY <2>2, <3>1 DEF AddonOk
    <3> QED BY <3>2 DEF r
  <2>5. May(Addon!Render(b), "finish", "none", T, P)
    BY DEF May, Methods, Texts
  <2>6. AddonOk(Addon!Send(Addon!Render(b), "finish", "none"), f, T, P)
    BY <2>4, <2>5, SendIs, PartsKeep DEF AddonOk
  <2> QED BY <1>4, <1>9, <2>6
<1> QED BY <1>8, <1>9

\* A choice is asked for only when its text is there.
LEMMA selectResultKeeps ==
  ASSUME NEW m, NEW f \in Keyboard, NEW T, NEW P, P \subseteq T, AddonOk(m, f, T, P),
         NEW choice \in Choices
  PROVE  AddonOk(Addon!selectResult(m, choice), f, T, P)
<1> DEFINE refused == \/ m.voice.selection \/ m.voice.id = None \/ ~m.voice.transcript
                      \/ choice = "polished" /\ m.voice.polished # "final"
<1>1. CASE refused
  BY <1>1 DEF Addon!selectResult
<1>2. CASE ~refused
  <2> DEFINE v == [m.voice EXCEPT !.selection = TRUE, !.selected = choice]
             a == [m EXCEPT !.voice.selection = TRUE, !.voice.selected = choice]
  <2>1. Addon!selectResult(m, choice) = Addon!Send(Addon!Render(a), "select", choice)
    BY <1>2 DEF Addon!selectResult
  <2>2. VoiceOk(v, f, T, P) /\ v.ic = m.voice.ic /\ v.id = m.voice.id
    BY DEF AddonOk, Fields, VoiceOk, Addon!NoVoice
  <2>3. /\ DOMAIN a = DOMAIN m /\ a.sent = m.sent /\ a.pendingStart = m.pendingStart
        /\ a.voice = v /\ a.ic = m.ic
    BY DEF AddonOk, Fields, Addon!Loaded, VoiceOk, Addon!NoVoice
  <2>4. m.voice.id \in T /\ (choice = "polished" => m.voice.id \in P)
    BY <1>2 DEF AddonOk, Fields, VoiceOk
  <2> HIDE DEF a, v, refused
  <2>5. AddonOk(a, f, T, P)
    BY <2>2, <2>3 DEF AddonOk, Fields
  <2> DEFINE r == Addon!Render(a)
  <2>6. AddonOk(r, f, T, P) /\ r.voice = v
    BY <2>3, <2>5, RenderKeeps, RenderIs DEF AddonOk
  <2> HIDE DEF r
  <2>7. May(r, "select", choice, T, P)
    BY <2>2, <2>4, <2>6 DEF May, Methods, Texts, Choices
  <2>8. AddonOk(Addon!Send(r, "select", choice), f, T, P)
    BY <2>6, <2>7, SendIs, PartsKeep DEF AddonOk
  <2> QED BY <2>1, <2>8 DEF r
<1> QED BY <1>1, <1>2

LEMMA cancelByUserKeeps ==
  ASSUME NEW m, NEW f \in Contexts, NEW T, NEW P, Fields(m, f, T, P),
         Timed(m.ic[f]), Calm(m.ic[f])
  PROVE  AddonOk(Addon!cancelByUser(m, f), f, T, P)
<1> DEFINE a == Addon!cancelVoiceSession(m, f)
           n == Addon!clearOwnPanel(a, f)
<1>1. Fields(a, f, T, P) /\ a.ic = m.ic
  BY cancelVoiceSessionIs DEF Keyboard
<1> HIDE DEF a
<1>2. /\ Fields(n, f, T, P) /\ \A owner : Place(n.ic[f], owner)
  BY <1>1, clearOwnPanelIs
<1> HIDE DEF n
<1>3. AddonOk(n, f, T, P)
  BY <1>2 DEF AddonOk
<1> QED BY <1>3 DEF n, a, Addon!cancelByUser

\* Once nobody has a session and every context is idle, the keyboard may be anywhere.
Free(n, T, P) == \A f \in Keyboard : AddonOk(n, f, T, P)

LEMMA IdleIs ==
  /\ Rests(Addon!IdleContext)
  /\ \A owner : Place(Addon!IdleContext, owner)
BY DEF Rests, Place, Timed, Calm, Shows, Addon!IdleContext, Addon!TapPhases

LEMMA FreeIs ==
  ASSUME NEW m, NEW f, NEW T, NEW P, Fields(m, f, T, P), m.voice.ic = None,
         \A c \in Contexts : Rests(m.ic[c]) /\ \A owner : Place(m.ic[c], owner)
  PROVE  Free(m, T, P)
<1>1. ASSUME NEW g \in Keyboard PROVE AddonOk(m, g, T, P)
  <2>1. VoiceOk(m.voice, g, T, P) /\ PlacesOk(m.ic, g)
    BY DEF Fields, VoiceOk, PlacesOk
  <2> QED BY <2>1 DEF AddonOk, Fields, Keyboard
<1> QED BY <1>1 DEF Free

LEMMA resetInputContextFrees ==
  ASSUME NEW m, NEW f \in Contexts, NEW T, NEW P, AddonOk(m, f, T, P)
  PROVE  Free(Addon!resetInputContext(m, f), T, P)
<1> DEFINE a == Addon!cancelVoiceSession(m, f)
           n == [a EXCEPT !.ic[f] = Addon!IdleContext]
<1>1. Fields(a, f, T, P) /\ a.ic = m.ic /\ a.voice.ic = None
  BY cancelVoiceSessionIs DEF AddonOk, Keyboard
<1>2. Addon!resetInputContext(m, f) = n
  BY DEF Addon!resetInputContext
<1> HIDE DEF a
<1>3. Fields(n, f, T, P) /\ n.voice.ic = None /\ n.ic = [m.ic EXCEPT ![f] = Addon!IdleContext]
  <2>1. Fields(n, f, T, P) /\ n.voice = a.voice
    BY <1>1, PlaceReplaced
  <2>2. n.ic = [a.ic EXCEPT ![f] = Addon!IdleContext]
    BY <1>1 DEF Fields, Addon!Loaded
  <2> QED BY <1>1, <2>1, <2>2
<1> HIDE DEF n
<1>4. ASSUME NEW c \in Contexts PROVE Rests(n.ic[c]) /\ \A owner : Place(n.ic[c], owner)
  <2>1. CASE c = f
    BY <1>3, <2>1, IdleIs DEF AddonOk, Fields, PlacesOk
  <2>2. CASE c # f
    <3>1. n.ic[c] = m.ic[c] /\ Rests(m.ic[c])
      BY <1>3, <2>2 DEF AddonOk, Fields, PlacesOk
    <3> QED BY <3>1 DEF Rests, Place, Timed, Calm, Shows, Addon!TapPhases
  <2> QED BY <2>1, <2>2
<1> QED BY <1>2, <1>3, <1>4, FreeIs

LEMMA resetAllInputContextsFrees ==
  ASSUME NEW m, NEW f \in Keyboard, NEW T, NEW P, AddonOk(m, f, T, P), NEW auto
  PROVE  Free([Addon!resetAllInputContexts(m) EXCEPT !.autoSelect = auto], T, P)
<1> DEFINE a == IF m.voice.ic = None THEN m ELSE Addon!cancelVoiceSession(m, m.voice.ic)
           n == [a EXCEPT !.ic = [c \in Contexts |-> Addon!IdleContext]]
           k == [n EXCEPT !.autoSelect = auto]
<1>1. Fields(a, f, T, P) /\ a.voice.ic = None
  <2>1. Fields(m, f, T, P) /\ m.voice.ic \in {f, None}
    BY DEF AddonOk, Fields, VoiceOk
  <2>2. CASE m.voice.ic = None
    BY <2>1, <2>2
  <2>3. CASE m.voice.ic # None
    <3>1. a = Addon!cancelVoiceSession(m, m.voice.ic)
      BY <2>3
    <3> HIDE DEF a
    <3> QED BY <2>1, <3>1, cancelVoiceSessionIs
  <2> QED BY <2>2, <2>3
<1>2. Addon!resetAllInputContexts(m) = n
  BY DEF Addon!resetAllInputContexts
<1> HIDE DEF a
<1>3. /\ DOMAIN n = DOMAIN a /\ n.sent = a.sent /\ n.pendingStart = a.pendingStart
      /\ n.voice = a.voice /\ n.ic = [c \in Contexts |-> Addon!IdleContext]
  BY <1>1 DEF Fields, Addon!Loaded
<1> HIDE DEF n
<1>4. PlacesOk(n.ic, f)
  BY <1>3, IdleIs DEF PlacesOk
<1>5. Fields(n, f, T, P)
  BY <1>1, <1>3, <1>4 DEF Fields
<1>6. Same(n, k)
  BY <1>5 DEF Same, Fields, Addon!Loaded
<1> HIDE DEF k
<1>7. Fields(k, f, T, P) /\ k.voice.ic = None /\ k.ic = [c \in Contexts |-> Addon!IdleContext]
  BY <1>1, <1>3, <1>5, <1>6, SameKeeps DEF Same
<1>8. Free(k, T, P)
  BY <1>7, IdleIs, FreeIs
<1> QED BY <1>2, <1>8 DEF k

-------------------------------------------------------------------------------
(***************************************************************************)
(* The trigger key.                                                        *)
(***************************************************************************)
\* What an event may find: its timer, if it is the event of one, has gone off.
Before(x, event) ==
  /\ x.tap \in Addon!TapPhases
  /\ event # "Threshold" => (x.tap = "Pending" => x.hold)
  /\ event # "Elapsed" => (x.tap \in {"ActiveTriggerRelease", "FailedTriggerRelease"} => x.grace)

\* transitionTapHold, by what it asks for.
LEMMA TapHoldIs ==
  ASSUME NEW tap \in Addon!TapPhases, NEW event
  PROVE  LET step == Addon!TapHold(tap, event) IN
         /\ step.action = "ArmTimer" => step.phase = "Pending"
         /\ step.action = "ArmReleaseTimer" =>
              tap = "Active" /\ step.phase = "ActiveTriggerRelease"
         /\ step.action = "CancelReleaseTimer" =>
              \/ tap = "ActiveTriggerRelease" /\ step.phase = "Active"
              \/ step.phase = "AwaitingRelease"
         /\ step.action = "ReplayTrigger" => step.phase \in {"Idle", "AwaitingRelease"}
         /\ step.action = "ShowActive" => step.phase = "Active" /\ event = "Threshold"
         /\ step.action = "ShowSuccess" => step.phase = "Idle" /\ tap = "ActiveTriggerRelease"
         /\ step.action = "Cancel" => step.phase = "AwaitingRelease"
         /\ step.action = "Clear" => step.phase = "Idle"
         /\ step.action \in {"None", "Swallow"} =>
              \/ step.phase \in {"Idle", "AwaitingRelease"}
              \/ /\ tap = "ActiveTriggerRelease" /\ step.phase = "FailedTriggerRelease"
                 /\ event # "Elapsed"
              \/ /\ step.phase = tap
                 /\ tap = "Pending" => event # "Threshold"
                 /\ tap \in {"ActiveTriggerRelease", "FailedTriggerRelease"} => event # "Elapsed"
         /\ step.action \in {"ArmTimer", "ArmReleaseTimer", "CancelReleaseTimer", "ReplayTrigger",
                             "ShowActive", "ShowSuccess", "Cancel", "Clear", "None", "Swallow"}
BY DEF Addon!TapHold, Addon!Step, Addon!TapPhases

LEMMA ApplyKeeps ==
  ASSUME NEW m, NEW f \in Contexts, NEW T, NEW P, Fields(m, f, T, P), NEW event,
         Before(m.ic[f], event), Calm(m.ic[f]), Shows(m.ic[f], m.voice.ic = f),
         NEW dial \in Dials, event = "Threshold" => dial # "none"
  PROVE  AddonOk(Addon!Apply(m, f, event, dial), f, T, P)
<1> DEFINE x == m.ic[f]
           step == Addon!TapHold(m.ic[f].tap, event)
           y == [m.ic[f] EXCEPT !.tap = step.phase]
           moved == [m EXCEPT !.ic[f].tap = step.phase]
           next == Addon!Apply(m, f, event, dial)
<1> SUFFICES AddonOk(next, f, T, P)
  OBVIOUS
<1>1. f \in Keyboard /\ f # None
  BY NoneIsNobody DEF Keyboard
<1>2. DOMAIN x = DOMAIN Addon!IdleContext
  BY DEF Fields, PlacesOk
<1>3. /\ DOMAIN y = DOMAIN Addon!IdleContext
      /\ y.tap = step.phase /\ y.hold = x.hold /\ y.grace = x.grace
      /\ y.error = x.error /\ y.panel = x.panel
  BY <1>2 DEF Addon!IdleContext
<1>4. /\ Fields(moved, f, T, P) /\ moved.voice = m.voice /\ moved.ic[f] = y
  <2>1. moved = [m EXCEPT !.ic[f] = y]
    OBVIOUS
  <2> HIDE DEF y, moved
  <2> QED BY <1>3, <2>1, PlaceReplaced
\* The context alone is changed, and then to z.
<1>5. ASSUME NEW z, DOMAIN z = DOMAIN Addon!IdleContext, Place(z, m.voice.ic = f),
             next = [moved EXCEPT !.ic[f] = z]
      PROVE  AddonOk(next, f, T, P)
  <2> HIDE DEF moved, next
  <2>1. Fields(next, f, T, P) /\ next.voice = m.voice /\ next.ic[f] = z
    BY <1>4, <1>5, PlaceReplaced
  <2> QED BY <1>5, <2>1 DEF AddonOk
<1>6. next = CASE step.action = "ArmTimer" -> [moved EXCEPT !.ic[f].hold = TRUE]
               [] step.action = "ArmReleaseTimer" -> [moved EXCEPT !.ic[f].grace = TRUE]
               [] step.action = "CancelReleaseTimer" -> [moved EXCEPT !.ic[f].grace = FALSE]
               [] step.action = "ReplayTrigger" -> [moved EXCEPT !.ic[f].hold = FALSE]
               [] step.action = "ShowActive" -> Addon!startVoiceSession(moved, f, dial)
               [] step.action = "ShowSuccess" -> Addon!finishVoiceSession(moved, f)
               [] step.action = "Cancel" -> Addon!cancelByUser(moved, f)
               [] step.action = "Clear" -> Addon!clearOwnPanel(Addon!cancelVoiceSession(
                      [moved EXCEPT !.ic[f].hold = FALSE, !.ic[f].grace = FALSE,
                                    !.ic[f].error = FALSE], f), f)
               [] OTHER -> moved
  BY DEF Addon!Apply
<1>7. /\ step.action = "ArmTimer" => step.phase = "Pending"
      /\ step.action = "ArmReleaseTimer" =>
           x.tap = "Active" /\ step.phase = "ActiveTriggerRelease"
      /\ step.action = "CancelReleaseTimer" =>
           \/ x.tap = "ActiveTriggerRelease" /\ step.phase = "Active"
           \/ step.phase = "AwaitingRelease"
      /\ step.action = "ReplayTrigger" => step.phase \in {"Idle", "AwaitingRelease"}
      /\ step.action = "ShowActive" => step.phase = "Active" /\ event = "Threshold"
      /\ step.action = "ShowSuccess" => step.phase = "Idle" /\ x.tap = "ActiveTriggerRelease"
      /\ step.action = "Cancel" => step.phase = "AwaitingRelease"
      /\ step.action = "Clear" => step.phase = "Idle"
      /\ step.action \in {"None", "Swallow"} =>
           \/ step.phase \in {"Idle", "AwaitingRelease"}
           \/ /\ x.tap = "ActiveTriggerRelease" /\ step.phase = "FailedTriggerRelease"
              /\ event # "Elapsed"
           \/ /\ step.phase = x.tap
              /\ x.tap = "Pending" => event # "Threshold"
              /\ x.tap \in {"ActiveTriggerRelease", "FailedTriggerRelease"} => event # "Elapsed"
      /\ step.action \in {"ArmTimer", "ArmReleaseTimer", "CancelReleaseTimer", "ReplayTrigger",
                          "ShowActive", "ShowSuccess", "Cancel", "Clear", "None", "Swallow"}
  BY TapHoldIs DEF Before
<1> HIDE DEF step, moved, y, next
<1>8. ASSUME step.phase \in {"Idle", "AwaitingRelease", "Active"}
      PROVE  Timed(y)
  BY <1>3, <1>8 DEF Timed, Addon!TapPhases
<1>9. CASE step.action = "ArmTimer"
  <2> DEFINE z == [y EXCEPT !.hold = TRUE]
  <2>1. next = [moved EXCEPT !.ic[f] = z]
    BY <1>4, <1>6, <1>9
  <2>2. /\ DOMAIN z = DOMAIN Addon!IdleContext /\ z.tap = "Pending" /\ z.hold = TRUE
        /\ z.error = x.error /\ z.panel = x.panel
    BY <1>3, <1>7, <1>9 DEF Addon!IdleContext
  <2>3. Place(z, m.voice.ic = f)
    BY <2>2 DEF Place, Timed, Calm, Shows, Addon!TapPhases
  <2> HIDE DEF z
  <2> QED BY <1>5, <2>1, <2>2, <2>3
<1>10. CASE step.action = "ArmReleaseTimer"
  <2> DEFINE z == [y EXCEPT !.grace = TRUE]
  <2>1. next = [moved EXCEPT !.ic[f] = z]
    BY <1>4, <1>6, <1>10
  <2>2. /\ DOMAIN z = DOMAIN Addon!IdleContext
        /\ z.tap = "ActiveTriggerRelease" /\ z.grace = TRUE
        /\ z.error = x.error /\ z.panel = x.panel /\ x.tap = "Active"
    BY <1>3, <1>7, <1>10 DEF Addon!IdleContext
  <2>3. Place(z, m.voice.ic = f)
    BY <2>2 DEF Place, Timed, Calm, Shows, Addon!TapPhases
  <2> HIDE DEF z
  <2> QED BY <1>5, <2>1, <2>2, <2>3
<1>11. CASE step.action = "CancelReleaseTimer"
  <2> DEFINE z == [y EXCEPT !.grace = FALSE]
  <2>1. next = [moved EXCEPT !.ic[f] = z]
    BY <1>4, <1>6, <1>11
  <2>2. /\ DOMAIN z = DOMAIN Addon!IdleContext
        /\ \/ z.tap = "Active" /\ x.tap = "ActiveTriggerRelease"
           \/ z.tap = "AwaitingRelease"
        /\ z.error = x.error /\ z.panel = x.panel
    BY <1>3, <1>7, <1>11 DEF Addon!IdleContext
  <2>3. Place(z, m.voice.ic = f)
    BY <2>2 DEF Place, Timed, Calm, Shows, Addon!TapPhases
  <2> HIDE DEF z
  <2> QED BY <1>5, <2>1, <2>2, <2>3
<1>12. CASE step.action = "ReplayTrigger"
  <2> DEFINE z == [y EXCEPT !.hold = FALSE]
  <2>1. next = [moved EXCEPT !.ic[f] = z]
    BY <1>4, <1>6, <1>12
  <2>2. /\ DOMAIN z = DOMAIN Addon!IdleContext /\ z.tap \in {"Idle", "AwaitingRelease"}
        /\ z.error = x.error /\ z.panel = x.panel
    BY <1>3, <1>7, <1>12 DEF Addon!IdleContext
  <2>3. Place(z, m.voice.ic = f)
    BY <2>2 DEF Place, Timed, Calm, Shows, Addon!TapPhases
  <2> HIDE DEF z
  <2> QED BY <1>5, <2>1, <2>2, <2>3
<1>13. CASE step.action = "ShowActive"
  <2>1. next = Addon!startVoiceSession(moved, f, dial)
    BY <1>6, <1>13
  <2>2. dial \in Dials \ {"none"} /\ Timed(moved.ic[f])
    BY <1>4, <1>7, <1>8, <1>13
  <2> QED BY <1>4, <2>1, <2>2, startVoiceSessionKeeps
<1>14. CASE step.action = "ShowSuccess"
  <2>1. next = Addon!finishVoiceSession(moved, f)
    BY <1>6, <1>14
  <2>2. /\ moved.ic[f].tap = "Idle" /\ ~moved.ic[f].error
        /\ Shows(moved.ic[f], moved.voice.ic = f)
    BY <1>3, <1>4, <1>7, <1>14 DEF Calm, Shows
  <2> QED BY <1>4, <2>1, <2>2, finishVoiceSessionKeeps
<1>15. CASE step.action = "Cancel"
  <2>1. next = Addon!cancelByUser(moved, f)
    BY <1>6, <1>15
  <2>2. Timed(moved.ic[f]) /\ Calm(moved.ic[f])
    BY <1>3, <1>4, <1>7, <1>8, <1>15 DEF Calm
  <2> QED BY <1>4, <2>1, <2>2, cancelByUserKeeps
<1>16. CASE step.action = "Clear"
  <2> DEFINE z == [y EXCEPT !.hold = FALSE, !.grace = FALSE, !.error = FALSE]
             k == [moved EXCEPT !.ic[f] = z]
  <2>1. [moved EXCEPT !.ic[f].hold = FALSE, !.ic[f].grace = FALSE, !.ic[f].error = FALSE] = k
    BY <1>3, <1>4 DEF Fields, PlacesOk, Addon!Loaded, Addon!IdleContext
  <2>2. next = Addon!cancelByUser(k, f)
    BY <1>6, <1>16, <2>1 DEF Addon!cancelByUser
  <2>3. DOMAIN z = DOMAIN Addon!IdleContext /\ z.tap = "Idle"
    BY <1>3, <1>7, <1>16 DEF Addon!IdleContext
  <2>4. Timed(z) /\ Calm(z)
    BY <2>3 DEF Timed, Calm, Addon!TapPhases
  <2> HIDE DEF z
  <2>5. Fields(k, f, T, P) /\ k.ic[f] = z
    BY <1>4, <2>3, PlaceReplaced
  <2> HIDE DEF k
  <2> QED BY <2>2, <2>4, <2>5, cancelByUserKeeps
<1>17. CASE step.action \in {"None", "Swallow"}
  <2>1. next = moved
    BY <1>6, <1>17
  <2>2. Place(y, m.voice.ic = f)
    BY <1>3, <1>7, <1>17 DEF Place, Timed, Calm, Shows, Before, Addon!TapPhases
  <2> QED BY <1>4, <2>1, <2>2 DEF AddonOk
<1> QED BY <1>7, <1>9, <1>10, <1>11, <1>12, <1>13, <1>14, <1>15, <1>16, <1>17

-------------------------------------------------------------------------------
(***************************************************************************)
(* The keys.                                                               *)
(***************************************************************************)
LEMMA PlaceChanged ==
  ASSUME NEW m, NEW f \in Contexts, NEW T, NEW P, Fields(m, f, T, P),
         NEW x, DOMAIN x = DOMAIN Addon!IdleContext, Place(x, m.voice.ic = f)
  PROVE  AddonOk([m EXCEPT !.ic[f] = x], f, T, P)
<1> DEFINE n == [m EXCEPT !.ic[f] = x]
<1>1. Fields(n, f, T, P) /\ n.voice = m.voice /\ n.ic[f] = x
  BY PlaceReplaced
<1> HIDE DEF n
<1>2. AddonOk(n, f, T, P)
  BY <1>1 DEF AddonOk
<1> QED BY <1>2 DEF n

LEMMA VoiceChanged ==
  ASSUME NEW m, NEW f, NEW T, NEW P, AddonOk(m, f, T, P),
         NEW v, VoiceOk(v, f, T, P), v.ic = m.voice.ic
  PROVE  AddonOk([m EXCEPT !.voice = v], f, T, P)
<1> DEFINE n == [m EXCEPT !.voice = v]
<1>1. Fields(n, f, T, P) /\ n.voice = v /\ n.ic = m.ic
  BY VoiceReplaced DEF AddonOk
<1> HIDE DEF n
<1>2. AddonOk(n, f, T, P)
  BY <1>1 DEF AddonOk
<1> QED BY <1>2 DEF n

LEMMA handlePolishingToggleKeyKeeps ==
  ASSUME NEW m, NEW f \in Contexts, NEW T, NEW P, AddonOk(m, f, T, P), NEW key
  PROVE  AddonOk(Addon!handlePolishingToggleKey(m, f, key).next, f, T, P)
<1> DEFINE next == Addon!handlePolishingToggleKey(m, f, key).next
           x == [m.ic[f] EXCEPT !.toggleHeld = TRUE]
           n == [m EXCEPT !.ic[f].toggleHeld = TRUE]
           value == IF m.voice.on THEN "off" ELSE "on"
<1>1. next = m \/ next = Addon!Send(n, "polish", value)
  BY DEF Addon!handlePolishingToggleKey, Addon!Goes, Addon!Done
<1>2. n = [m EXCEPT !.ic[f] = x]
  OBVIOUS
<1>3. /\ DOMAIN x = DOMAIN Addon!IdleContext
      /\ x.tap = m.ic[f].tap /\ x.hold = m.ic[f].hold /\ x.grace = m.ic[f].grace
      /\ x.error = m.ic[f].error /\ x.panel = m.ic[f].panel
  BY DEF AddonOk, Fields, PlacesOk, Addon!IdleContext
<1> HIDE DEF x, n
<1>4. Place(x, m.voice.ic = f)
  BY <1>3, NoneIsNobody DEF AddonOk, Place, Timed, Calm, Shows
<1>5. AddonOk(n, f, T, P)
  BY <1>2, <1>3, <1>4, PlaceChanged DEF AddonOk
<1>6. May(n, "polish", value, T, P)
  BY DEF May, Methods, Texts
<1>7. AddonOk(Addon!Send(n, "polish", value), f, T, P)
  BY <1>5, <1>6, SendIs, PartsKeep DEF AddonOk
<1> HIDE DEF next, value
<1>8. AddonOk(next, f, T, P)
  BY <1>1, <1>7
<1> QED BY <1>8 DEF next

LEMMA handleVoiceSelectionKeyKeeps ==
  ASSUME NEW m, NEW f \in Contexts, NEW T, NEW P, P \subseteq T, AddonOk(m, f, T, P), NEW key
  PROVE  AddonOk(Addon!handleVoiceSelectionKey(m, f, key).next, f, T, P)
<1> DEFINE next == Addon!handleVoiceSelectionKey(m, f, key).next
           other == IF m.voice.selected = "polished" THEN "transcript" ELSE "polished"
           n == [m EXCEPT !.voice.selected = other]
<1>1. \/ next = m
      \/ next = Addon!cancelByUser(m, f)
      \/ next = Addon!selectResult(m, "transcript")
      \/ next = Addon!selectResult(m, "polished")
      \/ next = Addon!selectResult(m, m.voice.selected)
      \/ next = Addon!Render(n)
  BY DEF Addon!handleVoiceSelectionKey, Addon!Goes, Addon!Done
<1>2. f \in Keyboard /\ f # None
  BY NoneIsNobody DEF Keyboard
<1>3. AddonOk(Addon!cancelByUser(m, f), f, T, P)
  BY <1>2, cancelByUserKeeps DEF AddonOk, Place
<1>4. \A choice \in Choices : AddonOk(Addon!selectResult(m, choice), f, T, P)
  BY <1>2, selectResultKeeps
<1>5. AddonOk(Addon!Render(n), f, T, P)
  <2> DEFINE v == [m.voice EXCEPT !.selected = other]
  <2>1. n = [m EXCEPT !.voice = v]
    OBVIOUS
  <2>2. VoiceOk(v, f, T, P) /\ v.ic = m.voice.ic
    BY DEF AddonOk, Fields, VoiceOk, Addon!NoVoice, Choices
  <2> HIDE DEF v, n
  <2>3. AddonOk(n, f, T, P)
    BY <2>1, <2>2, VoiceChanged
  <2> QED BY <1>2, <2>3, RenderKeeps
<1>6. m.voice.selected \in Choices /\ {"transcript", "polished"} \subseteq Choices
  BY DEF AddonOk, Fields, VoiceOk, Choices
<1> HIDE DEF next, n, other
<1>7. AddonOk(next, f, T, P)
  BY <1>1, <1>3, <1>4, <1>5, <1>6
<1> QED BY <1>7 DEF next

LEMMA EventKeeps ==
  ASSUME NEW m, NEW f \in Contexts, NEW T, NEW P, AddonOk(m, f, T, P),
         NEW event, event # "Threshold"
  PROVE  AddonOk(Addon!Apply(m, f, event, "none"), f, T, P)
<1>1. Fields(m, f, T, P) /\ Place(m.ic[f], m.voice.ic = f)
  BY NoneIsNobody DEF AddonOk
<1>2. Before(m.ic[f], event) /\ Calm(m.ic[f]) /\ Shows(m.ic[f], m.voice.ic = f)
  BY <1>1 DEF Place, Timed, Before
<1> QED BY <1>1, <1>2, ApplyKeeps DEF Dials

LEMMA handleTriggerKeyKeeps ==
  ASSUME NEW m, NEW f \in Contexts, NEW T, NEW P, AddonOk(m, f, T, P), NEW key
  PROVE  AddonOk(Addon!handleTriggerKey(m, f, key), f, T, P)
<1> DEFINE next == Addon!handleTriggerKey(m, f, key)
           over == IF m.ic[f].tap \in {"ActiveTriggerRelease", "FailedTriggerRelease"}
                   THEN Addon!Apply(m, f, "Elapsed", "none") ELSE m
           calm == [over EXCEPT !.ic[f].error = FALSE]
           seen == IF over.ic[f].error THEN Addon!clearOwnPanel(calm, f) ELSE over
<1>1. \/ next = Addon!Apply(m, f, "Repeated", "none")
      \/ \E event \in {"Other", "Cancelled", "Pressed"} :
           next = Addon!Apply(seen, f, event, "none")
      \/ next = seen
  BY DEF Addon!handleTriggerKey
<1>2. AddonOk(over, f, T, P)
  BY EventKeeps
<1> HIDE DEF next, over
<1>3. AddonOk(Addon!clearOwnPanel(calm, f), f, T, P)
  <2> DEFINE x == [over.ic[f] EXCEPT !.error = FALSE]
  <2>1. calm = [over EXCEPT !.ic[f] = x]
    OBVIOUS
  <2>2. /\ DOMAIN x = DOMAIN Addon!IdleContext /\ x.error = FALSE
        /\ x.tap = over.ic[f].tap /\ x.hold = over.ic[f].hold /\ x.grace = over.ic[f].grace
    BY <1>2 DEF AddonOk, Fields, PlacesOk, Addon!IdleContext
  <2> HIDE DEF x, calm
  <2>3. Fields(calm, f, T, P) /\ calm.ic[f] = x
    BY <1>2, <2>1, <2>2, PlaceReplaced DEF AddonOk
  <2>4. Timed(x) /\ Calm(x)
    BY <1>2, <2>2, NoneIsNobody DEF AddonOk, Place, Timed, Calm
  <2> DEFINE n == Addon!clearOwnPanel(calm, f)
  <2>5. Fields(n, f, T, P) /\ \A owner : Place(n.ic[f], owner)
    BY <2>3, <2>4, clearOwnPanelIs
  <2> HIDE DEF n
  <2>6. AddonOk(n, f, T, P)
    BY <2>5 DEF AddonOk
  <2> QED BY <2>6 DEF n
<1>4. AddonOk(seen, f, T, P)
  BY <1>2, <1>3
<1> HIDE DEF seen
<1>5. AddonOk(next, f, T, P)
  BY <1>1, <1>4, EventKeeps
<1> QED BY <1>5 DEF next

LEMMA PressKeeps ==
  ASSUME NEW m, NEW f \in Contexts, NEW T, NEW P, P \subseteq T, AddonOk(m, f, T, P), NEW key
  PROVE  AddonOk(Addon!Press(m, f, key), f, T, P)
<1> DEFINE toggled == Addon!handlePolishingToggleKey(m, f, key)
           selected == Addon!handleVoiceSelectionKey(toggled.next, f, key)
<1>1. AddonOk(toggled.next, f, T, P)
  BY handlePolishingToggleKeyKeeps
<1>2. \/ Addon!Press(m, f, key) = toggled.next
      \/ Addon!Press(m, f, key) = selected.next
      \/ Addon!Press(m, f, key) = Addon!handleTriggerKey(selected.next, f, key)
  BY DEF Addon!Press
<1> HIDE DEF toggled
<1>3. AddonOk(selected.next, f, T, P)
  BY <1>1, handleVoiceSelectionKeyKeeps
<1> HIDE DEF selected
<1> QED BY <1>1, <1>2, <1>3, handleTriggerKeyKeeps

LEMMA ReleaseKeeps ==
  ASSUME NEW m, NEW f \in Contexts, NEW T, NEW P, AddonOk(m, f, T, P), NEW key
  PROVE  AddonOk(Addon!Release(m, f, key), f, T, P)
<1> DEFINE x == [m.ic[f] EXCEPT !.toggleHeld = FALSE]
           n == [m EXCEPT !.ic[f].toggleHeld = FALSE]
<1>1. \/ Addon!Release(m, f, key) = m
      \/ Addon!Release(m, f, key) = n
      \/ Addon!Release(m, f, key) = Addon!Apply(m, f, "Released", "none")
  BY DEF Addon!Release
<1>2. n = [m EXCEPT !.ic[f] = x]
  OBVIOUS
<1>3. /\ DOMAIN x = DOMAIN Addon!IdleContext
      /\ x.tap = m.ic[f].tap /\ x.hold = m.ic[f].hold /\ x.grace = m.ic[f].grace
      /\ x.error = m.ic[f].error /\ x.panel = m.ic[f].panel
  BY DEF AddonOk, Fields, PlacesOk, Addon!IdleContext
<1> HIDE DEF x, n
<1>4. Place(x, m.voice.ic = f)
  BY <1>3, NoneIsNobody DEF AddonOk, Place, Timed, Calm, Shows
<1>5. AddonOk(n, f, T, P)
  BY <1>2, <1>3, <1>4, PlaceChanged DEF AddonOk
<1> QED BY <1>1, <1>5, EventKeeps

-------------------------------------------------------------------------------
(***************************************************************************)
(* What the daemon says, when it knows of the transcripts of T and of the   *)
(* polished texts of P.                                                     *)
(***************************************************************************)
Told(T, P) ==
  { n \in [session : Sessions \cup {None}, method : Methods \cup Daemon!Events,
           value : Words] :
      /\ n.method \in Daemon!Events \/ (n.method = "start" /\ n.value = "ok") =>
           n.session \in Sessions
      /\ n.method = "results" =>
           n.session \in T /\ (n.value = "final" => n.session \in P) }

LEMMA handleSessionStartedKeeps ==
  ASSUME NEW m, NEW f \in Keyboard, NEW T, NEW P, T \subseteq Sessions, P \subseteq T,
         AddonOk(m, f, T, P), NEW s \in Sessions
  PROVE  AddonOk(Addon!handleSessionStarted(m, s), f, T, P)
<1> DEFINE next == Addon!handleSessionStarted(m, s)
<1>0. /\ Addon!Request(s, "cancel", "user") \in Asked(T, P)
  BY DEF Addon!Request, Asked, Methods, Words, Texts
<1>1. CASE m.voice.ic = None
  <2> DEFINE k == [m EXCEPT !.pendingCancel = FALSE]
  <2>1. Same(m, k)
    BY DEF AddonOk, Fields, Addon!Loaded, Same
  <2>2. next = Addon!Queue(k, s, "cancel", "user")
    BY <1>1 DEF Addon!handleSessionStarted
  <2> HIDE DEF k
  <2>3. AddonOk(k, f, T, P)
    BY <2>1, SameKeeps
  <2> QED BY <1>0, <2>2, <2>3, QueueIs, PartsKeep DEF AddonOk
<1>2. CASE m.voice.ic # None /\ m.voice.id \notin {None, s}
  <2> DEFINE k == Addon!Queue(m, s, "cancel", "user")
  <2>1. next = Addon!handleDaemonError(k, m.voice.id)
    BY <1>2 DEF Addon!handleSessionStarted
  <2>2. AddonOk(k, f, T, P)
    BY <1>0, QueueIs, PartsKeep DEF AddonOk
  <2> HIDE DEF k
  <2> QED BY <2>1, <2>2, handleDaemonErrorKeeps
<1>3. CASE m.voice.ic # None /\ m.voice.id \in {None, s}
  <2> DEFINE v == [m.voice EXCEPT !.id = s, !.pending = FALSE]
             known == [m EXCEPT !.voice.id = s, !.voice.pending = FALSE]
  <2>1. next = IF m.voice.finish THEN Addon!Send(known, "finish", "none") ELSE known
    BY <1>3 DEF Addon!handleSessionStarted
  <2>2. known = [m EXCEPT !.voice = v]
    BY DEF AddonOk, Fields, Addon!Loaded
  <2>3. VoiceOk(v, f, T, P) /\ v.ic = m.voice.ic
    BY <1>3, NoneIsNobody DEF AddonOk, Fields, VoiceOk, Addon!NoVoice
  <2> HIDE DEF v, known
  <2>4. AddonOk(known, f, T, P)
    BY <2>2, <2>3, VoiceChanged
  <2>5. May(known, "finish", "none", T, P)
    BY DEF May, Methods, Texts
  <2> QED BY <2>1, <2>4, <2>5, SendIs, PartsKeep DEF AddonOk
<1> QED BY <1>1, <1>2, <1>3

LEMMA handlePhaseKeeps ==
  ASSUME NEW m, NEW f \in Keyboard, NEW T, NEW P, T \subseteq Sessions, P \subseteq T,
         AddonOk(m, f, T, P), NEW s \in Sessions, NEW phase
  PROVE  AddonOk(Addon!handlePhase(m, s, phase), f, T, P)
<1> DEFINE next == Addon!handlePhase(m, s, phase)
<1>1. CASE m.voice.ic = None
  <2> DEFINE k == [m EXCEPT !.pendingCancel = FALSE]
  <2>1. Same(m, k)
    BY DEF AddonOk, Fields, Addon!Loaded, Same
  <2>2. next = m \/ next = Addon!Queue(k, s, "cancel", "user")
    BY <1>1 DEF Addon!handlePhase
  <2>3. Addon!Request(s, "cancel", "user") \in Asked(T, P)
    BY DEF Addon!Request, Asked, Methods, Words, Texts
  <2> HIDE DEF k
  <2>4. AddonOk(k, f, T, P)
    BY <2>1, SameKeeps
  <2> QED BY <2>2, <2>3, <2>4, QueueIs, PartsKeep DEF AddonOk
<1>2. CASE m.voice.ic # None
  <2> DEFINE a == IF m.voice.id = None /\ m.voice.pending /\ phase = "preparing"
                  THEN [m EXCEPT !.voice.id = s] ELSE m
             b == [a EXCEPT !.voice.phase = phase, !.voice.saw = @ \/ phase = "polishing"]
  <2>1. next = m \/ next = Addon!Render(b)
    BY <1>2 DEF Addon!handlePhase
  <2>2. AddonOk(a, f, T, P)
    <3> DEFINE v == [m.voice EXCEPT !.id = s]
               n == [m EXCEPT !.voice.id = s]
    <3>1. CASE m.voice.id = None
      <4>1. VoiceOk(v, f, T, P) /\ v.ic = m.voice.ic
        BY <1>2, <3>1, NoneIsNobody DEF AddonOk, Fields, VoiceOk, Addon!NoVoice
      <4>2. n = [m EXCEPT !.voice = v]
        OBVIOUS
      <4>3. a = m \/ a = n
        OBVIOUS
      <4> HIDE DEF v, n, a
      <4> QED BY <4>1, <4>2, <4>3, VoiceChanged
    <3>2. CASE m.voice.id # None
      BY <3>2
    <3> QED BY <3>1, <3>2
  <2> HIDE DEF a
  <2>3. PICK w : b = [a EXCEPT !.voice.phase = phase, !.voice.saw = w]
    OBVIOUS
  <2> DEFINE u == [a.voice EXCEPT !.phase = phase, !.saw = w]
  <2> HIDE DEF b
  <2>4. b = [a EXCEPT !.voice = u]
    BY <2>2, <2>3 DEF AddonOk, Fields, Addon!Loaded
  <2>5. VoiceOk(u, f, T, P) /\ u.ic = a.voice.ic
    BY <2>2 DEF AddonOk, Fields, VoiceOk, Addon!NoVoice
  <2> HIDE DEF u
  <2>6. AddonOk(b, f, T, P)
    BY <2>2, <2>4, <2>5, VoiceChanged
  <2> QED BY <2>1, <2>6, RenderKeeps
<1> QED BY <1>1, <1>2

LEMMA handlePolishingStateKeeps ==
  ASSUME NEW m, NEW f \in Keyboard, NEW T, NEW P, AddonOk(m, f, T, P), NEW enabled
  PROVE  AddonOk(Addon!handlePolishingState(m, enabled), f, T, P)
<1> DEFINE v == [m.voice EXCEPT !.on = enabled]
           n == [m EXCEPT !.voice.on = enabled]
<1>1. n = [m EXCEPT !.voice = v]
  OBVIOUS
<1>2. VoiceOk(v, f, T, P) /\ v.ic = m.voice.ic
  BY DEF AddonOk, Fields, VoiceOk, Addon!NoVoice
<1> HIDE DEF v
<1>3. AddonOk(n, f, T, P)
  BY <1>1, <1>2, VoiceChanged
<1> QED BY <1>3, RenderKeeps DEF Addon!handlePolishingState

LEMMA handleResultsKeeps ==
  ASSUME NEW m, NEW f \in Keyboard, NEW T, NEW P, P \subseteq T, AddonOk(m, f, T, P),
         NEW shown, NEW same, m.voice.id \in T, shown = "final" => m.voice.id \in P
  PROVE  AddonOk(Addon!handleResults(m, shown, same), f, T, P)
<1> DEFINE next == Addon!handleResults(m, shown, same)
           polished == IF shown \in {"streaming", "final"} THEN shown ELSE "none"
           recommended == IF shown \in {"streaming", "final"} THEN "polished" ELSE shown
           seen == [m EXCEPT !.voice.transcript = TRUE, !.voice.polished = polished,
                             !.voice.recommended = recommended]
           v == [m.voice EXCEPT !.transcript = TRUE, !.polished = polished,
                                !.recommended = recommended]
           shows == Addon!Render(seen)
<1>1. \/ \E choice \in Choices : next = Addon!selectResult(seen, choice)
      \/ \E choice \in Choices : next = Addon!selectResult(shows, choice)
      \/ next = shows
  BY DEF Addon!handleResults, Choices
<1>2. seen = [m EXCEPT !.voice = v]
  BY DEF AddonOk, Fields, Addon!Loaded
<1>3. polished = "final" => shown = "final"
  OBVIOUS
<1> HIDE DEF polished, recommended
<1>4. VoiceOk(v, f, T, P) /\ v.ic = m.voice.ic
  BY <1>3 DEF AddonOk, Fields, VoiceOk, Addon!NoVoice
<1> HIDE DEF next, seen, v
<1>5. AddonOk(seen, f, T, P)
  BY <1>2, <1>4, VoiceChanged
<1>6. AddonOk(shows, f, T, P)
  BY <1>5, RenderKeeps
<1> HIDE DEF shows
<1>7. AddonOk(next, f, T, P)
  BY <1>1, <1>5, <1>6, selectResultKeeps
<1> QED BY <1>7 DEF next

LEMMA handleCompletedKeeps ==
  ASSUME NEW m, NEW f \in Keyboard, NEW T, NEW P, AddonOk(m, f, T, P), m.voice.ic # None,
         NEW s
  PROVE  AddonOk(Addon!handleCompleted(m, s), f, T, P)
<1> DEFINE a == Addon!clearOwnPanel(m, m.voice.ic)
           n == [a EXCEPT !.voice = Addon!NoVoice]
<1>1. m.voice.ic = f /\ f \in Contexts
  BY DEF AddonOk, Fields, VoiceOk, Keyboard
<1>2. Fields(a, f, T, P) /\ \A owner : Place(a.ic[f], owner)
  BY <1>1, clearOwnPanelIs, NoneIsNobody DEF AddonOk, Place
<1> HIDE DEF a
<1>3. Fields(n, f, T, P) /\ n.ic = a.ic
  BY <1>2, VoiceReplaced, Silent
<1> HIDE DEF n
<1>4. AddonOk(n, f, T, P)
  BY <1>2, <1>3 DEF AddonOk
<1> QED BY <1>4 DEF n, a, Addon!handleCompleted

LEMMA handleSessionErrorKeeps ==
  ASSUME NEW m, NEW f \in Keyboard, NEW T, NEW P, T \subseteq Sessions, P \subseteq T,
         AddonOk(m, f, T, P), NEW s \in Sessions
  PROVE  AddonOk(Addon!handleSessionError(m, s), f, T, P)
<1> DEFINE known == IF m.voice.id = None /\ m.voice.pending
                    THEN [m EXCEPT !.voice.id = s] ELSE m
           v == [m.voice EXCEPT !.id = s]
           n == [m EXCEPT !.voice.id = s]
<1>1. AddonOk(known, f, T, P)
  <2>1. CASE m.voice.id = None /\ m.voice.pending
    <3>1. VoiceOk(v, f, T, P) /\ v.ic = m.voice.ic
      BY <2>1, NoneIsNobody DEF AddonOk, Fields, VoiceOk, Addon!NoVoice
    <3>2. n = [m EXCEPT !.voice = v]
      OBVIOUS
    <3>3. known = n
      BY <2>1
    <3> HIDE DEF v, n, known
    <3> QED BY <3>1, <3>2, <3>3, VoiceChanged
  <2>2. CASE ~(m.voice.id = None /\ m.voice.pending)
    BY <2>2
  <2> QED BY <2>1, <2>2
<1>2. Addon!handleSessionError(m, s)
        = IF known.voice.id # s THEN known ELSE Addon!handleDaemonError(known, s)
  BY DEF Addon!handleSessionError
<1> HIDE DEF known
<1> QED BY <1>1, <1>2, handleDaemonErrorKeeps

LEMMA handleInitializedKeeps ==
  ASSUME NEW m, NEW f \in Keyboard, NEW T, NEW P, AddonOk(m, f, T, P)
  PROVE  AddonOk(Addon!handleInitialized(m), f, T, P)
<1> DEFINE k == [m EXCEPT !.ready = TRUE]
           shown == IF m.voice.id = None THEN Addon!Render(k) ELSE k
<1>1. Same(m, k)
  BY DEF AddonOk, Fields, Addon!Loaded, Same
<1>2. Addon!handleInitialized(m) = Addon!sendPendingStart(shown)
  BY DEF Addon!handleInitialized
<1> HIDE DEF k
<1>3. AddonOk(k, f, T, P)
  BY <1>1, SameKeeps
<1>4. AddonOk(shown, f, T, P)
  BY <1>3, RenderKeeps
<1> HIDE DEF shown
<1> QED BY <1>2, <1>4, sendPendingStartKeeps

LEMMA AnsweredKeeps ==
  ASSUME NEW m, NEW f \in Keyboard, NEW T, NEW P, T \subseteq Sessions, P \subseteq T,
         AddonOk(m, f, T, P), NEW a \in Told(T, P)
  PROVE  AddonOk(Addon!Answered(m, a), f, T, P)
<1> DEFINE next == Addon!Answered(m, a)
<1>1. \/ next = Addon!handleInitialized(m)
      \/ a.method = "start" /\ a.value = "ok" /\ next = Addon!handleSessionStarted(m, a.session)
      \/ next = Addon!handleDaemonError(m, None)
      \/ next = Addon!handleDaemonError(m, a.session)
      \/ next = m
  BY DEF Addon!Answered
<1>2. a.method = "start" /\ a.value = "ok" => a.session \in Sessions
  BY DEF Told
<1> HIDE DEF next
<1>3. AddonOk(next, f, T, P)
  BY <1>1, <1>2, handleInitializedKeeps, handleSessionStartedKeeps, handleDaemonErrorKeeps
<1> QED BY <1>3 DEF next

LEMMA NotifiedKeeps ==
  ASSUME NEW m, NEW f \in Keyboard, NEW T, NEW P, T \subseteq Sessions, P \subseteq T,
         AddonOk(m, f, T, P), NEW n \in Told(T, P), n.method \in Addon!Notifications, NEW same
  PROVE  AddonOk(Addon!Notified(m, n, same), f, T, P)
<1> DEFINE next == Addon!Notified(m, n, same)
<1>1. \/ next = Addon!handlePhase(m, n.session, n.value)
      \/ next = Addon!handleSessionError(m, n.session)
      \/ next = m
      \/ next = Addon!handlePolishingState(m, n.value = "on")
      \/ /\ n.method = "results" /\ Addon!Mine(m, n.session)
         /\ next = Addon!handleResults(m, n.value, same)
      \/ Addon!Mine(m, n.session) /\ next = Addon!handleCompleted(m, n.session)
  <2>1. CASE n.method = "phase"
    BY <2>1 DEF Addon!Notified
  <2>2. CASE n.method = "error"
    BY <2>2 DEF Addon!Notified
  <2>3. CASE n.method \notin {"phase", "error"} /\ ~Addon!Mine(m, n.session)
    BY <2>3 DEF Addon!Notified
  <2>4. CASE n.method \in {"polishingState", "results", "completed"} /\ Addon!Mine(m, n.session)
    BY <2>4 DEF Addon!Notified
  <2> QED BY <2>1, <2>2, <2>3, <2>4 DEF Addon!Notifications
<1>2. n.session \in Sessions
  BY DEF Told, Addon!Notifications, Daemon!Events
<1>3. n.method = "results" => n.session \in T /\ (n.value = "final" => n.session \in P)
  BY DEF Told
<1> HIDE DEF next
<1>4. AddonOk(next, f, T, P)
  BY <1>1, <1>2, <1>3, handlePhaseKeeps, handleSessionErrorKeeps, handlePolishingStateKeeps,
     handleResultsKeeps, handleCompletedKeeps DEF Addon!Mine
<1> QED BY <1>4 DEF next

-------------------------------------------------------------------------------
(***************************************************************************)
(* The sessions of the daemon.                                             *)
(***************************************************************************)
Phases == {"none", "preparing", "recording", "recognizing", "processing", "polishing",
           "choosing"}
ShowingResults == {"polishing", "choosing"}

Sheet == [ start : {"none", "pending", "returned", "threw"},
           finish : {"none", "pending", "resolved", "rejected"},
           cancel : {"none", "pending", "done"}, failing : BOOLEAN,
           phase : Phases, offered : SUBSET Choices ]

\* Whose transcript, and whose polished text, was announced: once the session is
\* settled, nobody asks what it offered.
Transcript(r) == "transcript" \in r.offered /\ (r.phase \in ShowingResults \/ r.cancel = "pending")

Transcribed ==
  { s \in Sessions : svc[s].start # "none" /\ (live = s => Transcript(svc[s])) }

Polished == { s \in Transcribed : live = s => "polished" \in svc[s].offered }

\* The record of a session that is active or not.
SheetOk(r, active) ==
  /\ r \in Sheet
  /\ r.start = "none" =>
       r.finish = "none" /\ r.cancel = "none" /\ r.phase = "none" /\ ~active
  /\ active => r.cancel # "done"
  /\ active /\ r.phase \in ShowingResults => "transcript" \in r.offered

ServiceOk ==
  /\ live \in Sessions \cup {None}
  /\ gate \in {"none", "self", "other"}
  /\ DOMAIN svc = Sessions
  /\ \A s \in Sessions : SheetOk(svc[s], live = s)

\* What a session may publish with record r, active or not.
Said(s, r, active) ==
  { n \in [session : {s}, method : Daemon!Events, value : Texts] :
      /\ n.method = "results" /\ active => Transcript(r)
      /\ n.method = "results" /\ active /\ n.value = "final" => "polished" \in r.offered
      /\ n.method = "completed" => ~active }

\* A session goes from record a to record b.
Onward(a, b) ==
  /\ b.finish = "none" => a.finish = "none"
  /\ b.cancel = "none" => a.cancel = "none"
  /\ a.offered \subseteq b.offered
  /\ a.phase \in ShowingResults => b.phase \in ShowingResults

\* Session s is what a step changes.
Moved(s) ==
  /\ live = s \/ live' = s \/ live' = live
  /\ live' \in {live, s, None}
  /\ live' = s /\ live # s => live = None /\ svc[s].start = "none"
  /\ gate' \in {"none", "self", "other"}
  /\ svc' = [svc EXCEPT ![s] = svc'[s]]
  /\ svc'[s].start # "none" /\ SheetOk(svc'[s], live' = s)
  /\ Onward(svc[s], svc'[s])

\* A step publishes at most one completion, and that settles the session.
Published(s) ==
  /\ out' \in Seq(Said(s, svc'[s], live' = s))
  /\ \A i, j \in DOMAIN out' :
       out'[i].method = "completed" /\ out'[j].method = "completed" => i = j
  /\ (\E i \in DOMAIN out' : out'[i].method = "completed") => live = s /\ live' # s

LEMMA SaysNothing ==
  ASSUME NEW s, out' = <<>>
  PROVE  Published(s)
BY DEF Published

LEMMA SaysOne ==
  ASSUME NEW s, NEW e \in Said(s, svc'[s], live' = s), out' = <<e>>,
         e.method = "completed" => live = s /\ live' # s
  PROVE  Published(s)
BY DEF Published

LEMMA SaysTwo ==
  ASSUME NEW s, NEW d \in Said(s, svc'[s], live' = s), NEW e \in Said(s, svc'[s], live' = s),
         out' = <<d, e>>, d.method # "completed",
         e.method = "completed" => live = s /\ live' # s
  PROVE  Published(s)
BY DEF Published

\* Session s becomes r.
LEMMA BecomesIs ==
  ASSUME ServiceOk, NEW s \in Sessions, NEW r, NEW events, Daemon!Service!Becomes(s, r, events),
         SheetOk(svc[s], TRUE) => r.start # "none" /\ SheetOk(r, TRUE) /\ Onward(svc[s], r)
  PROVE  Moved(s) /\ svc'[s] = r /\ live = s /\ live' = s /\ out' = events
<1>1. /\ live = s /\ live' = live /\ gate' = gate /\ svc' = [svc EXCEPT ![s] = r]
      /\ out' = events
  BY DEF Daemon!Service!Becomes, Daemon!Service!book
<1>2. SheetOk(svc[s], TRUE)
  BY <1>1 DEF ServiceOk, SheetOk
<1>3. svc'[s] = r /\ svc' = [svc EXCEPT ![s] = svc'[s]]
  BY <1>1 DEF ServiceOk
<1>4. r.start # "none" /\ SheetOk(r, live' = s) /\ Onward(svc[s], r)
  BY <1>1, <1>2 DEF SheetOk
<1> QED BY <1>1, <1>3, <1>4 DEF Moved, ServiceOk

LEMMA SettleIs ==
  ASSUME ServiceOk, NEW s \in Sessions, NEW r, NEW events, Daemon!Service!Settle(s, r, events),
         SheetOk(svc[s], TRUE) => r \in Sheet /\ r.start # "none" /\ Onward(svc[s], r)
  PROVE  /\ Moved(s) /\ live = s /\ live' # s /\ out' = events
<1>1. /\ live = s /\ live' = None /\ gate' = "none"
      /\ svc' = [svc EXCEPT ![s] = [r EXCEPT !.failing = FALSE]]
      /\ out' = events
  BY DEF Daemon!Service!Settle
<1>2. SheetOk(svc[s], TRUE)
  BY <1>1 DEF ServiceOk, SheetOk
<1>3. /\ [r EXCEPT !.failing = FALSE] \in Sheet /\ [r EXCEPT !.failing = FALSE].start = r.start
      /\ Onward(svc[s], [r EXCEPT !.failing = FALSE])
  BY <1>2 DEF Sheet, Onward
<1>4. svc'[s] = [r EXCEPT !.failing = FALSE] /\ svc' = [svc EXCEPT ![s] = svc'[s]]
  BY <1>1 DEF ServiceOk
<1>5. /\ svc'[s].start # "none" /\ SheetOk(svc'[s], live' = s) /\ live' # s
      /\ Onward(svc[s], svc'[s])
  BY <1>1, <1>2, <1>3, <1>4, NoneIsNobody DEF SheetOk
<1> QED BY <1>1, <1>4, <1>5 DEF Moved

LEMMA EventSaid ==
  ASSUME NEW s, NEW r, NEW active, NEW method \in Daemon!Events, NEW value \in Texts,
         method = "results" /\ active => Transcript(r),
         method = "results" /\ active /\ value = "final" => "polished" \in r.offered,
         method = "completed" => ~active
  PROVE  Daemon!Service!Event(s, method, value) \in Said(s, r, active)
BY DEF Daemon!Service!Event, Said

-------------------------------------------------------------------------------
LEMMA OpenMoves ==
  ASSUME ServiceOk, NEW s \in Sessions, Daemon!Service!Open(s)
  PROVE  Moved(s) /\ Published(s) /\ svc'[s].start = "pending"
<1> DEFINE r == [svc[s] EXCEPT !.start = "pending", !.phase = "preparing"]
<1>1. /\ live = None /\ live' = s /\ gate' = "self" /\ svc[s].start = "none"
      /\ svc' = [svc EXCEPT ![s].start = "pending", ![s].phase = "preparing"]
  BY DEF Daemon!Service!Open
<1>2. svc' = [svc EXCEPT ![s] = r] /\ svc'[s] = r
  BY <1>1 DEF ServiceOk
<1>3. SheetOk(svc[s], live = s)
  BY DEF ServiceOk
<1>4. /\ r \in Sheet /\ r.start = "pending" /\ r.cancel = "none" /\ r.phase = "preparing"
      /\ Onward(svc[s], r)
  BY <1>1, <1>3 DEF SheetOk, Sheet, Phases, Onward, ShowingResults
<1> HIDE DEF r
<1>5. SheetOk(r, live' = s)
  BY <1>4 DEF SheetOk, ShowingResults
<1>6. Moved(s)
  BY <1>1, <1>2, <1>4, <1>5, NoneIsNobody DEF Moved, ServiceOk
<1>7. PICK marker \in {"on", "off"} :
        out' = <<Daemon!Service!Event(s, "phase", "preparing"),
                 Daemon!Service!Event(s, "polishingState", marker)>>
  BY DEF Daemon!Service!Open, Daemon!Service!Phase
<1>8. /\ Daemon!Service!Event(s, "phase", "preparing") \in Said(s, r, live' = s)
      /\ Daemon!Service!Event(s, "polishingState", marker) \in Said(s, r, live' = s)
  BY EventSaid DEF Texts, Daemon!Events
<1>9. Published(s)
  BY <1>2, <1>7, <1>8, SaysTwo DEF Daemon!Service!Event
<1> QED BY <1>2, <1>4, <1>6, <1>9

LEMMA FinishMoves ==
  ASSUME ServiceOk, NEW s \in Sessions, Daemon!Service!Finish(s)
  PROVE  Moved(s) /\ Published(s) /\ svc'[s].finish \in {"pending", "rejected"}
<1>1. PICK u \in {"pending", "rejected"} :
        Daemon!Service!Becomes(s, [svc[s] EXCEPT !.finish = u], <<>>)
  BY DEF Daemon!Service!Finish
<1> DEFINE r == [svc[s] EXCEPT !.finish = u]
<1>2. ASSUME SheetOk(svc[s], TRUE)
      PROVE  r.start # "none" /\ SheetOk(r, TRUE) /\ Onward(svc[s], r) /\ r.finish = u
  BY <1>2 DEF SheetOk, Sheet, Onward
<1>3. live = s => SheetOk(svc[s], TRUE)
  BY DEF ServiceOk, SheetOk
<1> HIDE DEF r
<1>4. Daemon!Service!Becomes(s, r, <<>>)
  BY <1>1 DEF r
<1>5. Moved(s) /\ svc'[s] = r /\ out' = <<>> /\ live = s
  BY <1>2, <1>4, BecomesIs
<1> QED BY <1>2, <1>3, <1>5, SaysNothing

LEMMA CancelMoves ==
  ASSUME ServiceOk, NEW s \in Sessions, Daemon!Service!Cancel(s)
  PROVE  /\ Moved(s) /\ Published(s)
         /\ live = s /\ live' = s /\ svc'[s].cancel = "pending" /\ out' = <<>>
<1> DEFINE r == [svc[s] EXCEPT !.cancel = "pending"]
<1>1. Daemon!Service!Becomes(s, r, <<>>)
  BY DEF Daemon!Service!Cancel
<1>2. ASSUME SheetOk(svc[s], TRUE)
      PROVE  r.start # "none" /\ SheetOk(r, TRUE) /\ Onward(svc[s], r) /\ r.cancel = "pending"
  BY <1>2 DEF SheetOk, Sheet, Onward
<1>3. live = s => SheetOk(svc[s], TRUE)
  BY DEF ServiceOk, SheetOk
<1> HIDE DEF r
<1>4. Moved(s) /\ svc'[s] = r /\ out' = <<>> /\ live = s /\ live' = s
  BY <1>1, <1>2, BecomesIs
<1> QED BY <1>2, <1>3, <1>4, SaysNothing

LEMMA SelectMoves ==
  ASSUME ServiceOk, NEW s \in Sessions, NEW choice \in Choices, Daemon!Service!Select(s, choice)
  PROVE  Moved(s) /\ Published(s)
<1> DEFINE e == Daemon!Service!Event(s, "completed", choice)
<1>1. Daemon!Service!Settle(s, svc[s], <<e>>)
  BY DEF Daemon!Service!Select
<1>2. ASSUME SheetOk(svc[s], TRUE)
      PROVE  svc[s] \in Sheet /\ svc[s].start # "none" /\ Onward(svc[s], svc[s])
  BY <1>2 DEF SheetOk, Onward
<1>3. Moved(s) /\ live = s /\ live' # s /\ out' = <<e>>
  BY <1>1, <1>2, SettleIs
<1>4. e \in Said(s, svc'[s], live' = s)
  BY <1>3, EventSaid DEF Texts, Daemon!Events
<1> QED BY <1>3, <1>4, SaysOne

LEMMA ToggleMoves ==
  ASSUME ServiceOk, NEW s \in Sessions, Daemon!Service!Toggle(s)
  PROVE  Moved(s) /\ Published(s)
<1>1. PICK events \in {<<>>, <<Daemon!Service!Event(s, "polishingState", "on")>>,
                        <<Daemon!Service!Event(s, "polishingState", "off")>>} :
        Daemon!Service!Becomes(s, svc[s], events)
  BY DEF Daemon!Service!Toggle
<1>2. ASSUME SheetOk(svc[s], TRUE)
      PROVE  svc[s].start # "none" /\ SheetOk(svc[s], TRUE) /\ Onward(svc[s], svc[s])
  BY <1>2 DEF SheetOk, Onward
<1>3. Moved(s) /\ live = s /\ live' = s /\ out' = events
  BY <1>1, <1>2, BecomesIs
<1>4. \A marker \in {"on", "off"} :
        Daemon!Service!Event(s, "polishingState", marker) \in Said(s, svc'[s], live' = s)
  BY EventSaid DEF Texts, Daemon!Events
<1>5. \A marker \in {"on", "off"} :
        out' = <<Daemon!Service!Event(s, "polishingState", marker)>> => Published(s)
  BY <1>4, SaysOne DEF Daemon!Service!Event
<1> QED BY <1>1, <1>3, <1>5, SaysNothing

\* A phase begins.
LEMMA PhaseBegins ==
  ASSUME ServiceOk, NEW s \in Sessions, NEW r,
         NEW phase \in {"recording", "recognizing", "processing"},
         Daemon!Service!Becomes(s, r, <<Daemon!Service!Phase(s, phase)>>),
         SheetOk(svc[s], TRUE) => r.start # "none" /\ SheetOk(r, TRUE) /\ Onward(svc[s], r)
  PROVE  Moved(s) /\ Published(s)
<1> DEFINE e == Daemon!Service!Event(s, "phase", phase)
<1>1. Daemon!Service!Becomes(s, r, <<e>>)
  BY DEF Daemon!Service!Phase
<1> HIDE DEF e
<1>2. Moved(s) /\ out' = <<e>>
  BY <1>1, BecomesIs
<1>3. e \in Said(s, svc'[s], live' = s) /\ e.method = "phase"
  BY EventSaid DEF Texts, Daemon!Events, e, Daemon!Service!Event
<1> QED BY <1>2, <1>3, SaysOne

LEMMA RecordMoves ==
  ASSUME ServiceOk, NEW s \in Sessions, Daemon!Service!Record(s)
  PROVE  Moved(s) /\ Published(s)
<1> DEFINE r == [svc[s] EXCEPT !.start = "returned", !.phase = "recording"]
<1>1. /\ Daemon!Service!Becomes(s, r, <<Daemon!Service!Phase(s, "recording")>>)
      /\ svc[s].phase = "preparing"
  BY DEF Daemon!Service!Record
<1>2. ASSUME SheetOk(svc[s], TRUE)
      PROVE  r.start # "none" /\ SheetOk(r, TRUE) /\ Onward(svc[s], r)
  BY <1>1, <1>2 DEF SheetOk, Sheet, Onward, Phases, ShowingResults
<1> HIDE DEF r
<1> QED BY <1>1, <1>2, PhaseBegins

LEMMA RecognizeMoves ==
  ASSUME ServiceOk, NEW s \in Sessions, Daemon!Service!Recognize(s)
  PROVE  Moved(s) /\ Published(s)
<1> DEFINE r == [svc[s] EXCEPT !.phase = "recognizing"]
<1>1. /\ Daemon!Service!Becomes(s, r, <<Daemon!Service!Phase(s, "recognizing")>>)
      /\ svc[s].phase = "recording"
  BY DEF Daemon!Service!Recognize
<1>2. ASSUME SheetOk(svc[s], TRUE)
      PROVE  r.start # "none" /\ SheetOk(r, TRUE) /\ Onward(svc[s], r)
  BY <1>1, <1>2 DEF SheetOk, Sheet, Onward, Phases, ShowingResults
<1> HIDE DEF r
<1> QED BY <1>1, <1>2, PhaseBegins

LEMMA ProcessMoves ==
  ASSUME ServiceOk, NEW s \in Sessions, Daemon!Service!Process(s)
  PROVE  Moved(s) /\ Published(s)
<1> DEFINE r == [svc[s] EXCEPT !.phase = "processing"]
<1>1. /\ Daemon!Service!Becomes(s, r, <<Daemon!Service!Phase(s, "processing")>>)
      /\ svc[s].phase = "recognizing"
  BY DEF Daemon!Service!Process
<1>2. ASSUME SheetOk(svc[s], TRUE)
      PROVE  r.start # "none" /\ SheetOk(r, TRUE) /\ Onward(svc[s], r)
  BY <1>1, <1>2 DEF SheetOk, Sheet, Onward, Phases, ShowingResults
<1> HIDE DEF r
<1> QED BY <1>1, <1>2, PhaseBegins

LEMMA DeliverMoves ==
  ASSUME ServiceOk, NEW s \in Sessions, Daemon!Service!Deliver(s)
  PROVE  Moved(s) /\ Published(s)
<1> DEFINE shown == [svc[s] EXCEPT !.offered = @ \cup {"transcript"}]
           polishing == [shown EXCEPT !.phase = "polishing"]
           results(v) == Daemon!Service!Event(s, "results", v)
           completed == Daemon!Service!Event(s, "completed", "transcript")
           phase == Daemon!Service!Event(s, "phase", "polishing")
<1>1. /\ svc[s].phase = "processing"
      /\ \/ /\ svc[s].cancel = "pending"
            /\ \E v \in {"none", "transcript"} :
                 Daemon!Service!Becomes(s, shown, <<results(v)>>)
         \/ Daemon!Service!Settle(s, shown, <<results("transcript"), completed>>)
         \/ Daemon!Service!Becomes(s, polishing, <<results("none"), phase>>)
  BY DEF Daemon!Service!Deliver, Daemon!Service!Cancelling, Daemon!Service!Phase
<1>2. ASSUME SheetOk(svc[s], TRUE)
      PROVE  /\ shown.start # "none" /\ SheetOk(shown, TRUE) /\ Onward(svc[s], shown)
             /\ shown.cancel = svc[s].cancel /\ "transcript" \in shown.offered /\ shown \in Sheet
             /\ polishing.start # "none" /\ SheetOk(polishing, TRUE) /\ Onward(svc[s], polishing)
             /\ polishing.phase = "polishing" /\ "transcript" \in polishing.offered
  <2>1. svc[s] \in Sheet /\ svc[s].offered \cup {"transcript"} \in SUBSET Choices
    BY <1>2 DEF SheetOk, Sheet, Choices
  <2>2. /\ shown \in Sheet /\ polishing \in Sheet
        /\ shown.start = svc[s].start /\ polishing.start = svc[s].start
        /\ shown.cancel = svc[s].cancel /\ polishing.cancel = svc[s].cancel
        /\ shown.finish = svc[s].finish /\ polishing.finish = svc[s].finish
        /\ shown.phase = svc[s].phase /\ polishing.phase = "polishing"
        /\ shown.offered = svc[s].offered \cup {"transcript"}
        /\ polishing.offered = svc[s].offered \cup {"transcript"}
    BY <2>1 DEF Sheet, Phases
  <2> HIDE DEF shown, polishing
  <2> QED BY <1>1, <1>2, <2>2 DEF SheetOk, Onward, ShowingResults
<1>3. live = s => SheetOk(svc[s], TRUE)
  BY DEF ServiceOk, SheetOk
<1> HIDE DEF shown, polishing
<1>4. CASE svc[s].cancel = "pending"
           /\ \E v \in {"none", "transcript"} :
                Daemon!Service!Becomes(s, shown, <<results(v)>>)
  <2>1. PICK v \in {"none", "transcript"} : Daemon!Service!Becomes(s, shown, <<results(v)>>)
    BY <1>4
  <2>2. Moved(s) /\ svc'[s] = shown /\ live = s /\ live' = s /\ out' = <<results(v)>>
    BY <1>2, <2>1, BecomesIs
  <2>3. Transcript(shown)
    BY <1>2, <1>3, <1>4, <2>2 DEF Transcript
  <2>4. Transcript(svc'[s]) /\ v \in Texts /\ v # "final" /\ "results" \in Daemon!Events
    BY <2>1, <2>2, <2>3 DEF Texts, Choices, Daemon!Events
  <2>5. results(v) \in Said(s, svc'[s], live' = s)
    BY <2>4, EventSaid
  <2> QED BY <2>2, <2>5, SaysOne DEF Daemon!Service!Event
<1>5. CASE Daemon!Service!Settle(s, shown, <<results("transcript"), completed>>)
  <2>1. Moved(s) /\ live = s /\ live' # s /\ out' = <<results("transcript"), completed>>
    BY <1>2, <1>5, SettleIs
  <2>2. /\ results("transcript") \in Said(s, svc'[s], live' = s)
        /\ completed \in Said(s, svc'[s], live' = s)
    <3>1. "transcript" \in Texts /\ {"results", "completed"} \subseteq Daemon!Events
      BY DEF Texts, Choices, Daemon!Events
    <3> QED BY <2>1, <3>1, EventSaid
  <2>3. results("transcript").method # "completed"
    BY DEF Daemon!Service!Event
  <2> QED BY <2>1, <2>2, <2>3, SaysTwo
<1>6. CASE Daemon!Service!Becomes(s, polishing, <<results("none"), phase>>)
  <2>1. /\ Moved(s) /\ svc'[s] = polishing /\ live = s /\ live' = s
        /\ out' = <<results("none"), phase>>
    BY <1>2, <1>6, BecomesIs
  <2>2. Transcript(polishing)
    BY <1>2, <1>3, <2>1 DEF Transcript, ShowingResults
  <2>3. results("none") \in Said(s, svc'[s], live' = s) /\ phase \in Said(s, svc'[s], live' = s)
    BY <2>1, <2>2, EventSaid DEF Texts, Daemon!Events
  <2>4. results("none").method = "results" /\ phase.method = "phase"
    BY DEF Daemon!Service!Event
  <2> HIDE DEF phase, results
  <2> QED BY <2>1, <2>3, <2>4, SaysTwo
<1> QED BY <1>1, <1>4, <1>5, <1>6

LEMMA PolishDeltaMoves ==
  ASSUME ServiceOk, NEW s \in Sessions, Daemon!Service!PolishDelta(s)
  PROVE  Moved(s) /\ Published(s)
<1> DEFINE e == Daemon!Service!Event(s, "results", "streaming")
<1>1. Daemon!Service!Becomes(s, svc[s], <<e>>) /\ svc[s].phase = "polishing"
  BY DEF Daemon!Service!PolishDelta
<1>2. ASSUME SheetOk(svc[s], TRUE)
      PROVE  /\ svc[s].start # "none" /\ SheetOk(svc[s], TRUE) /\ Onward(svc[s], svc[s])
             /\ Transcript(svc[s])
  BY <1>1, <1>2 DEF SheetOk, Onward, ShowingResults, Transcript
<1>3. live = s => SheetOk(svc[s], TRUE)
  BY DEF ServiceOk, SheetOk
<1>4. Moved(s) /\ svc'[s] = svc[s] /\ live = s /\ live' = s /\ out' = <<e>>
  BY <1>1, <1>2, BecomesIs
<1>5. e \in Said(s, svc'[s], live' = s)
  BY <1>2, <1>3, <1>4, EventSaid DEF Texts, Daemon!Events
<1> QED BY <1>4, <1>5, SaysOne DEF Daemon!Service!Event

LEMMA PolishEndsMoves ==
  ASSUME ServiceOk, NEW s \in Sessions, Daemon!Service!PolishEnds(s)
  PROVE  Moved(s) /\ Published(s)
<1> DEFINE plain == [svc[s] EXCEPT !.phase = "choosing"]
           polished == [svc[s] EXCEPT !.phase = "choosing", !.offered = Choices]
           results(v) == Daemon!Service!Event(s, "results", v)
           phase == Daemon!Service!Event(s, "phase", "choosing")
<1>1. /\ svc[s].phase = "polishing"
      /\ \/ Daemon!Service!Becomes(s, plain, <<results("transcript"), phase>>)
         \/ Daemon!Service!Becomes(s, polished, <<results("final"), phase>>)
  BY DEF Daemon!Service!PolishEnds, Daemon!Service!Phase, Choices, Daemon!Service!Choices
<1>2. ASSUME SheetOk(svc[s], TRUE), NEW r \in {plain, polished}
      PROVE  /\ r.start # "none" /\ SheetOk(r, TRUE) /\ Onward(svc[s], r)
             /\ Transcript(r) /\ (r = polished => "polished" \in r.offered)
  <2>1. svc[s] \in Sheet /\ svc[s].offered \subseteq Choices /\ "transcript" \in svc[s].offered
    BY <1>1, <1>2 DEF SheetOk, Sheet, ShowingResults
  <2>2. /\ r \in Sheet /\ r.start = svc[s].start /\ r.finish = svc[s].finish
        /\ r.cancel = svc[s].cancel /\ r.phase = "choosing"
        /\ r.offered \in {svc[s].offered, Choices} /\ (r = polished => r.offered = Choices)
    BY <1>2, <2>1 DEF Sheet, Phases
  <2> HIDE DEF plain, polished
  <2> QED BY <1>2, <2>1, <2>2 DEF SheetOk, Onward, ShowingResults, Transcript, Choices
<1>3. live = s => SheetOk(svc[s], TRUE)
  BY DEF ServiceOk, SheetOk
<1> HIDE DEF plain, polished
<1>4. results("transcript").method = "results" /\ results("final").method = "results"
      /\ phase.method = "phase"
  BY DEF Daemon!Service!Event
<1>5. ASSUME NEW r \in {plain, polished}, NEW v \in {"transcript", "final"},
             v = "final" => r = polished,
             Daemon!Service!Becomes(s, r, <<results(v), phase>>)
      PROVE  Moved(s) /\ Published(s)
  <2>1. Moved(s) /\ svc'[s] = r /\ live = s /\ live' = s /\ out' = <<results(v), phase>>
    BY <1>2, <1>5, BecomesIs
  <2>2. Transcript(r) /\ (r = polished => "polished" \in r.offered)
    BY <1>2, <1>3, <2>1
  <2>3. /\ Transcript(svc'[s]) /\ (v = "final" => "polished" \in svc'[s].offered)
        /\ {v, "choosing"} \subseteq Texts /\ {"results", "phase"} \subseteq Daemon!Events
    BY <1>5, <2>1, <2>2 DEF Texts, Choices, Daemon!Events
  <2>4. results(v) \in Said(s, svc'[s], live' = s) /\ phase \in Said(s, svc'[s], live' = s)
    BY <2>3, EventSaid
  <2> HIDE DEF phase, results
  <2> QED BY <1>4, <2>1, <2>4, SaysTwo
<1> QED BY <1>1, <1>5

LEMMA FailMoves ==
  ASSUME ServiceOk, NEW s \in Sessions, Daemon!Service!Fail(s)
  PROVE  Moved(s) /\ Published(s)
<1> DEFINE r == [svc[s] EXCEPT !.failing = TRUE]
<1>1. Daemon!Service!Becomes(s, r, <<>>)
  BY DEF Daemon!Service!Fail
<1>2. ASSUME SheetOk(svc[s], TRUE)
      PROVE  r.start # "none" /\ SheetOk(r, TRUE) /\ Onward(svc[s], r)
  BY <1>2 DEF SheetOk, Sheet, Onward
<1> HIDE DEF r
<1> QED BY <1>1, <1>2, BecomesIs, SaysNothing

LEMMA FailSettlesMoves ==
  ASSUME ServiceOk, NEW s \in Sessions, Daemon!Service!FailSettles(s)
  PROVE  Moved(s) /\ Published(s)
<1> DEFINE e == Daemon!Service!Event(s, "error", "failure")
<1>1. Daemon!Service!Settle(s, svc[s], <<e>>)
  BY DEF Daemon!Service!FailSettles
<1>2. ASSUME SheetOk(svc[s], TRUE)
      PROVE  svc[s] \in Sheet /\ svc[s].start # "none" /\ Onward(svc[s], svc[s])
  BY <1>2 DEF SheetOk, Onward
<1>3. Moved(s) /\ live = s /\ live' # s /\ out' = <<e>>
  BY <1>1, <1>2, SettleIs
<1>4. e \in Said(s, svc'[s], live' = s)
  BY EventSaid DEF Texts, Daemon!Events
<1> QED BY <1>3, <1>4, SaysOne

-------------------------------------------------------------------------------
\* A promise settles, and nothing else.
LEMMA PromiseMoves ==
  ASSUME ServiceOk, NEW s \in Sessions, NEW r, svc' = [svc EXCEPT ![s] = r], out' = <<>>,
         UNCHANGED <<live, gate>>,
         r.start # "none", SheetOk(r, live = s), Onward(svc[s], r)
  PROVE  Moved(s) /\ Published(s)
<1>1. svc'[s] = r /\ svc' = [svc EXCEPT ![s] = svc'[s]]
  BY DEF ServiceOk
<1>2. live' = live /\ gate' = gate /\ SheetOk(svc'[s], live' = s)
  BY <1>1
<1> QED BY <1>1, <1>2, SaysNothing DEF Moved, ServiceOk

LEMMA StartSettlesMoves ==
  ASSUME ServiceOk, NEW s \in Sessions, NEW u \in {"returned", "threw"},
         Daemon!Service!StartSettles(s, u)
  PROVE  Moved(s) /\ Published(s)
<1> DEFINE r == [svc[s] EXCEPT !.start = u]
<1>1. /\ svc[s].start = "pending" /\ svc' = [svc EXCEPT ![s].start = u] /\ out' = <<>>
      /\ UNCHANGED <<live, gate>>
  BY DEF Daemon!Service!StartSettles, Daemon!Service!book
<1>2. SheetOk(svc[s], live = s)
  BY DEF ServiceOk
<1>3. r.start # "none" /\ SheetOk(r, live = s) /\ Onward(svc[s], r)
  BY <1>1, <1>2 DEF SheetOk, Sheet, Onward
<1>4. svc' = [svc EXCEPT ![s] = r]
  BY <1>1
<1> HIDE DEF r
<1> QED BY <1>1, <1>3, <1>4, PromiseMoves

LEMMA FinishSettlesMoves ==
  ASSUME ServiceOk, NEW s \in Sessions, NEW u \in {"resolved", "rejected"},
         Daemon!Service!FinishSettles(s, u)
  PROVE  Moved(s) /\ Published(s)
<1> DEFINE r == [svc[s] EXCEPT !.finish = u]
<1>1. /\ svc[s].finish = "pending" /\ svc' = [svc EXCEPT ![s].finish = u] /\ out' = <<>>
      /\ UNCHANGED <<live, gate>>
  BY DEF Daemon!Service!FinishSettles, Daemon!Service!book
<1>2. SheetOk(svc[s], live = s)
  BY DEF ServiceOk
<1>3. r.start # "none" /\ SheetOk(r, live = s) /\ Onward(svc[s], r)
  BY <1>1, <1>2 DEF SheetOk, Sheet, Onward
<1>4. svc' = [svc EXCEPT ![s] = r]
  BY <1>1
<1> HIDE DEF r
<1> QED BY <1>1, <1>3, <1>4, PromiseMoves

LEMMA CancelSettlesMoves ==
  ASSUME ServiceOk, NEW s \in Sessions, Daemon!Service!CancelSettles(s)
  PROVE  Moved(s) /\ Published(s)
<1> DEFINE r == [svc[s] EXCEPT !.cancel = "done"]
<1>1. /\ svc[s].cancel = "pending"
      /\ \/ Daemon!Service!Settle(s, r, <<>>)
         \/ /\ live # s /\ svc' = [svc EXCEPT ![s] = r] /\ out' = <<>>
            /\ UNCHANGED <<live, gate>>
  BY DEF Daemon!Service!CancelSettles, Daemon!Service!book, Daemon!Service!Cancelling
<1>2. SheetOk(svc[s], live = s)
  BY DEF ServiceOk
<1>3. r \in Sheet /\ r.start # "none" /\ SheetOk(r, FALSE) /\ Onward(svc[s], r)
  BY <1>1, <1>2 DEF SheetOk, Sheet, Onward, ShowingResults
<1> HIDE DEF r
<1>4. CASE Daemon!Service!Settle(s, r, <<>>)
  BY <1>3, <1>4, SettleIs, SaysNothing
<1>5. CASE /\ live # s /\ svc' = [svc EXCEPT ![s] = r] /\ out' = <<>>
           /\ UNCHANGED <<live, gate>>
  <2>1. SheetOk(r, live = s)
    BY <1>3, <1>5 DEF SheetOk
  <2> QED BY <1>3, <1>5, <2>1, PromiseMoves
<1> QED BY <1>1, <1>4, <1>5

LEMMA ProgressMoves ==
  ASSUME ServiceOk, NEW s \in Sessions,
         \/ Daemon!Service!Progress(s) \/ Daemon!Service!PolishDelta(s)
         \/ Daemon!Service!Fail(s) \/ Daemon!Service!Promise(s)
  PROVE  Moved(s) /\ Published(s)
<1>1. CASE Daemon!Service!Progress(s)
  BY <1>1, RecordMoves, RecognizeMoves, ProcessMoves, DeliverMoves, PolishEndsMoves,
     FailSettlesMoves DEF Daemon!Service!Progress
<1>2. CASE Daemon!Service!Promise(s)
  BY <1>2, StartSettlesMoves, FinishSettlesMoves, CancelSettlesMoves DEF Daemon!Service!Promise
<1> QED BY <1>1, <1>2, PolishDeltaMoves, FailMoves

LEMMA MovedKeeps ==
  ASSUME ServiceOk, NEW s \in Sessions, Moved(s)
  PROVE  /\ ServiceOk'
         /\ Transcribed \subseteq Transcribed' /\ Polished \subseteq Polished'
         /\ Said(s, svc'[s], live' = s) \subseteq Told(Transcribed', Polished')
<1>1. /\ DOMAIN svc' = Sessions
      /\ \A t \in Sessions \ {s} : svc'[t] = svc[t] /\ (live' = t => live = t)
  BY NoneIsNobody DEF Moved, ServiceOk
<1>2. \A t \in Sessions \ {s} : live = t => live' = t
  BY NoneIsNobody DEF Moved, ServiceOk
<1>3. live' \in Sessions \cup {None} /\ gate' \in {"none", "self", "other"}
  BY DEF Moved, ServiceOk
<1>4. ServiceOk'
  <2>1. ASSUME NEW t \in Sessions PROVE SheetOk(svc'[t], live' = t)
    <3>1. CASE t = s
      BY <3>1 DEF Moved
    <3>2. CASE t # s
      <4>1. (live' = t) = (live = t) /\ svc'[t] = svc[t]
        BY <1>1, <1>2, <3>2
      <4> QED BY <4>1 DEF ServiceOk
    <3> QED BY <3>1, <3>2
  <2> QED BY <1>1, <1>3, <2>1 DEF ServiceOk
<1>5. live = s /\ Transcript(svc[s]) /\ live' = s => Transcript(svc'[s])
  <2>1. ASSUME live' = s, Transcript(svc[s]), live = s PROVE Transcript(svc'[s])
    <3>1. svc'[s].cancel # "done" /\ svc'[s] \in Sheet
      BY <2>1 DEF Moved, SheetOk
    <3>2. svc'[s].cancel \in {"none", "pending"}
      BY <3>1 DEF Sheet
    <3> QED BY <2>1, <3>2 DEF Moved, Onward, Transcript
  <2> QED BY <2>1
<1>6. Transcribed \subseteq Transcribed' /\ Polished \subseteq Polished'
  <2>1. ASSUME NEW t \in Transcribed
        PROVE  t \in Transcribed' /\ (t \in Polished => t \in Polished')
    <3>1. CASE t = s
      <4>1. live' = s => live = s
        BY <2>1, <3>1 DEF Transcribed, Moved
      <4> QED BY <1>5, <2>1, <3>1, <4>1 DEF Transcribed, Polished, Moved, Onward
    <3>2. CASE t # s
      BY <1>1, <2>1, <3>2 DEF Transcribed, Polished
    <3> QED BY <3>1, <3>2
  <2> QED BY <2>1 DEF Polished
<1>7. ASSUME NEW n \in Said(s, svc'[s], live' = s) PROVE n \in Told(Transcribed', Polished')
  <2>1. n \in [session : Sessions \cup {None}, method : Methods \cup Daemon!Events, value : Words]
    BY DEF Said, Words
  <2>2. n.session = s
    BY DEF Said
  <2>3. n.method = "results" => s \in Transcribed' /\ (n.value = "final" => s \in Polished')
    BY DEF Said, Transcribed, Polished, Moved
  <2> QED BY <2>1, <2>2, <2>3 DEF Told
<1> QED BY <1>4, <1>6, <1>7

-------------------------------------------------------------------------------
(***************************************************************************)
(* What is known of sessions only grows.                                   *)
(***************************************************************************)
LEMMA KnowledgeGrows ==
  ASSUME NEW T, NEW P, NEW U, NEW Q, T \subseteq U, P \subseteq Q
  PROVE  /\ Asked(T, P) \subseteq Asked(U, Q) /\ Told(T, P) \subseteq Told(U, Q)
         /\ \A m, f : AddonOk(m, f, T, P) => AddonOk(m, f, U, Q)
<1>1. Asked(T, P) \subseteq Asked(U, Q) /\ Told(T, P) \subseteq Told(U, Q)
  BY DEF Asked, Told
<1>2. ASSUME NEW m, NEW f, AddonOk(m, f, T, P) PROVE AddonOk(m, f, U, Q)
  <2>1. m.sent \in Seq(Asked(U, Q))
    <3>1. m.sent \in Seq(Asked(T, P))
      BY <1>2 DEF AddonOk, Fields
    <3> HIDE DEF Asked
    <3> QED BY <1>1, <3>1
  <2>2. VoiceOk(m.voice, f, U, Q)
    BY <1>2 DEF AddonOk, Fields, VoiceOk
  <2> QED BY <1>2, <2>1, <2>2 DEF AddonOk, Fields
<1> QED BY <1>1, <1>2

-------------------------------------------------------------------------------
(***************************************************************************)
(* Completions among the messages of a queue.                              *)
(***************************************************************************)
Completes(n, s) == n.method = "completed" /\ n.session = s
Never(q, s) == \A i \in DOMAIN q : ~Completes(q[i], s)
Once(q, s) == \A i, j \in DOMAIN q : Completes(q[i], s) /\ Completes(q[j], s) => i = j

LEMMA InsertedIs ==
  ASSUME NEW S, NEW q \in Seq(S), NEW n \in Nat, NEW k \in 0 .. Len(q),
         NEW a \in S, a.method # "completed", NEW s
  PROVE  LET r == SubSeq(q, 1, k) \o [i \in 1 .. n |-> a] \o SubSeq(q, k + 1, Len(q)) IN
         r \in Seq(S) /\ (Never(q, s) => Never(r, s)) /\ (Once(q, s) => Once(r, s))
<1> DEFINE before == SubSeq(q, 1, k)
           copies == [i \in 1 .. n |-> a]
           after == SubSeq(q, k + 1, Len(q))
           r == (before \o copies) \o after
<1>1. Len(q) \in Nat /\ k \in Nat /\ \A i \in 1 .. Len(q) : q[i] \in S
  BY LenProperties, ElementOfSeq
<1>2. /\ before \in Seq(S) /\ Len(before) = k /\ \A i \in 1 .. k : before[i] = q[i]
  BY <1>1, SubSeqProperties
<1>3. /\ copies \in Seq(S) /\ Len(copies) = n /\ \A i \in 1 .. n : copies[i] = a
  OBVIOUS
<1>4. /\ after \in Seq(S) /\ Len(after) = Len(q) - k
      /\ \A i \in 1 .. Len(q) - k : after[i] = q[k + i]
  BY <1>1, SubSeqProperties
<1> DEFINE c == before \o copies
<1> HIDE DEF before, copies, after
<1>5. /\ c \in Seq(S) /\ Len(c) = k + n
      /\ \A i \in 1 .. k + n : c[i] = IF i <= k THEN q[i] ELSE a
  <2>1. /\ c \in Seq(S) /\ Len(c) = Len(before) + Len(copies)
        /\ \A i \in 1 .. Len(before) + Len(copies) :
             c[i] = IF i <= Len(before) THEN before[i] ELSE copies[i - Len(before)]
    BY <1>2, <1>3, ConcatProperties
  <2> HIDE DEF c
  <2>2. c \in Seq(S) /\ Len(c) = k + n
    BY <1>2, <1>3, <2>1
  <2>3. ASSUME NEW i \in 1 .. k + n PROVE c[i] = IF i <= k THEN q[i] ELSE a
    <3>1. c[i] = IF i <= k THEN before[i] ELSE copies[i - k]
      BY <1>2, <1>3, <2>1, <2>3
    <3>2. i <= k => before[i] = q[i]
      BY <1>1, <1>2, <2>3
    <3>3. ~(i <= k) => copies[i - k] = a
      BY <1>1, <1>3, <2>3
    <3> QED BY <3>1, <3>2, <3>3
  <2> QED BY <2>2, <2>3
<1> HIDE DEF c
<1>6. /\ r \in Seq(S) /\ Len(r) = Len(q) + n
      /\ \A i \in 1 .. Len(q) + n :
           r[i] = IF i <= k THEN q[i] ELSE IF i <= k + n THEN a ELSE q[i - n]
  <2> DEFINE d == c \o after
  <2>1. /\ d \in Seq(S) /\ Len(d) = Len(c) + Len(after)
        /\ \A i \in 1 .. Len(c) + Len(after) :
             d[i] = IF i <= Len(c) THEN c[i] ELSE after[i - Len(c)]
    BY <1>4, <1>5, ConcatProperties
  <2>2. r = d
    BY DEF c
  <2> HIDE DEF d, r
  <2>3. k + n + (Len(q) - k) = Len(q) + n
    BY <1>1
  <2>4. d \in Seq(S) /\ Len(d) = Len(q) + n
    BY <1>1, <1>4, <1>5, <2>1
  <2>5. ASSUME NEW i \in 1 .. Len(q) + n
        PROVE  d[i] = IF i <= k THEN q[i] ELSE IF i <= k + n THEN a ELSE q[i - n]
    <3>1. d[i] = IF i <= k + n THEN c[i] ELSE after[i - (k + n)]
      BY <1>1, <1>4, <1>5, <2>1, <2>3, <2>5
    <3>2. i <= k + n => c[i] = IF i <= k THEN q[i] ELSE a
      BY <1>1, <1>5, <2>5
    <3>3. ~(i <= k + n) => after[i - (k + n)] = q[i - n]
      <4>1. ASSUME ~(i <= k + n) PROVE i - (k + n) \in 1 .. Len(q) - k /\ k + (i - (k + n)) = i - n
        BY <1>1, <2>5, <4>1
      <4> QED BY <1>4, <4>1
    <3> QED BY <1>1, <3>1, <3>2, <3>3
  <2> QED BY <2>2, <2>4, <2>5
<1> HIDE DEF r
<1>7. DOMAIN r = 1 .. Len(q) + n /\ DOMAIN q = 1 .. Len(q)
  BY <1>6, LenProperties
\* Where a completion comes from.
<1> DEFINE place(x) == IF x <= k THEN x ELSE x - n
<1>8. ASSUME NEW x \in DOMAIN r, Completes(r[x], s)
      PROVE  /\ x \in Nat /\ (x <= k \/ k + n < x)
             /\ place(x) \in DOMAIN q /\ Completes(q[place(x)], s)
  <2>1. x \in Nat /\ 1 <= x /\ x <= Len(q) + n
    BY <1>1, <1>7, <1>8
  <2>2. r[x] = IF x <= k THEN q[x] ELSE IF x <= k + n THEN a ELSE q[x - n]
    BY <1>6, <1>7, <1>8
  <2>3. x <= k \/ k + n < x
    BY <1>1, <1>8, <2>1, <2>2 DEF Completes
  <2>4. place(x) \in 1 .. Len(q)
    BY <1>1, <2>1, <2>3
  <2>5. r[x] = q[place(x)]
    BY <1>1, <2>1, <2>2, <2>3
  <2> QED BY <1>7, <1>8, <2>1, <2>3, <2>4, <2>5
<1>9. ASSUME Once(q, s), NEW i \in DOMAIN r, NEW j \in DOMAIN r, Completes(r[i], s), Completes(r[j], s)
      PROVE  i = j
  <2>1. /\ i \in Nat /\ (i <= k \/ k + n < i) /\ j \in Nat /\ (j <= k \/ k + n < j)
    BY <1>8, <1>9
  <2>2. place(i) = place(j)
    <3>1. /\ place(i) \in DOMAIN q /\ Completes(q[place(i)], s)
          /\ place(j) \in DOMAIN q /\ Completes(q[place(j)], s)
      BY <1>8, <1>9
    <3> HIDE DEF place
    <3> QED BY <1>9, <3>1 DEF Once
  <2> QED BY <1>1, <2>1, <2>2
<1>10. (Never(q, s) => Never(r, s)) /\ (Once(q, s) => Once(r, s))
  <2> HIDE DEF place
  <2> QED BY <1>8, <1>9 DEF Once, Never
<1> QED BY <1>6, <1>10 DEF r, c, before, copies, after

LEMMA AppendedIs ==
  ASSUME NEW S, NEW q \in Seq(S), NEW e \in Seq(S), NEW s, Never(q, s) \/ Never(e, s)
  PROVE  LET r == q \o e IN
         /\ r \in Seq(S)
         /\ Never(q, s) /\ Never(e, s) => Never(r, s)
         /\ Once(q, s) /\ Once(e, s) => Once(r, s)
<1> DEFINE r == q \o e
<1>1. /\ r \in Seq(S) /\ Len(q) \in Nat /\ Len(e) \in Nat /\ Len(r) = Len(q) + Len(e)
      /\ \A i \in 1 .. Len(q) + Len(e) : r[i] = IF i <= Len(q) THEN q[i] ELSE e[i - Len(q)]
  BY ConcatProperties, LenProperties
<1>2. DOMAIN r = 1 .. Len(q) + Len(e) /\ DOMAIN q = 1 .. Len(q) /\ DOMAIN e = 1 .. Len(e)
  BY <1>1, LenProperties
<1> HIDE DEF r
<1>3. ASSUME Never(q, s), Never(e, s), NEW x \in DOMAIN r PROVE ~Completes(r[x], s)
  <2>1. IF x <= Len(q) THEN x \in DOMAIN q /\ r[x] = q[x]
                       ELSE x - Len(q) \in DOMAIN e /\ r[x] = e[x - Len(q)]
    BY <1>1, <1>2, <1>3
  <2> QED BY <1>3, <2>1 DEF Never
<1>4. ASSUME Once(q, s), Once(e, s), NEW i \in DOMAIN r, NEW j \in DOMAIN r,
             Completes(r[i], s), Completes(r[j], s)
      PROVE  i = j
  <2>1. \A x \in {i, j} : /\ x \in 1 .. Len(q) + Len(e)
                          /\ x <= Len(q) => x \in DOMAIN q /\ Completes(q[x], s)
                          /\ ~(x <= Len(q)) => x - Len(q) \in DOMAIN e /\ Completes(e[x - Len(q)], s)
    BY <1>1, <1>2, <1>4
  <2>2. (i <= Len(q) /\ j <= Len(q)) \/ (~(i <= Len(q)) /\ ~(j <= Len(q)))
    BY <2>1 DEF Never
  <2>3. CASE i <= Len(q) /\ j <= Len(q)
    BY <1>4, <2>1, <2>3 DEF Once
  <2>4. CASE ~(i <= Len(q)) /\ ~(j <= Len(q))
    <3>1. i - Len(q) = j - Len(q)
      BY <1>4, <2>1, <2>4 DEF Once
    <3> QED BY <1>1, <2>1, <3>1
  <2> QED BY <2>2, <2>3, <2>4
<1>5. Once(q, s) /\ Once(e, s) => Once(r, s)
  BY <1>4 DEF Once
<1>6. Never(q, s) /\ Never(e, s) => Never(r, s)
  BY <1>3 DEF Never
<1> QED BY <1>1, <1>5, <1>6 DEF r

LEMMA TailIs ==
  ASSUME NEW S, NEW q \in Seq(S), q # <<>>, NEW s
  PROVE  /\ Head(q) \in S /\ Tail(q) \in Seq(S)
         /\ Never(q, s) => Never(Tail(q), s) /\ ~Completes(Head(q), s)
         /\ Once(q, s) => Once(Tail(q), s) /\ (Completes(Head(q), s) => Never(Tail(q), s))
<1>1. /\ Head(q) = q[1] /\ Head(q) \in S /\ Tail(q) \in Seq(S) /\ Len(Tail(q)) = Len(q) - 1
      /\ Len(q) \in Nat \ {0} /\ \A i \in 1 .. Len(q) - 1 : Tail(q)[i] = q[i + 1]
  BY HeadTailProperties, LenProperties, EmptySeq
<1>2. DOMAIN q = 1 .. Len(q) /\ DOMAIN Tail(q) = 1 .. Len(q) - 1
  BY <1>1, LenProperties
<1> DEFINE r == Tail(q)
<1>3. \A i \in DOMAIN r : i + 1 \in DOMAIN q /\ r[i] = q[i + 1] /\ i \in Nat \ {0}
  BY <1>1, <1>2
<1>4. 1 \in DOMAIN q /\ Head(q) = q[1]
  BY <1>1, <1>2
<1> HIDE DEF r
<1>5. Never(q, s) => Never(r, s) /\ ~Completes(Head(q), s)
  BY <1>3, <1>4 DEF Never
<1>6. ASSUME Once(q, s) PROVE Once(r, s) /\ (Completes(Head(q), s) => Never(r, s))
  <2>1. ASSUME NEW i \in DOMAIN r, NEW j \in DOMAIN r, Completes(r[i], s), Completes(r[j], s)
        PROVE  i = j
    <3>1. i + 1 = j + 1
      BY <1>3, <1>6, <2>1 DEF Once
    <3> QED BY <1>3, <3>1
  <2>2. ASSUME Completes(Head(q), s), NEW i \in DOMAIN r, Completes(r[i], s) PROVE FALSE
    <3>1. 1 = i + 1
      BY <1>3, <1>4, <1>6, <2>2 DEF Once
    <3> QED BY <1>3, <3>1
  <2> QED BY <2>1, <2>2 DEF Once, Never
<1> QED BY <1>1, <1>5, <1>6 DEF r

-------------------------------------------------------------------------------
(***************************************************************************)
(* What holds whenever nobody is at work.                                  *)
(***************************************************************************)
Calls == [start : Nat, finish : Nat, cancel : Nat]
Awaited == {"start", "finish", "cancel"}

\* Only promises that were made are awaited.
CallsOk(calls, sheets) ==
  /\ calls \in [Sessions -> Calls]
  /\ \A s \in Sessions :
       /\ calls[s].start > 0 => sheets[s].start # "none"
       /\ calls[s].finish > 0 => sheets[s].finish # "none"
       /\ calls[s].cancel > 0 => sheets[s].cancel # "none"

Connections ==
  [ link : {"up", "down"}, initialized : BOOLEAN, closed : BOOLEAN, closing : BOOLEAN,
    awaited : Sessions \cup {None}, disposed : BOOLEAN, calls : [Sessions -> Calls] ]

\* While a connection is closing, there is no other session than the one that
\* dispose() awaits, and afterwards none at all.
RpcOk(r, active, sheets) ==
  /\ r \in Connections
  /\ CallsOk(r.calls, sheets)
  /\ r.closing /\ ~r.disposed => r.awaited \in Sessions /\ active \in {None, r.awaited}
  /\ r.disposed => active = None

\* The sessions of which no completion can be on its way.
Ahead == { s \in Sessions : live = s \/ svc[s].start = "none" \/ commits[s] # <<>> }

RepliesOk(q, T, P, A) ==
  /\ q \in Seq(Told(T, P))
  /\ \A s \in Sessions : Once(q, s) /\ (s \in A => Never(q, s))

CommitsOk ==
  /\ DOMAIN commits = Sessions
  /\ \A s \in Sessions : commits[s] # <<>> => live # s /\ svc[s].start # "none"

DaemonOk ==
  /\ ServiceOk
  /\ RpcOk(rpc, live, svc)
  /\ requests \in Seq(Asked(Transcribed, Polished))
  /\ RepliesOk(replies, Transcribed, Polished, Ahead)
  /\ CommitsOk

AddonIdle ==
  /\ focus \in Keyboard
  /\ AddonOk(im, focus, Transcribed, Polished)
  /\ im.sent = <<>>

VoiceInv == DaemonOk /\ AddonIdle

-------------------------------------------------------------------------------
\* What every step of the daemon does to what it knows of its sessions.
Grown ==
  /\ ServiceOk'
  /\ Transcribed \subseteq Transcribed' /\ Polished \subseteq Polished'
  /\ \A s \in Sessions :
       /\ Onward(svc[s], svc'[s])
       /\ svc'[s].start = "none" => svc[s].start = "none"
       /\ live' = s => live = s \/ svc[s].start = "none"

LEMMA MovedGrows ==
  ASSUME ServiceOk, NEW s \in Sessions, Moved(s)
  PROVE  Grown
<1>1. /\ ServiceOk' /\ Transcribed \subseteq Transcribed' /\ Polished \subseteq Polished'
  BY MovedKeeps
<1>2. ASSUME NEW t \in Sessions
      PROVE  /\ Onward(svc[t], svc'[t])
             /\ svc'[t].start = "none" => svc[t].start = "none"
             /\ live' = t => live = t \/ svc[t].start = "none"
  <2>1. CASE t = s
    BY <2>1 DEF Moved
  <2>2. CASE t # s
    <3>1. svc'[t] = svc[t]
      BY <2>2 DEF Moved, ServiceOk
    <3>2. live' = t => live = t
      BY <2>2, NoneIsNobody DEF Moved
    <3> QED BY <3>1, <3>2 DEF Onward
  <2> QED BY <2>1, <2>2
<1> QED BY <1>1, <1>2 DEF Grown

LEMMA StillGrows ==
  ASSUME ServiceOk, UNCHANGED <<live, svc>>, gate' \in {"none", "self", "other"}
  PROVE  Grown /\ Transcribed' = Transcribed /\ Polished' = Polished
<1>1. Transcribed' = Transcribed /\ Polished' = Polished
  BY DEF Transcribed, Polished
<1>2. ServiceOk'
  BY DEF ServiceOk
<1> QED BY <1>1, <1>2 DEF Grown, Onward

LEMMA GrownKeeps ==
  ASSUME DaemonOk, Grown, UNCHANGED commits
  PROVE  /\ CommitsOk' /\ Ahead' \subseteq Ahead
         /\ CallsOk(rpc.calls, svc')
         /\ requests \in Seq(Asked(Transcribed', Polished'))
         /\ Told(Transcribed, Polished) \subseteq Told(Transcribed', Polished')
<1>1. CommitsOk' /\ Ahead' \subseteq Ahead
  BY DEF DaemonOk, Grown, CommitsOk, Ahead
<1>2. CallsOk(rpc.calls, svc')
  BY DEF DaemonOk, RpcOk, CallsOk, Grown, Onward
<1>3. /\ Asked(Transcribed, Polished) \subseteq Asked(Transcribed', Polished')
      /\ Told(Transcribed, Polished) \subseteq Told(Transcribed', Polished')
  BY KnowledgeGrows DEF Grown
<1>4. requests \in Seq(Asked(Transcribed, Polished))
  BY DEF DaemonOk
<1> HIDE DEF Asked
<1> QED BY <1>1, <1>2, <1>3, <1>4

LEMMA RepliesGrow ==
  ASSUME NEW q, NEW T, NEW P, NEW A, RepliesOk(q, T, P, A),
         NEW U, NEW Q, NEW B, Told(T, P) \subseteq Told(U, Q), B \subseteq A
  PROVE  RepliesOk(q, U, Q, B)
<1>1. q \in Seq(Told(U, Q))
  <2>1. q \in Seq(Told(T, P))
    BY DEF RepliesOk
  <2> HIDE DEF Told
  <2> QED BY <2>1
<1> QED BY <1>1 DEF RepliesOk

LEMMA WriteKeeps ==
  ASSUME NEW q, NEW T, NEW P, NEW A, RepliesOk(q, T, P, A),
         NEW a \in Told(T, P), a.method # "completed", NEW n \in Nat, Daemon!WriteAll(q, a, n)
  PROVE  RepliesOk(replies', T, P, A)
<1>1. CASE replies' = q
  BY <1>1
<1>2. CASE replies' # q
  <2>1. PICK k \in 0 .. Len(q) :
          replies' = SubSeq(q, 1, k) \o [i \in 1 .. n |-> a] \o SubSeq(q, k + 1, Len(q))
    BY <1>2 DEF Daemon!WriteAll, Daemon!Answering
  <2>2. q \in Seq(Told(T, P))
    BY DEF RepliesOk
  <2>3. /\ replies' \in Seq(Told(T, P))
        /\ \A s : (Never(q, s) => Never(replies', s)) /\ (Once(q, s) => Once(replies', s))
    <3> HIDE DEF Told, Never, Once
    <3> QED BY <2>1, <2>2, InsertedIs
  <2> QED BY <2>3 DEF RepliesOk
<1> QED BY <1>1, <1>2

LEMMA PublishKeeps ==
  ASSUME DaemonOk, NEW s \in Sessions, Moved(s), Published(s), UNCHANGED commits
  PROVE  RepliesOk(Daemon!Publish(replies), Transcribed', Polished', Ahead')
<1> DEFINE S == Told(Transcribed', Polished')
<1>1. Grown /\ CommitsOk' /\ Ahead' \subseteq Ahead
  BY MovedGrows, GrownKeeps DEF DaemonOk
<1>2. RepliesOk(replies, Transcribed', Polished', Ahead')
  BY <1>1, GrownKeeps, RepliesGrow DEF DaemonOk
<1>3. replies \in Seq(S) /\ out' \in Seq(S)
  <2>1. Said(s, svc'[s], live' = s) \subseteq S /\ out' \in Seq(Said(s, svc'[s], live' = s))
    BY MovedKeeps DEF DaemonOk, Published
  <2>2. replies \in Seq(S)
    BY <1>2 DEF RepliesOk
  <2> HIDE DEF S, Said
  <2> QED BY <2>1, <2>2
<1>4. \A i \in DOMAIN out' : out'[i].session = s
  <2>1. out' \in Seq(Said(s, svc'[s], live' = s))
    BY DEF Published
  <2>2. \A i \in DOMAIN out' : out'[i] \in Said(s, svc'[s], live' = s)
    <3> HIDE DEF Said
    <3> QED BY <2>1, ElementOfSeq, LenProperties
  <2> QED BY <2>2 DEF Said
<1>5. ASSUME NEW t \in Sessions
      PROVE  LET r == replies \o out' IN
             r \in Seq(S) /\ Once(r, t) /\ (t \in Ahead' => Never(r, t))
  <2> HIDE DEF S
  <2>1. Once(replies, t) /\ (t \in Ahead' => Never(replies, t)) /\ Once(out', t)
    BY <1>2 DEF RepliesOk, Published, Once, Completes
  <2>2. CASE Never(out', t)
    BY <1>3, <2>1, <2>2, AppendedIs
  <2>3. CASE ~Never(out', t)
    <3>1. t = s /\ live = s /\ live' # s
      BY <1>4, <2>3 DEF Never, Completes, Published
    <3>2. s \in Ahead /\ Never(replies, t)
      BY <3>1 DEF Ahead, DaemonOk, RepliesOk
    <3>3. t \notin Ahead'
      BY <1>1, <3>1 DEF Ahead, DaemonOk, CommitsOk, Moved
    <3> QED BY <1>3, <2>1, <3>2, <3>3, AppendedIs
  <2> QED BY <2>2, <2>3
<1>6. RepliesOk(replies \o out', Transcribed', Polished', Ahead')
  <2>1. replies \o out' \in Seq(S)
    <3> HIDE DEF S
    <3> QED BY <1>3, ConcatProperties
  <2> QED BY <1>5, <2>1 DEF RepliesOk
<1> QED BY <1>2, <1>6 DEF Daemon!Publish

-------------------------------------------------------------------------------
(***************************************************************************)
(* The handlers of the daemon.                                             *)
(***************************************************************************)
LEMMA CallsChange ==
  ASSUME NEW calls, NEW sheets, CallsOk(calls, sheets), NEW s \in Sessions,
         NEW method \in Awaited, NEW n \in Nat,
         n > 0 => \/ method = "start" /\ sheets[s].start # "none"
                  \/ method = "finish" /\ sheets[s].finish # "none"
                  \/ method = "cancel" /\ sheets[s].cancel # "none"
  PROVE  CallsOk([calls EXCEPT ![s][method] = n], sheets)
<1> DEFINE c == [calls[s] EXCEPT ![method] = n]
           d == [calls EXCEPT ![s] = c]
<1>1. calls[s] \in Calls
  BY DEF CallsOk
<1>2. /\ c \in Calls
      /\ c.start > 0 => calls[s].start > 0 \/ (method = "start" /\ n > 0)
      /\ c.finish > 0 => calls[s].finish > 0 \/ (method = "finish" /\ n > 0)
      /\ c.cancel > 0 => calls[s].cancel > 0 \/ (method = "cancel" /\ n > 0)
  <2>1. CASE method = "start"
    BY <1>1, <2>1 DEF Calls
  <2>2. CASE method = "finish"
    BY <1>1, <2>2 DEF Calls
  <2>3. CASE method = "cancel"
    BY <1>1, <2>3 DEF Calls
  <2> QED BY <2>1, <2>2, <2>3 DEF Awaited
<1>3. [calls EXCEPT ![s][method] = n] = d
  OBVIOUS
<1> HIDE DEF c
<1>4. d \in [Sessions -> Calls] /\ d[s] = c /\ \A t \in Sessions \ {s} : d[t] = calls[t]
  BY <1>2 DEF CallsOk
<1> HIDE DEF d
<1>5. CallsOk(d, sheets)
  <2>1. ASSUME NEW t \in Sessions
        PROVE  /\ d[t].start > 0 => sheets[t].start # "none"
               /\ d[t].finish > 0 => sheets[t].finish # "none"
               /\ d[t].cancel > 0 => sheets[t].cancel # "none"
    BY <1>2, <1>4 DEF CallsOk
  <2> QED BY <1>4, <2>1 DEF CallsOk
<1> QED BY <1>3, <1>5

LEMMA RpcCalls ==
  ASSUME NEW r, NEW active, NEW sheets, RpcOk(r, active, sheets), NEW calls,
         NEW is, NEW papers, CallsOk(calls, papers),
         is \in {active, None} \/ (~r.disposed /\ ~r.closing)
  PROVE  RpcOk([r EXCEPT !.calls = calls], is, papers)
<1> DEFINE n == [r EXCEPT !.calls = calls]
<1>1. /\ n \in Connections
      /\ n.calls = calls /\ n.closing = r.closing /\ n.disposed = r.disposed
      /\ n.awaited = r.awaited
  BY DEF RpcOk, Connections, CallsOk
<1> HIDE DEF n
<1>2. RpcOk(n, is, papers)
  BY <1>1 DEF RpcOk, Connections
<1> QED BY <1>2 DEF n

LEMMA DaemonKept ==
  ASSUME DaemonOk, Grown, UNCHANGED commits, RpcOk(rpc', live', svc'),
         RepliesOk(replies', Transcribed', Polished', Ahead'),
         requests' \in Seq(Asked(Transcribed, Polished))
  PROVE  DaemonOk'
<1>1. CommitsOk'
  BY GrownKeeps
<1>2. Asked(Transcribed, Polished) \subseteq Asked(Transcribed', Polished')
  BY KnowledgeGrows DEF Grown
<1>3. requests' \in Seq(Asked(Transcribed', Polished'))
  <2> HIDE DEF Asked
  <2> QED BY <1>2
<1> QED BY <1>1, <1>3 DEF DaemonOk, Grown

\* The request that is taken off the socket.
LEMMA DispatchedIs ==
  ASSUME DaemonOk, NEW method, Daemon!Dispatched(method)
  PROVE  /\ Head(requests) \in Asked(Transcribed, Polished)
         /\ requests' \in Seq(Asked(Transcribed, Polished))
         /\ ~rpc.disposed /\ (rpc.closing => live = rpc.awaited /\ live \in Sessions)
         /\ Head(requests).method = method
<1>1. requests # <<>> /\ requests' = Tail(requests) /\ Head(requests).method = method
      /\ ~rpc.disposed /\ (rpc.closing => live = rpc.awaited)
  BY DEF Daemon!Dispatched
<1>2. requests \in Seq(Asked(Transcribed, Polished))
  BY DEF DaemonOk
<1>3. /\ Head(requests) \in Asked(Transcribed, Polished)
      /\ requests' \in Seq(Asked(Transcribed, Polished))
  <2> HIDE DEF Asked
  <2> QED BY <1>1, <1>2, HeadTailProperties
<1> QED BY <1>1, <1>3 DEF DaemonOk, RpcOk

LEMMA AnswerIsTold ==
  ASSUME NEW T, NEW P, NEW r \in Asked(T, P), NEW value \in {"ok", "error"},
         r.method = "start" => value = "error"
  PROVE  /\ Daemon!Answer(r, value) \in Told(T, P)
         /\ Daemon!Answer(r, value).method # "completed"
<1>1. r.session \in Sessions \cup {None} /\ r.method \in Methods
  BY DEF Asked
<1> QED BY <1>1 DEF Daemon!Answer, Daemon!Message, Daemon!Service!Event, Told, Words, Texts, Methods, Daemon!Events

\* A request is answered at once, and nothing else happens.
LEMMA AnswersQuietly ==
  ASSUME DaemonOk, UNCHANGED commits, Daemon!Service!Quiet,
         NEW method, Daemon!Dispatched(method), NEW value \in {"ok", "error"},
         method = "start" => value = "error",
         Daemon!Write(replies, Daemon!Answer(Head(requests), value)),
         RpcOk(rpc', live, svc)
  PROVE  DaemonOk' /\ Grown
<1>1. UNCHANGED <<live, gate, svc>>
  BY DEF Daemon!Service!Quiet, Daemon!Service!book
<1>2. Grown /\ Transcribed' = Transcribed /\ Polished' = Polished
  BY <1>1, StillGrows DEF DaemonOk, ServiceOk
<1>3. Ahead' = Ahead
  BY <1>1 DEF Ahead
<1>4. RepliesOk(replies', Transcribed, Polished, Ahead)
  <2>1. /\ Daemon!Answer(Head(requests), value) \in Told(Transcribed, Polished)
        /\ Daemon!Answer(Head(requests), value).method # "completed"
    BY DispatchedIs, AnswerIsTold
  <2>2. RepliesOk(replies, Transcribed, Polished, Ahead)
    BY DEF DaemonOk
  <2> QED BY <2>1, <2>2, WriteKeeps DEF Daemon!Write
<1>5. RpcOk(rpc', live', svc')
  BY <1>1
<1> QED BY <1>2, <1>3, <1>4, <1>5, DispatchedIs, DaemonKept

LEMMA InitializeKeeps ==
  ASSUME DaemonOk, UNCHANGED commits, Daemon!Initialize
  PROVE  DaemonOk' /\ Grown
<1>1. PICK value \in {"ok", "error"} :
        /\ Daemon!Write(replies, Daemon!Answer(Head(requests), value))
        /\ rpc' = rpc \/ rpc' = [rpc EXCEPT !.initialized = TRUE]
  BY DEF Daemon!Initialize
<1>2. RpcOk(rpc, live, svc)
  BY DEF DaemonOk
<1>3. RpcOk(rpc', live, svc)
  <2>1. CASE rpc' = rpc
    BY <1>2, <2>1
  <2>2. CASE rpc' = [rpc EXCEPT !.initialized = TRUE]
    <3> DEFINE n == [rpc EXCEPT !.initialized = TRUE]
    <3>1. /\ n \in Connections
          /\ n.calls = rpc.calls /\ n.closing = rpc.closing /\ n.disposed = rpc.disposed
          /\ n.awaited = rpc.awaited
      BY <1>2 DEF RpcOk, Connections
    <3>2. rpc' = n
      BY <2>2
    <3> HIDE DEF n
    <3> QED BY <1>2, <3>1, <3>2 DEF RpcOk, Connections
  <2> QED BY <1>1, <2>1, <2>2
<1> QED BY <1>1, <1>3, AnswersQuietly DEF Daemon!Initialize

LEMMA RefusalsKeep ==
  ASSUME DaemonOk, UNCHANGED commits,
         Daemon!NotInitialized \/ Daemon!StartRefused \/ Daemon!NotActive
  PROVE  DaemonOk' /\ Grown
<1>1. PICK method \in Methods, value \in {"ok", "error"} :
        /\ Daemon!Dispatched(method) /\ Daemon!Service!Quiet
        /\ Daemon!Write(replies, Daemon!Answer(Head(requests), value)) /\ rpc' = rpc
        /\ method = "start" => value = "error"
  <2>1. CASE Daemon!NotInitialized
    BY <2>1 DEF Daemon!NotInitialized, Daemon!Refuse, Methods
  <2>2. CASE Daemon!StartRefused
    BY <2>2 DEF Daemon!StartRefused, Daemon!Refuse, Methods
  <2>3. CASE Daemon!NotActive
    BY <2>3 DEF Daemon!NotActive, Daemon!Refuse, Daemon!Accept, Methods
  <2> QED BY <2>1, <2>2, <2>3
<1>2. RpcOk(rpc', live, svc)
  BY <1>1 DEF DaemonOk
<1> QED BY <1>1, <1>2, AnswersQuietly

LEMMA RpcStays ==
  ASSUME NEW r, NEW active, NEW sheets, RpcOk(r, active, sheets),
         NEW is, NEW papers, CallsOk(r.calls, papers),
         is \in {active, None} \/ (~r.disposed /\ ~r.closing)
  PROVE  RpcOk(r, is, papers)
BY DEF RpcOk, Connections

\* Only a start makes a session the active one.
LEMMA NobodyElseStarts ==
  ASSUME NEW s,
         \/ Daemon!Service!Progress(s) \/ Daemon!Service!PolishDelta(s)
         \/ Daemon!Service!Fail(s) \/ Daemon!Service!Promise(s)
         \/ Daemon!Service!Finish(s) \/ Daemon!Service!Cancel(s) \/ Daemon!Service!Toggle(s)
         \/ \E choice : Daemon!Service!Select(s, choice)
  PROVE  live' \in {live, None}
BY DEF Daemon!Service!Progress, Daemon!Service!Promise, Daemon!Service!PolishDelta,
       Daemon!Service!Fail, Daemon!Service!Finish, Daemon!Service!Cancel, Daemon!Service!Toggle,
       Daemon!Service!Select, Daemon!Service!Record, Daemon!Service!Recognize,
       Daemon!Service!Process, Daemon!Service!Deliver, Daemon!Service!PolishEnds,
       Daemon!Service!FailSettles, Daemon!Service!StartSettles, Daemon!Service!FinishSettles,
       Daemon!Service!CancelSettles, Daemon!Service!Becomes, Daemon!Service!Settle,
       Daemon!Service!book

\* A handler has called the coordinator, and waits.
LEMMA AwaitKeeps ==
  ASSUME DaemonOk, UNCHANGED commits, NEW s \in Sessions, Moved(s), Published(s),
         NEW method \in Awaited, Daemon!Await(s, method),
         \/ method = "start" /\ svc'[s].start # "none"
         \/ method = "finish" /\ svc'[s].finish # "none"
         \/ method = "cancel" /\ svc'[s].cancel # "none",
         live' \in {live, None} \/ (~rpc.disposed /\ ~rpc.closing),
         requests' \in Seq(Asked(Transcribed, Polished))
  PROVE  DaemonOk' /\ Grown
<1> DEFINE calls == [rpc.calls EXCEPT ![s][method] = @ + 1]
<1>1. rpc' = [rpc EXCEPT !.calls[s][method] = @ + 1] /\ replies' = Daemon!Publish(replies)
  BY DEF Daemon!Await
<1>2. rpc' = [rpc EXCEPT !.calls = calls]
  BY <1>1
<1>3. Grown /\ CallsOk(rpc.calls, svc')
  BY MovedGrows, GrownKeeps DEF DaemonOk
<1>4. rpc.calls[s][method] + 1 \in Nat
  <2>1. rpc.calls[s] \in Calls
    BY <1>3 DEF CallsOk
  <2> QED BY <2>1 DEF Calls, Awaited
<1>5. CallsOk(calls, svc')
  <2> DEFINE n == rpc.calls[s][method] + 1
  <2>1. calls = [rpc.calls EXCEPT ![s][method] = n]
    OBVIOUS
  <2>2. n \in Nat
    BY <1>4
  <2> HIDE DEF n, calls
  <2> QED BY <1>3, <2>1, <2>2, CallsChange
<1> HIDE DEF calls
<1>6. RpcOk(rpc', live', svc')
  BY <1>2, <1>5, RpcCalls DEF DaemonOk
<1>7. RepliesOk(replies', Transcribed', Polished', Ahead')
  BY <1>1, PublishKeeps
<1> QED BY <1>3, <1>6, <1>7, DaemonKept

\* A request is answered in the step that serves it.
LEMMA AnswersAfter ==
  ASSUME DaemonOk, Grown, UNCHANGED commits,
         NEW q, RepliesOk(q, Transcribed', Polished', Ahead'),
         NEW method, Daemon!Dispatched(method), NEW value \in {"ok", "error"}, method # "start",
         Daemon!Write(q, Daemon!Answer(Head(requests), value)),
         UNCHANGED rpc, live' \in {live, None}
  PROVE  DaemonOk'
<1>1. CallsOk(rpc.calls, svc') /\ Told(Transcribed, Polished) \subseteq Told(Transcribed', Polished')
  BY GrownKeeps
<1>2. RpcOk(rpc', live', svc')
  BY <1>1, RpcStays DEF DaemonOk
<1>3. /\ Daemon!Answer(Head(requests), value) \in Told(Transcribed', Polished')
      /\ Daemon!Answer(Head(requests), value).method # "completed"
  BY <1>1, DispatchedIs, AnswerIsTold
<1>4. RepliesOk(replies', Transcribed', Polished', Ahead')
  <2> HIDE DEF Told
  <2> QED BY <1>3, WriteKeeps DEF Daemon!Write
<1> QED BY <1>2, <1>4, DispatchedIs, DaemonKept

LEMMA NextIdIs ==
  ASSUME Daemon!NextId # None
  PROVE  Daemon!NextId \in Sessions
<1> DEFINE Unused == { s \in Sessions : svc[s].start = "none" }
           Less == { p \in Nat \X Nat : p[1] < p[2] }
<1>1. Unused # {} /\ Unused \subseteq Nat
  BY SessionsAreNumbered DEF Daemon!NextId
<1>2. IsWellFoundedOn(Less, Nat)
  <2>1. Less = OpToRel(<, Nat)
    BY DEF OpToRel
  <2> QED BY <2>1, NatLessThanWellFounded
<1>3. \E s \in Unused : \A t \in Unused : <<t, s>> \notin Less
  <2> HIDE DEF Unused, Less
  <2> QED BY <1>1, <1>2, WFMin
<1>4. \E s \in Sessions : /\ svc[s].start = "none"
                          /\ \A t \in Sessions : svc[t].start = "none" => s <= t
  <2>1. PICK s \in Unused : \A t \in Unused : <<t, s>> \notin Less
    BY <1>3
  <2>2. ASSUME NEW t \in Sessions, svc[t].start = "none" PROVE s <= t
    <3>1. t \in Unused /\ s \in Nat /\ t \in Nat
      BY <1>1, <2>2
    <3>2. ~(t < s)
      BY <2>1, <3>1
    <3> QED BY <3>1, <3>2
  <2> QED BY <2>1, <2>2
<1> QED BY <1>4 DEF Daemon!NextId

LEMMA StartKeeps ==
  ASSUME DaemonOk, UNCHANGED commits, Daemon!Start
  PROVE  DaemonOk' /\ Grown
<1> DEFINE s == Daemon!NextId
<1>1. /\ Daemon!Dispatched("start") /\ Daemon!Service!Open(s) /\ Daemon!Await(s, "start")
      /\ s \in Sessions
  BY NextIdIs DEF Daemon!Start
<1> HIDE DEF s
<1>2. Moved(s) /\ Published(s) /\ svc'[s].start = "pending"
  BY <1>1, OpenMoves DEF DaemonOk
<1>3. ~rpc.disposed /\ ~rpc.closing /\ requests' \in Seq(Asked(Transcribed, Polished))
  BY <1>1, DispatchedIs, NoneIsNobody DEF Daemon!Service!Open
<1> QED BY <1>1, <1>2, <1>3, AwaitKeeps DEF Awaited

\* The session a request names.
LEMMA SessionAsked ==
  ASSUME DaemonOk, NEW method, Daemon!Dispatched(method), method \notin {"initialize", "start"}
  PROVE  Head(requests).session \in Sessions
<1>1. Head(requests) \in Asked(Transcribed, Polished) /\ Head(requests).method = method
  BY DispatchedIs
<1> QED BY <1>1 DEF Asked

LEMMA QuietGrows ==
  ASSUME DaemonOk, UNCHANGED commits, Daemon!Service!Quiet
  PROVE  /\ Grown /\ UNCHANGED <<live, gate, svc>> /\ Ahead' = Ahead
         /\ Transcribed' = Transcribed /\ Polished' = Polished
<1>1. UNCHANGED <<live, gate, svc>>
  BY DEF Daemon!Service!Quiet, Daemon!Service!book
<1>2. gate' \in {"none", "self", "other"}
  BY <1>1 DEF DaemonOk, ServiceOk
<1> QED BY <1>1, <1>2, StillGrows DEF DaemonOk, Ahead

\* One more call of a promise that is there already.
LEMMA AwaitsQuietly ==
  ASSUME DaemonOk, UNCHANGED commits, NEW s \in Sessions, Daemon!Service!Quiet,
         NEW method \in Awaited, Daemon!Await(s, method),
         \/ method = "finish" /\ svc[s].finish # "none"
         \/ method = "cancel" /\ svc[s].cancel # "none",
         requests' \in Seq(Asked(Transcribed, Polished))
  PROVE  DaemonOk' /\ Grown
<1>1. /\ Grown /\ UNCHANGED <<live, gate, svc>> /\ Ahead' = Ahead /\ out' = <<>>
      /\ Transcribed' = Transcribed /\ Polished' = Polished
  BY QuietGrows DEF Daemon!Service!Quiet
<1>2. rpc' = [rpc EXCEPT !.calls[s][method] = @ + 1] /\ replies' = Daemon!Publish(replies)
  BY DEF Daemon!Await
<1> DEFINE n == rpc.calls[s][method] + 1
           calls == [rpc.calls EXCEPT ![s][method] = n]
<1>3. RpcOk(rpc, live, svc) /\ CallsOk(rpc.calls, svc)
  BY DEF DaemonOk, RpcOk
<1>4. n \in Nat
  <2>1. rpc.calls[s] \in Calls
    BY <1>3 DEF CallsOk
  <2> QED BY <2>1 DEF Calls, Awaited
<1>5. rpc' = [rpc EXCEPT !.calls = calls]
  BY <1>2
<1> HIDE DEF n
<1>6. CallsOk(calls, svc)
  BY <1>3, <1>4, CallsChange
<1> HIDE DEF calls
<1>7. RpcOk(rpc', live', svc')
  BY <1>1, <1>3, <1>5, <1>6, RpcCalls
<1>8. RepliesOk(replies', Transcribed, Polished, Ahead)
  <2>1. RepliesOk(replies, Transcribed, Polished, Ahead)
    BY DEF DaemonOk
  <2>2. replies \in Seq(Told(Transcribed, Polished))
    BY <2>1 DEF RepliesOk
  <2>3. replies \o <<>> = replies
    <3> HIDE DEF Told
    <3> QED BY <2>2, ConcatEmptySeq
  <2>4. replies' = replies
    BY <1>1, <1>2, <2>3 DEF Daemon!Publish
  <2> QED BY <2>1, <2>4
<1> QED BY <1>1, <1>7, <1>8, DaemonKept

LEMMA CancelKeeps ==
  ASSUME DaemonOk, UNCHANGED commits, Daemon!Cancel
  PROVE  DaemonOk' /\ Grown
<1> DEFINE s == Head(requests).session
<1>1. /\ Daemon!Dispatched("cancel") /\ Daemon!Await(s, "cancel")
      /\ IF svc[s].cancel = "none" THEN Daemon!Service!Cancel(s) ELSE Daemon!Service!Quiet
  BY DEF Daemon!Cancel
<1>2. s \in Sessions /\ requests' \in Seq(Asked(Transcribed, Polished))
  BY <1>1, SessionAsked, DispatchedIs
<1> HIDE DEF s
<1>3. CASE svc[s].cancel = "none"
  <2>1. Moved(s) /\ Published(s) /\ svc'[s].cancel = "pending"
    BY <1>1, <1>2, <1>3, CancelMoves DEF DaemonOk
  <2>2. live' \in {live, None}
    BY <1>1, <1>3, NobodyElseStarts
  <2> QED BY <1>1, <1>2, <2>1, <2>2, AwaitKeeps DEF Awaited
<1>4. CASE svc[s].cancel # "none"
  BY <1>1, <1>2, <1>4, AwaitsQuietly DEF Awaited
<1> QED BY <1>3, <1>4

LEMMA VerdictIs ==
  ASSUME NEW r \in Sheet
  PROVE  /\ r.start # "none" => Daemon!Verdict("start", r) \in {"none", "ok", "error"}
         /\ r.finish # "none" => Daemon!Verdict("finish", r) \in {"none", "ok", "error"}
         /\ r.finish \in {"resolved", "rejected"} => Daemon!Verdict("finish", r) \in {"ok", "error"}
         /\ r.cancel # "none" => Daemon!Verdict("cancel", r) \in {"none", "ok", "error"}
BY DEF Daemon!Verdict, Sheet

LEMMA FinishKeeps ==
  ASSUME DaemonOk, UNCHANGED commits, Daemon!Finish
  PROVE  DaemonOk' /\ Grown
<1> DEFINE s == Head(requests).session
           value == Daemon!Verdict("finish", svc'[s])
<1>1. /\ Daemon!Dispatched("finish")
      /\ IF svc[s].finish = "none" THEN Daemon!Service!Finish(s) ELSE Daemon!Service!Quiet
      /\ IF svc'[s].finish = "pending" THEN Daemon!Await(s, "finish")
         ELSE /\ Daemon!Write(replies, Daemon!Answer(Head(requests), value))
              /\ UNCHANGED rpc
  BY DEF Daemon!Finish
<1>2. s \in Sessions /\ requests' \in Seq(Asked(Transcribed, Polished))
  BY <1>1, SessionAsked, DispatchedIs
<1> HIDE DEF s, value
<1>3. /\ Grown /\ svc'[s].finish # "none" /\ live' \in {live, None}
      /\ svc[s].finish = "none" => Moved(s) /\ Published(s)
  <2>1. CASE svc[s].finish = "none"
    <3>1. Moved(s) /\ Published(s) /\ svc'[s].finish # "none"
      BY <1>1, <1>2, <2>1, FinishMoves DEF DaemonOk
    <3> QED BY <1>1, <1>2, <2>1, <3>1, MovedGrows, NobodyElseStarts DEF DaemonOk
  <2>2. CASE svc[s].finish # "none"
    BY <1>1, <2>2, QuietGrows
  <2> QED BY <2>1, <2>2
<1>4. CASE svc'[s].finish = "pending"
  <2>1. CASE svc[s].finish = "none"
    BY <1>1, <1>2, <1>3, <1>4, <2>1, AwaitKeeps DEF Awaited
  <2>2. CASE svc[s].finish # "none"
    BY <1>1, <1>2, <1>4, <2>2, AwaitsQuietly DEF Awaited
  <2> QED BY <2>1, <2>2
<1>5. CASE svc'[s].finish # "pending"
  <2>1. svc'[s] \in Sheet
    BY <1>2, <1>3 DEF Grown, ServiceOk, SheetOk
  <2>2. value \in {"ok", "error"}
    <3>1. svc'[s].finish \in {"resolved", "rejected"}
      BY <1>3, <1>5, <2>1 DEF Sheet
    <3> QED BY <2>1, <3>1, VerdictIs DEF value
  <2>3. RepliesOk(replies, Transcribed', Polished', Ahead')
    BY <1>3, GrownKeeps, RepliesGrow DEF DaemonOk
  <2>4. /\ Daemon!Write(replies, Daemon!Answer(Head(requests), value)) /\ UNCHANGED rpc
    BY <1>1, <1>5
  <2> QED BY <1>1, <1>3, <2>2, <2>3, <2>4, AnswersAfter
<1> QED BY <1>4, <1>5

LEMMA SelectResultKeeps ==
  ASSUME DaemonOk, UNCHANGED commits, Daemon!SelectResult
  PROVE  DaemonOk' /\ Grown
<1> DEFINE s == Head(requests).session
           choice == Head(requests).value
<1>1. /\ Daemon!Dispatched("select")
      /\ \/ /\ Daemon!Service!Select(s, choice)
            /\ Daemon!Write(Daemon!Publish(replies), Daemon!Answer(Head(requests), "ok"))
            /\ UNCHANGED rpc
         \/ Daemon!Refuse
  BY DEF Daemon!SelectResult
<1>2. s \in Sessions /\ choice \in Choices
  <2>1. Head(requests) \in Asked(Transcribed, Polished) /\ Head(requests).method = "select"
    BY <1>1, DispatchedIs
  <2> QED BY <2>1 DEF Asked
<1> HIDE DEF s, choice
<1>3. CASE Daemon!Refuse
  <2>1. /\ Daemon!Service!Quiet /\ rpc' = rpc
        /\ Daemon!Write(replies, Daemon!Answer(Head(requests), "error"))
    BY <1>3 DEF Daemon!Refuse
  <2>2. RpcOk(rpc', live, svc)
    BY <2>1 DEF DaemonOk
  <2> QED BY <1>1, <2>1, <2>2, AnswersQuietly
<1>4. CASE /\ Daemon!Service!Select(s, choice)
           /\ Daemon!Write(Daemon!Publish(replies), Daemon!Answer(Head(requests), "ok"))
           /\ UNCHANGED rpc
  <2>1. Moved(s) /\ Published(s)
    BY <1>2, <1>4, SelectMoves DEF DaemonOk
  <2>2. Grown /\ live' \in {live, None}
    BY <1>2, <1>4, <2>1, MovedGrows, NobodyElseStarts DEF DaemonOk
  <2>3. RepliesOk(Daemon!Publish(replies), Transcribed', Polished', Ahead')
    BY <1>2, <2>1, PublishKeeps
  <2> QED BY <1>1, <1>4, <2>2, <2>3, AnswersAfter
<1> QED BY <1>1, <1>3, <1>4

LEMMA SetPolishingEnabledKeeps ==
  ASSUME DaemonOk, UNCHANGED commits, Daemon!SetPolishingEnabled
  PROVE  DaemonOk' /\ Grown
<1> DEFINE s == Head(requests).session
<1>1. /\ Daemon!Dispatched("polish")
      /\ \/ /\ Daemon!Service!Toggle(s)
            /\ Daemon!Write(Daemon!Publish(replies), Daemon!Answer(Head(requests), "ok"))
            /\ UNCHANGED rpc
         \/ Daemon!Refuse
  BY DEF Daemon!SetPolishingEnabled
<1>2. s \in Sessions
  BY <1>1, SessionAsked
<1> HIDE DEF s
<1>3. CASE Daemon!Refuse
  <2>1. /\ Daemon!Service!Quiet /\ rpc' = rpc
        /\ Daemon!Write(replies, Daemon!Answer(Head(requests), "error"))
    BY <1>3 DEF Daemon!Refuse
  <2>2. RpcOk(rpc', live, svc)
    BY <2>1 DEF DaemonOk
  <2> QED BY <1>1, <2>1, <2>2, AnswersQuietly
<1>4. CASE /\ Daemon!Service!Toggle(s)
           /\ Daemon!Write(Daemon!Publish(replies), Daemon!Answer(Head(requests), "ok"))
           /\ UNCHANGED rpc
  <2>1. Moved(s) /\ Published(s)
    BY <1>2, <1>4, ToggleMoves DEF DaemonOk
  <2>2. Grown /\ live' \in {live, None}
    BY <1>2, <1>4, <2>1, MovedGrows, NobodyElseStarts DEF DaemonOk
  <2>3. RepliesOk(Daemon!Publish(replies), Transcribed', Polished', Ahead')
    BY <1>2, <2>1, PublishKeeps
  <2> QED BY <1>1, <1>4, <2>2, <2>3, AnswersAfter
<1> QED BY <1>1, <1>3, <1>4

-------------------------------------------------------------------------------
(***************************************************************************)
(* Events, and the end of a connection.                                    *)
(***************************************************************************)
LEMMA RespondKeeps ==
  ASSUME DaemonOk, UNCHANGED commits, NEW s \in Sessions, Moved(s), Published(s),
         live' \in {live, None}, Daemon!Respond(s)
  PROVE  DaemonOk' /\ Grown
<1>1. Grown /\ RepliesOk(Daemon!Publish(replies), Transcribed', Polished', Ahead')
  BY MovedGrows, PublishKeeps DEF DaemonOk
<1>2. CallsOk(rpc.calls, svc')
  BY <1>1, GrownKeeps
<1>3. requests' = requests /\ requests' \in Seq(Asked(Transcribed, Polished))
  BY DEF Daemon!Respond, DaemonOk
<1>4. CASE Daemon!Answered(s) = {}
  <2>1. replies' = Daemon!Publish(replies) /\ rpc' = rpc
    BY <1>4 DEF Daemon!Respond
  <2>2. RpcOk(rpc', live', svc')
    BY <1>2, <2>1, RpcStays DEF DaemonOk
  <2> QED BY <1>1, <1>3, <2>1, <2>2, DaemonKept
<1>5. CASE Daemon!Answered(s) # {}
  <2>1. PICK method \in Daemon!Answered(s) :
          /\ Daemon!WriteAll(Daemon!Publish(replies),
                 Daemon!Message(s, method, Daemon!Verdict(method, svc'[s])),
                 rpc.calls[s][method])
          /\ rpc' = [rpc EXCEPT !.calls[s][method] = 0]
    BY <1>5 DEF Daemon!Respond
  <2> DEFINE value == Daemon!Verdict(method, svc'[s])
             answer == Daemon!Message(s, method, value)
             calls == [rpc.calls EXCEPT ![s][method] = 0]
  <2>2. /\ method \in Awaited /\ rpc.calls[s][method] > 0 /\ value # "none"
    BY DEF Daemon!Answered, Awaited
  <2>3. rpc.calls[s][method] \in Nat
    <3>1. rpc.calls[s] \in Calls
      BY <1>2 DEF CallsOk
    <3> QED BY <2>2, <3>1 DEF Calls, Awaited
  <2>4. value \in {"ok", "error"}
    <3>1. svc'[s] \in Sheet
      BY <1>1 DEF Grown, ServiceOk, SheetOk
    <3>2. /\ method = "start" => svc'[s].start # "none"
          /\ method = "finish" => svc'[s].finish # "none"
          /\ method = "cancel" => svc'[s].cancel # "none"
      BY <1>2, <2>2 DEF CallsOk
    <3> QED BY <2>2, <3>1, <3>2, VerdictIs DEF Awaited
  <2>5. rpc' = [rpc EXCEPT !.calls = calls]
    BY <2>1
  <2>6. /\ Daemon!WriteAll(Daemon!Publish(replies), answer, rpc.calls[s][method])
    BY <2>1
  <2>7. answer \in Told(Transcribed', Polished') /\ answer.method # "completed"
    <3> HIDE DEF value
    <3> QED BY <2>2, <2>4 DEF Daemon!Message, Daemon!Service!Event, Told, Awaited, Words, Texts,
               Methods, Daemon!Events
  <2>8. CallsOk(calls, svc')
    BY <1>2, <2>2, CallsChange
  <2> HIDE DEF value, answer, calls
  <2>9. RpcOk(rpc', live', svc')
    BY <2>5, <2>8, RpcCalls DEF DaemonOk
  <2>10. RepliesOk(replies', Transcribed', Polished', Ahead')
    <3> HIDE DEF Told
    <3> QED BY <1>1, <2>3, <2>6, <2>7, WriteKeeps
  <2> QED BY <1>1, <1>3, <2>9, <2>10, DaemonKept
<1> QED BY <1>4, <1>5

LEMMA SessionKeeps ==
  ASSUME DaemonOk, UNCHANGED commits, NEW s \in Sessions,
         Daemon!SessionMoves(s) \/ Daemon!PromiseSettles(s)
  PROVE  DaemonOk' /\ Grown
<1>1. /\ Daemon!Respond(s)
      /\ \/ Daemon!Service!Progress(s) \/ Daemon!Service!PolishDelta(s)
         \/ Daemon!Service!Fail(s) \/ Daemon!Service!Promise(s)
  BY DEF Daemon!SessionMoves, Daemon!PromiseSettles
<1>2. Moved(s) /\ Published(s)
  BY <1>1, ProgressMoves DEF DaemonOk
<1>3. live' \in {live, None}
  BY <1>1, NobodyElseStarts
<1> QED BY <1>1, <1>2, <1>3, RespondKeeps

LEMMA CancelActiveSessionIs ==
  ASSUME DaemonOk, Daemon!CancelActiveSession
  PROVE  Grown /\ live' = live
<1>1. CASE live # None /\ svc[live].cancel = "none"
  <2>1. live \in Sessions /\ Daemon!Service!Cancel(live)
    BY <1>1 DEF Daemon!CancelActiveSession, DaemonOk, ServiceOk
  <2> QED BY <2>1, CancelMoves, MovedGrows DEF DaemonOk
<1>2. CASE ~(live # None /\ svc[live].cancel = "none")
  <2>1. UNCHANGED <<live, svc, gate>>
    BY <1>2 DEF Daemon!CancelActiveSession, Daemon!Service!Quiet, Daemon!Service!book
  <2>2. gate' \in {"none", "self", "other"}
    BY <2>1 DEF DaemonOk, ServiceOk
  <2> QED BY <2>1, <2>2, StillGrows DEF DaemonOk
<1> QED BY <1>1, <1>2

LEMMA RequestsKept ==
  ASSUME DaemonOk, requests' \in {requests, <<>>}
  PROVE  requests' \in Seq(Asked(Transcribed, Polished))
<1> DEFINE S == Seq(Asked(Transcribed, Polished))
<1>1. requests \in S /\ <<>> \in S
  BY EmptySeq DEF DaemonOk
<1> HIDE DEF S
<1>2. requests' \in S
  BY <1>1
<1> QED BY <1>2 DEF S

\* A step that tells the client nothing.
LEMMA SilentStep ==
  ASSUME DaemonOk, Grown, UNCHANGED <<commits, replies>>, RpcOk(rpc', live', svc'),
         requests' \in Seq(Asked(Transcribed, Polished))
  PROVE  DaemonOk'
<1>1. RepliesOk(replies', Transcribed', Polished', Ahead')
  BY GrownKeeps, RepliesGrow DEF DaemonOk
<1> QED BY <1>1, DaemonKept

LEMMA NoCallsOk ==
  ASSUME NEW sheets
  PROVE  CallsOk(Daemon!NoCalls, sheets)
BY DEF CallsOk, Calls, Daemon!NoCalls

LEMMA ClosedKeeps ==
  ASSUME DaemonOk, UNCHANGED commits, Daemon!Closed
  PROVE  DaemonOk' /\ Grown
<1> DEFINE n == [rpc EXCEPT !.closed = TRUE]
<1>1. Grown /\ live' = live
  BY CancelActiveSessionIs DEF Daemon!Closed
<1>2. RpcOk(rpc, live', svc')
  BY <1>1, GrownKeeps, RpcStays DEF DaemonOk
<1>3. /\ n \in Connections
      /\ n.calls = rpc.calls /\ n.closing = rpc.closing /\ n.disposed = rpc.disposed
      /\ n.awaited = rpc.awaited
  BY <1>2 DEF RpcOk, Connections
<1>4. rpc' = n /\ UNCHANGED <<requests, replies>>
  BY DEF Daemon!Closed
<1> HIDE DEF n
<1>5. RpcOk(rpc', live', svc')
  BY <1>2, <1>3, <1>4 DEF RpcOk, Connections
<1> QED BY <1>1, <1>4, <1>5, SilentStep, RequestsKept

\* The connection is disposed when no session is left.
LEMMA DisposedOk ==
  ASSUME NEW r \in Connections, NEW sheets
  PROVE  RpcOk(Daemon!Disposed(r), None, sheets)
<1> DEFINE n == [r EXCEPT !.disposed = TRUE, !.calls = Daemon!NoCalls]
<1>1. CallsOk(Daemon!NoCalls, sheets)
  BY NoCallsOk
<1>2. /\ n \in Connections
      /\ n.calls = Daemon!NoCalls /\ n.disposed = TRUE
  BY <1>1 DEF RpcOk, Connections, CallsOk
<1> HIDE DEF n
<1>3. RpcOk(n, None, sheets)
  BY <1>1, <1>2 DEF RpcOk, Connections
<1> QED BY <1>3 DEF n, Daemon!Disposed

LEMMA DisposeBeginsKeeps ==
  ASSUME DaemonOk, UNCHANGED commits, Daemon!DisposeBegins
  PROVE  DaemonOk' /\ Grown
<1> DEFINE begun == [rpc EXCEPT !.closed = TRUE, !.closing = TRUE, !.awaited = live]
<1>1. Grown /\ live' = live
  BY CancelActiveSessionIs DEF Daemon!DisposeBegins
<1>2. CallsOk(rpc.calls, svc') /\ RpcOk(rpc, live, svc)
  BY <1>1, GrownKeeps DEF DaemonOk
<1>3. /\ rpc' = IF live = None THEN Daemon!Disposed(begun) ELSE begun
      /\ requests' \in {requests, <<>>} /\ replies' = replies
  BY DEF Daemon!DisposeBegins
<1>4. live \in Sessions \cup {None}
  BY DEF DaemonOk, ServiceOk
<1>5. /\ begun \in Connections
      /\ begun.calls = rpc.calls /\ begun.awaited = live /\ begun.disposed = rpc.disposed
  BY <1>2, <1>4 DEF RpcOk, Connections
<1> HIDE DEF begun
<1>6. RpcOk(rpc', live', svc')
  <2>1. CASE live = None
    BY <1>1, <1>3, <1>5, <2>1, DisposedOk
  <2>2. CASE live # None
    <3>1. ~begun.disposed
      BY <1>2, <1>5, <2>2 DEF RpcOk, Connections
    <3> QED BY <1>1, <1>2, <1>3, <1>4, <1>5, <2>2, <3>1 DEF RpcOk, Connections
  <2> QED BY <2>1, <2>2
<1> QED BY <1>1, <1>3, <1>6, SilentStep, RequestsKept

LEMMA DisposeKeeps ==
  ASSUME DaemonOk, UNCHANGED commits, Daemon!Dispose
  PROVE  DaemonOk' /\ Grown
<1>1. Grown /\ UNCHANGED <<live, svc>>
  BY QuietGrows DEF Daemon!Dispose
<1>2. /\ rpc.closing /\ ~rpc.disposed
      /\ \A s \in Sessions : rpc.awaited = s => svc[s].cancel = "done"
      /\ rpc' = Daemon!Disposed(rpc) /\ requests' = <<>> /\ replies' = replies
  BY DEF Daemon!Dispose
<1>3. RpcOk(rpc, live, svc) /\ ServiceOk
  BY DEF DaemonOk
<1>4. live = None
  <2>1. live = rpc.awaited /\ rpc.awaited \in Sessions => SheetOk(svc[rpc.awaited], TRUE)
    BY <1>3 DEF ServiceOk, SheetOk
  <2> QED BY <1>2, <1>3, <2>1 DEF RpcOk, SheetOk
<1>5. RpcOk(rpc', live', svc')
  BY <1>1, <1>2, <1>3, <1>4, DisposedOk DEF RpcOk
<1> QED BY <1>1, <1>2, <1>5, SilentStep, RequestsKept

LEMMA GateMovesKeeps ==
  ASSUME DaemonOk, UNCHANGED commits, Daemon!GateMoves
  PROVE  DaemonOk' /\ Grown
<1>1. /\ UNCHANGED <<live, svc>> /\ gate' \in {"none", "self", "other"}
      /\ UNCHANGED <<requests, replies, rpc>>
  BY DEF Daemon!GateMoves, Daemon!Service!GateMoves
<1>2. Grown
  BY <1>1, StillGrows DEF DaemonOk
<1>3. RpcOk(rpc', live', svc')
  BY <1>1 DEF DaemonOk
<1> QED BY <1>1, <1>2, <1>3, SilentStep, RequestsKept

-------------------------------------------------------------------------------
(***************************************************************************)
(* A connection breaks, or is made.                                        *)
(***************************************************************************)
\* The daemon forgets its session: what it knew of it, nobody can ask it any more.
LEMMA ForgottenGrows ==
  ASSUME ServiceOk, live' = None, UNCHANGED svc, gate' \in {"none", "self", "other"}
  PROVE  Grown
<1>1. \A s \in Sessions : live' # s
  BY NoneIsNobody
<1>2. ServiceOk'
  <2>1. ASSUME NEW s \in Sessions PROVE SheetOk(svc'[s], live' = s)
    BY <1>1 DEF ServiceOk, SheetOk
  <2> QED BY <2>1 DEF ServiceOk
<1>3. Transcribed \subseteq Transcribed' /\ Polished \subseteq Polished'
  BY <1>1 DEF Transcribed, Polished
<1> QED BY <1>1, <1>2, <1>3 DEF Grown, Onward

LEMMA AcceptedKeeps ==
  ASSUME DaemonOk, UNCHANGED <<commits, replies>>, ClientAccepted,
         requests' \in Seq(Asked(Transcribed, Polished))
  PROVE  DaemonOk' /\ Grown
<1>1. live' = None /\ svc' = svc /\ gate' \in {"none", "self", "other"}
      /\ rpc' = Daemon!Accepted
  BY DEF ClientAccepted, DaemonOk, ServiceOk
<1>2. Grown
  BY <1>1, ForgottenGrows DEF DaemonOk
<1>3. RpcOk(rpc', live', svc')
  BY <1>1, NoCallsOk DEF RpcOk, Connections, Daemon!Accepted, CallsOk
<1> QED BY <1>2, <1>3, SilentStep

LEMMA BreakKeeps ==
  ASSUME DaemonOk, Break
  PROVE  DaemonOk' /\ Grown
<1> DEFINE n == [rpc EXCEPT !.link = "down"]
<1>1. /\ rpc' = n /\ UNCHANGED <<live, gate, svc, requests, replies, commits>>
  BY DEF Break, addonVars
<1>2. gate' \in {"none", "self", "other"}
  BY <1>1 DEF DaemonOk, ServiceOk
<1>3. Grown
  BY <1>1, <1>2, StillGrows DEF DaemonOk
<1>4. RpcOk(rpc, live, svc)
  BY DEF DaemonOk
<1>5. /\ n \in Connections
      /\ n.calls = rpc.calls /\ n.closing = rpc.closing /\ n.disposed = rpc.disposed
      /\ n.awaited = rpc.awaited
  BY <1>4 DEF RpcOk, Connections
<1> HIDE DEF n
<1>6. RpcOk(rpc', live', svc')
  BY <1>1, <1>4, <1>5 DEF RpcOk, Connections
<1> QED BY <1>1, <1>3, <1>6, SilentStep, RequestsKept

LEMMA CrashKeeps ==
  ASSUME DaemonOk, Crash
  PROVE  DaemonOk' /\ Grown
<1>1. /\ rpc' = Daemon!NoConnection /\ live' = None /\ gate' = "none" /\ requests' = <<>>
      /\ UNCHANGED <<svc, replies, commits>>
  BY DEF Crash, addonVars
<1>2. Grown
  BY <1>1, ForgottenGrows DEF DaemonOk
<1>3. RpcOk(rpc', live', svc')
  BY <1>1, NoCallsOk DEF RpcOk, Connections, Daemon!NoConnection, Daemon!Accepted, CallsOk
<1> QED BY <1>1, <1>2, <1>3, SilentStep, RequestsKept

-------------------------------------------------------------------------------
(***************************************************************************)
(* The event loop of the addon.                                            *)
(***************************************************************************)
\* A handler has come to its end.
LEMMA DoKeeps ==
  ASSUME DaemonOk, Grown, NEW m, NEW f \in Keyboard, AddonOk(m, f, Transcribed, Polished),
         Addon!Do(m), focus' = f
  PROVE  AddonIdle'
<1> DEFINE n == [m EXCEPT !.sent = <<>>]
<1>1. AddonOk(m, f, Transcribed', Polished')
  BY KnowledgeGrows DEF Grown
<1>2. /\ DOMAIN n = DOMAIN m /\ n.sent = <<>> /\ n.pendingStart = m.pendingStart
      /\ n.voice = m.voice /\ n.ic = m.ic
  BY <1>1 DEF AddonOk, Fields, Addon!Loaded
<1>3. im' = n
  BY DEF Addon!Do
<1> HIDE DEF n
<1>4. AddonOk(n, f, Transcribed', Polished')
  <2>1. n.sent \in Seq(Asked(Transcribed', Polished'))
    <3> HIDE DEF Asked
    <3> QED BY <1>2, EmptySeq
  <2> QED BY <1>1, <1>2, <2>1 DEF AddonOk, Fields
<1> QED BY <1>2, <1>3, <1>4 DEF AddonIdle

LEMMA DoAsks ==
  ASSUME DaemonOk, NEW m, NEW f, Fields(m, f, Transcribed, Polished), Addon!Do(m)
  PROVE  requests' \in Seq(Asked(Transcribed, Polished))
<1>1. /\ requests' = requests \o m.sent /\ requests \in Seq(Asked(Transcribed, Polished))
      /\ m.sent \in Seq(Asked(Transcribed, Polished))
  BY DEF Addon!Do, DaemonOk, Fields
<1> HIDE DEF Asked
<1> QED BY <1>1, ConcatProperties

LEMMA DaemonRests ==
  ASSUME DaemonOk, UNCHANGED daemonVars
  PROVE  Grown /\ RpcOk(rpc', live', svc')
<1>1. UNCHANGED <<live, gate, svc, rpc>>
  BY DEF daemonVars
<1>2. gate' \in {"none", "self", "other"}
  BY <1>1 DEF DaemonOk, ServiceOk
<1> QED BY <1>1, <1>2, StillGrows DEF DaemonOk

\* A handler that types nothing, while the daemon does nothing.
LEMMA HandlerKeeps ==
  ASSUME VoiceInv, NEW m, NEW f \in Keyboard, AddonOk(m, f, Transcribed, Polished),
         Addon!Do(m), focus' = f, UNCHANGED <<commits, replies>>, UNCHANGED daemonVars
  PROVE  VoiceInv'
<1>1. requests' \in Seq(Asked(Transcribed, Polished))
  BY DoAsks DEF VoiceInv, AddonOk
<1>2. DaemonOk'
  BY <1>1, DaemonRests, SilentStep DEF VoiceInv
<1> QED BY <1>2, DaemonRests, DoKeeps DEF VoiceInv

LEMMA PolishedAreTranscribed ==
  Transcribed \subseteq Sessions /\ Polished \subseteq Transcribed
BY DEF Transcribed, Polished

LEMMA KeyKeeps ==
  ASSUME VoiceInv, UNCHANGED daemonVars,
         \/ \E key \in Addon!Keys : Addon!KeyPressed(key)
         \/ \E key \in {"trigger", "toggle"} : Addon!KeyReleased(key)
  PROVE  VoiceInv'
<1>1. /\ focus \in Contexts /\ focus' = focus /\ UNCHANGED <<commits, replies>>
      /\ \E key : Addon!Do(Addon!Press(im, focus, key)) \/ Addon!Do(Addon!Release(im, focus, key))
  BY DEF Addon!KeyPressed, Addon!KeyReleased, VoiceInv, AddonIdle, Keyboard
<1>2. AddonOk(im, focus, Transcribed, Polished)
  BY DEF VoiceInv, AddonIdle
<1>3. \A key : /\ AddonOk(Addon!Press(im, focus, key), focus, Transcribed, Polished)
               /\ AddonOk(Addon!Release(im, focus, key), focus, Transcribed, Polished)
  BY <1>1, <1>2, PressKeeps, ReleaseKeeps, PolishedAreTranscribed
<1>4. focus \in Keyboard
  BY <1>1 DEF Keyboard
<1> QED BY <1>1, <1>3, <1>4, HandlerKeeps

LEMMA ClickKeeps ==
  ASSUME VoiceInv, UNCHANGED daemonVars, NEW choice \in Choices, Addon!CandidateClicked(choice)
  PROVE  VoiceInv'
<1>1. /\ focus' = focus /\ UNCHANGED <<commits, replies>>
      /\ Addon!Do(Addon!selectResult(im, choice))
  BY DEF Addon!CandidateClicked
<1>2. focus \in Keyboard /\ AddonOk(im, focus, Transcribed, Polished)
  BY DEF VoiceInv, AddonIdle
<1>3. AddonOk(Addon!selectResult(im, choice), focus, Transcribed, Polished)
  BY <1>2, selectResultKeeps, PolishedAreTranscribed
<1> QED BY <1>1, <1>2, <1>3, HandlerKeeps

\* Where no context has the keyboard, nothing goes on.
LEMMA NowhereIsFree ==
  ASSUME NEW m, NEW T, NEW P, AddonOk(m, None, T, P)
  PROVE  Free(m, T, P)
<1>1. Fields(m, None, T, P) /\ m.voice.ic = None
  BY DEF AddonOk, Fields, VoiceOk
<1>2. ASSUME NEW c \in Contexts PROVE Rests(m.ic[c]) /\ \A owner : Place(m.ic[c], owner)
  <2>1. Rests(m.ic[c])
    BY NoneIsNobody DEF AddonOk, Fields, PlacesOk
  <2> QED BY <2>1 DEF Rests, Place, Timed, Calm, Shows, Addon!TapPhases
<1> QED BY <1>1, <1>2, FreeIs

LEMMA FocusKeeps ==
  ASSUME VoiceInv, UNCHANGED daemonVars,
         \/ \E c \in Keyboard : Addon!FocusMoves(c)
         \/ Addon!ContextReset
         \/ \E auto : Addon!ConfigChanges(auto)
  PROVE  VoiceInv'
<1>1. focus \in Keyboard /\ AddonOk(im, focus, Transcribed, Polished)
  BY DEF VoiceInv, AddonIdle
<1>2. PICK m : Free(m, Transcribed, Polished) /\ Addon!Do(m)
  <2>1. focus = None => Free(im, Transcribed, Polished)
    BY <1>1, NowhereIsFree
  <2>2. focus # None => Free(Addon!resetInputContext(im, focus), Transcribed, Polished)
    BY <1>1, resetInputContextFrees DEF Keyboard
  <2>3. ASSUME NEW auto
        PROVE  Free([Addon!resetAllInputContexts(im) EXCEPT !.autoSelect = auto], Transcribed, Polished)
    BY <1>1, resetAllInputContextsFrees
  <2> QED BY <2>1, <2>2, <2>3 DEF Addon!FocusMoves, Addon!ContextReset, Addon!ConfigChanges
<1>3. focus' \in Keyboard /\ UNCHANGED <<commits, replies>>
  BY <1>1 DEF Addon!FocusMoves, Addon!ContextReset, Addon!ConfigChanges
<1>4. AddonOk(m, focus', Transcribed, Polished)
  BY <1>2, <1>3 DEF Free
<1> QED BY <1>2, <1>3, <1>4, HandlerKeeps

\* A timer that goes off is gone: its event is taken by the key, and by nobody else.
LEMMA TimerKeeps ==
  ASSUME VoiceInv, NEW c \in Contexts, NEW x, DOMAIN x = DOMAIN Addon!IdleContext,
         im.ic[c].hold \/ im.ic[c].grace, Calm(x), Shows(x, im.voice.ic = c),
         NEW event, NEW dial \in Dials, event = "Threshold" => dial # "none",
         Before(x, event)
  PROVE  AddonOk(Addon!Apply([im EXCEPT !.ic[c] = x], c, event, dial), focus,
                 Transcribed, Polished)
<1>1. AddonOk(im, focus, Transcribed, Polished)
  BY DEF VoiceInv, AddonIdle
<1>2. c = focus
  BY <1>1 DEF AddonOk, Fields, PlacesOk, Rests
<1>3. Fields(im, c, Transcribed, Polished)
  BY <1>1, <1>2 DEF AddonOk
<1> DEFINE n == [im EXCEPT !.ic[c] = x]
<1>4. Fields(n, c, Transcribed, Polished) /\ n.voice = im.voice /\ n.ic[c] = x
  BY <1>3, PlaceReplaced
<1> HIDE DEF n
<1>6. AddonOk(Addon!Apply(n, c, event, dial), c, Transcribed, Polished)
  BY <1>4, ApplyKeeps
<1> QED BY <1>2, <1>6 DEF n

\* The context a timer runs for is the one that has the keyboard.
LEMMA TimerIsThere ==
  ASSUME VoiceInv, NEW c \in Contexts, im.ic[c].hold \/ im.ic[c].grace
  PROVE  Place(im.ic[c], im.voice.ic = c)
<1>1. AddonOk(im, focus, Transcribed, Polished)
  BY DEF VoiceInv, AddonIdle
<1>2. c = focus
  BY <1>1 DEF AddonOk, Fields, PlacesOk, Rests
<1> QED BY <1>1, <1>2, NoneIsNobody DEF AddonOk

LEMMA GraceKeeps ==
  ASSUME VoiceInv, GraceElapses
  PROVE  VoiceInv'
<1>1. PICK c \in Contexts : Addon!GraceElapses(c)
  BY DEF GraceElapses
<1> DEFINE x == [im.ic[c] EXCEPT !.grace = FALSE]
           m == Addon!Apply([im EXCEPT !.ic[c] = x], c, "Elapsed", "none")
<1>2. /\ im.ic[c].grace /\ focus' = focus /\ UNCHANGED <<commits, replies>> /\ UNCHANGED daemonVars
      /\ Addon!Do(Addon!Apply([im EXCEPT !.ic[c].grace = FALSE], c, "Elapsed", "none"))
  BY <1>1 DEF GraceElapses, Addon!GraceElapses
<1>3. Addon!Do(m)
  BY <1>2
<1>4. /\ DOMAIN x = DOMAIN Addon!IdleContext /\ x.tap = im.ic[c].tap
      /\ x.error = im.ic[c].error /\ x.panel = im.ic[c].panel /\ x.hold = im.ic[c].hold
  BY DEF VoiceInv, AddonIdle, AddonOk, Fields, PlacesOk, Addon!IdleContext
<1> HIDE DEF x
<1>5. AddonOk(m, focus, Transcribed, Polished)
  <2>1. Before(x, "Elapsed") /\ Calm(x) /\ Shows(x, im.voice.ic = c)
    BY <1>2, <1>4, TimerIsThere DEF Place, Timed, Before, Calm, Shows
  <2> QED BY <1>2, <1>4, <2>1, TimerKeeps DEF Dials
<1> HIDE DEF m
<1> QED BY <1>2, <1>3, <1>5, HandlerKeeps DEF VoiceInv, AddonIdle

LEMMA HoldsKeep ==
  ASSUME VoiceInv, UserHolds
  PROVE  VoiceInv'
<1>1. PICK c \in Contexts, dial \in Dials \ {"none"} : Addon!HoldElapses(c, dial)
  BY DEF UserHolds, Dials
<1> DEFINE x == [im.ic[c] EXCEPT !.hold = FALSE]
           m == Addon!Apply([im EXCEPT !.ic[c] = x], c, "Threshold", dial)
<1>2. /\ im.ic[c].hold /\ focus' = focus /\ UNCHANGED <<commits, replies>>
      /\ Addon!Do(Addon!Apply([im EXCEPT !.ic[c].hold = FALSE], c, "Threshold", dial))
  BY <1>1 DEF Addon!HoldElapses
<1>3. Addon!Do(m)
  BY <1>2
<1>4. /\ DOMAIN x = DOMAIN Addon!IdleContext /\ x.tap = im.ic[c].tap
      /\ x.error = im.ic[c].error /\ x.panel = im.ic[c].panel /\ x.grace = im.ic[c].grace
  BY DEF VoiceInv, AddonIdle, AddonOk, Fields, PlacesOk, Addon!IdleContext
<1> HIDE DEF x
<1>5. AddonOk(m, focus, Transcribed, Polished)
  <2>1. dial \in Dials /\ dial # "none" /\ im.ic[c].hold
    BY <1>2
  <2>2. Before(x, "Threshold") /\ Calm(x) /\ Shows(x, im.voice.ic = c)
    BY <2>1, <1>4, TimerIsThere DEF Place, Timed, Before, Calm, Shows
  <2> QED BY <2>1, <1>4, <2>2, TimerKeeps
<1> HIDE DEF m
<1>6. focus \in Keyboard /\ requests' \in Seq(Asked(Transcribed, Polished))
  BY <1>3, <1>5, DoAsks DEF VoiceInv, AddonIdle, AddonOk
<1>7. ClientAccepted \/ UNCHANGED daemonVars
  BY DEF UserHolds
<1>8. CASE ClientAccepted
  BY <1>2, <1>3, <1>5, <1>6, <1>8, AcceptedKeeps, DoKeeps DEF VoiceInv
<1>9. CASE UNCHANGED daemonVars
  BY <1>2, <1>3, <1>5, <1>6, <1>9, HandlerKeeps
<1> QED BY <1>7, <1>8, <1>9

LEMMA ConnectsKeeps ==
  ASSUME VoiceInv, Connects
  PROVE  VoiceInv'
<1> DEFINE m == Addon!sendInitialize([im EXCEPT !.connection = "Connected"])
<1>1. /\ Addon!Do(m) /\ focus' = focus /\ UNCHANGED <<commits, replies>> /\ ClientAccepted
  BY DEF Connects, Addon!ConnectionCompletes
<1>2. focus \in Keyboard /\ AddonOk(m, focus, Transcribed, Polished)
  BY sendInitializeKeeps DEF VoiceInv, AddonIdle
<1> HIDE DEF m
<1>3. requests' \in Seq(Asked(Transcribed, Polished))
  BY <1>1, <1>2, DoAsks DEF VoiceInv, AddonOk
<1> QED BY <1>1, <1>2, <1>3, AcceptedKeeps, DoKeeps DEF VoiceInv

LEMMA BreakIsNoticed ==
  ASSUME VoiceInv, NoticesBreak
  PROVE  VoiceInv'
<1>1. /\ im' = Addon!disconnect(im) /\ replies' = <<>> /\ UNCHANGED <<focus, requests, commits>>
      /\ UNCHANGED daemonVars
  BY DEF NoticesBreak, Addon!Disconnects
<1>2. focus \in Keyboard /\ AddonOk(im, focus, Transcribed, Polished) /\ im.sent = <<>>
  BY DEF VoiceInv, AddonIdle
<1>3. Grown /\ RpcOk(rpc', live', svc') /\ Transcribed' = Transcribed /\ Polished' = Polished
  BY <1>1, DaemonRests DEF VoiceInv, Transcribed, Polished, daemonVars
<1>4. AddonOk(im', focus, Transcribed, Polished) /\ im'.sent = <<>>
  BY <1>1, <1>2, disconnectKeeps
<1>5. AddonIdle'
  BY <1>1, <1>2, <1>3, <1>4 DEF AddonIdle
<1>6. RepliesOk(replies', Transcribed', Polished', Ahead')
  <2>1. <<>> \in Seq(Told(Transcribed', Polished'))
    <3> HIDE DEF Told
    <3> QED BY EmptySeq
  <2> QED BY <1>1, <2>1 DEF RepliesOk, Once, Never
<1>7. DaemonOk'
  BY <1>1, <1>3, <1>6, DaemonKept, RequestsKept DEF VoiceInv
<1> QED BY <1>5, <1>7 DEF VoiceInv

\* What a completion that is read does: the text is typed, for the first time, where
\* the keyboard is.
LEMMA TypedOnce ==
  ASSUME VoiceInv, Addon!MessageArrives, NEW s \in Sessions, commits'[s] # commits[s]
  PROVE  /\ Completes(Head(replies), s)
         /\ commits' = [commits EXCEPT ![s] = <<focus>>]
         /\ commits[s] = <<>> /\ live # s /\ svc[s].start # "none"
         /\ focus \in Contexts
<1> DEFINE n == Head(replies)
<1>1. replies # <<>> /\ replies \in Seq(Told(Transcribed, Polished))
  BY DEF Addon!MessageArrives, VoiceInv, DaemonOk, RepliesOk
<1>2. n.method = "completed" /\ Addon!Mine(im, n.session)
      /\ commits' = [commits EXCEPT ![n.session] = Append(@, im.voice.ic)]
  BY DEF Addon!MessageArrives
<1>3. n.session = s
  BY <1>2 DEF VoiceInv, DaemonOk, CommitsOk
<1>4. im.voice.ic = focus /\ focus \in Contexts
  BY <1>2 DEF Addon!Mine, VoiceInv, AddonIdle, AddonOk, Fields, VoiceOk, Keyboard
<1>5. s \notin Ahead
  <2>1. ~Never(replies, s)
    <3>1. Completes(n, s)
      BY <1>2, <1>3 DEF Completes
    <3> HIDE DEF Told
    <3> QED BY <1>1, <3>1, TailIs
  <2> QED BY <2>1 DEF VoiceInv, DaemonOk, RepliesOk
<1>6. commits[s] = <<>> /\ live # s /\ svc[s].start # "none"
  BY <1>5 DEF Ahead
<1>7. Append(commits[s], focus) = <<focus>>
  BY <1>6
<1>8. commits' = [commits EXCEPT ![s] = <<focus>>]
  BY <1>2, <1>3, <1>4, <1>7
<1> QED BY <1>2, <1>3, <1>4, <1>6, <1>8 DEF Completes

LEMMA ReadsKeeps ==
  ASSUME VoiceInv, Reads
  PROVE  VoiceInv'
<1> DEFINE n == Head(replies)
<1>1. /\ Addon!MessageArrives /\ UNCHANGED daemonVars /\ replies # <<>>
      /\ replies' = Tail(replies) /\ focus' = focus
  BY DEF Reads, Addon!MessageArrives
<1>2. focus \in Keyboard /\ AddonOk(im, focus, Transcribed, Polished)
  BY DEF VoiceInv, AddonIdle
<1>3. /\ n \in Told(Transcribed, Polished)
      /\ Tail(replies) \in Seq(Told(Transcribed, Polished))
      /\ \A s \in Sessions : /\ Once(Tail(replies), s)
                             /\ Completes(n, s) => Never(Tail(replies), s)
                             /\ s \in Ahead => Never(Tail(replies), s)
  <2>1. replies \in Seq(Told(Transcribed, Polished))
        /\ \A s \in Sessions : Once(replies, s) /\ (s \in Ahead => Never(replies, s))
    BY DEF VoiceInv, DaemonOk, RepliesOk
  <2> HIDE DEF Told, Once, Never, Completes, Ahead
  <2> QED BY <1>1, <2>1, TailIs
<1>4. PICK m : AddonOk(m, focus, Transcribed, Polished) /\ Addon!Do(m)
  <2> HIDE DEF n
  <2>1. \/ n.method \in Addon!Notifications /\ \E same : Addon!Do(Addon!Notified(im, n, same))
        \/ Addon!Do(Addon!Answered(im, n))
    BY <1>1 DEF Addon!MessageArrives, n
  <2>2. CASE Addon!Do(Addon!Answered(im, n))
    BY <1>2, <1>3, <2>2, AnsweredKeeps, PolishedAreTranscribed
  <2>3. ASSUME n.method \in Addon!Notifications, NEW same, Addon!Do(Addon!Notified(im, n, same))
        PROVE  \E m : AddonOk(m, focus, Transcribed, Polished) /\ Addon!Do(m)
    BY <1>2, <1>3, <2>3, NotifiedKeeps, PolishedAreTranscribed
  <2> QED BY <2>1, <2>2, <2>3
<1>5. Grown /\ RpcOk(rpc', live', svc')
      /\ Transcribed' = Transcribed /\ Polished' = Polished /\ ServiceOk'
  BY <1>1, DaemonRests DEF VoiceInv, Transcribed, Polished, daemonVars, Grown
<1>6. \A s \in Sessions : commits'[s] # commits[s] =>
         /\ Completes(n, s) /\ commits' = [commits EXCEPT ![s] = <<focus>>]
         /\ live # s /\ svc[s].start # "none"
  BY <1>1, TypedOnce
<1>7. DOMAIN commits' = DOMAIN commits
  BY <1>1 DEF Addon!MessageArrives
<1>8. CommitsOk'
  BY <1>1, <1>6, <1>7 DEF VoiceInv, DaemonOk, CommitsOk, daemonVars
<1>9. \A s \in Ahead' : s \in Sessions /\ (s \in Ahead \/ Completes(n, s))
  BY <1>1, <1>6 DEF Ahead, daemonVars
<1>10. RepliesOk(replies', Transcribed', Polished', Ahead')
  <2> HIDE DEF Told, Once, Never, Completes, Ahead, n
  <2> QED BY <1>1, <1>3, <1>5, <1>9 DEF RepliesOk
<1>11. requests' \in Seq(Asked(Transcribed', Polished'))
  BY <1>4, <1>5, DoAsks DEF VoiceInv, AddonOk
<1>12. AddonIdle'
  BY <1>1, <1>2, <1>4, <1>5, DoKeeps DEF VoiceInv
<1> QED BY <1>5, <1>8, <1>10, <1>11, <1>12 DEF VoiceInv, DaemonOk

\* What the daemon does by itself leaves the input method as it is, and knowing more
\* does not harm it.
LEMMA AddonRests ==
  ASSUME AddonIdle, UNCHANGED addonVars, Grown
  PROVE  AddonIdle'
BY KnowledgeGrows DEF AddonIdle, addonVars, Grown

LEMMA DaemonStepKeeps ==
  ASSUME VoiceInv,
         \/ DaemonStarts \/ DaemonHandles \/ DaemonCloses \/ GateMoves \/ Break \/ Crash
         \/ \E s \in Sessions : SessionMoves(s) \/ PromiseSettles(s)
  PROVE  VoiceInv'
<1>1. UNCHANGED addonVars /\ UNCHANGED commits
  BY DEF DaemonStarts, DaemonHandles, DaemonCloses, GateMoves, Break, Crash, SessionMoves,
         PromiseSettles, addonVars
<1>2. DaemonOk
  BY DEF VoiceInv
<1>3. ASSUME DaemonStarts PROVE DaemonOk' /\ Grown
  BY <1>1, <1>2, <1>3, StartKeeps DEF DaemonStarts
<1>4. ASSUME DaemonHandles PROVE DaemonOk' /\ Grown
  <2>1. \/ Daemon!Initialize
        \/ Daemon!NotInitialized \/ Daemon!StartRefused \/ Daemon!NotActive
        \/ Daemon!Finish
        \/ Daemon!Cancel
        \/ Daemon!SelectResult
        \/ Daemon!SetPolishingEnabled
    BY <1>4 DEF DaemonHandles
  <2> QED BY <1>1, <1>2, <2>1, InitializeKeeps, RefusalsKeep, FinishKeeps, CancelKeeps,
             SelectResultKeeps, SetPolishingEnabledKeeps
<1>5. ASSUME DaemonCloses PROVE DaemonOk' /\ Grown
  BY <1>1, <1>2, <1>5, ClosedKeeps, DisposeBeginsKeeps, DisposeKeeps DEF DaemonCloses
<1>6. ASSUME GateMoves PROVE DaemonOk' /\ Grown
  BY <1>1, <1>2, <1>6, GateMovesKeeps DEF GateMoves
<1>7. ASSUME NEW s \in Sessions, SessionMoves(s) \/ PromiseSettles(s) PROVE DaemonOk' /\ Grown
  BY <1>1, <1>2, <1>7, SessionKeeps DEF SessionMoves, PromiseSettles
<1>8. DaemonOk' /\ Grown
  BY <1>2, <1>3, <1>4, <1>5, <1>6, <1>7, BreakKeeps, CrashKeeps
<1> QED BY <1>1, <1>8, AddonRests DEF VoiceInv

-------------------------------------------------------------------------------
LEMMA InitHolds ==
  ASSUME Init
  PROVE  VoiceInv
<1>1. /\ live = None /\ gate = "none" /\ rpc = Daemon!NoConnection
      /\ requests = <<>> /\ replies = <<>> /\ focus \in Contexts
      /\ svc = [s \in Sessions |-> Daemon!Service!Fresh]
      /\ commits = [s \in Sessions |-> <<>>]
      /\ \E auto \in BOOLEAN : im = Addon!Loaded(auto)
  BY DEF Init, Addon!Init, Daemon!Init, Daemon!Service!Init
<1>2. \A s \in Sessions : live # s /\ svc[s] = Daemon!Service!Fresh
  BY <1>1, NoneIsNobody
<1>3. Daemon!Service!Fresh \in Sheet /\ Daemon!Service!Fresh.start = "none"
      /\ Daemon!Service!Fresh.finish = "none" /\ Daemon!Service!Fresh.cancel = "none"
      /\ Daemon!Service!Fresh.phase = "none"
  BY DEF Daemon!Service!Fresh, Sheet, Phases
<1>4. Transcribed = {} /\ Polished = {}
  BY <1>2, <1>3 DEF Transcribed, Polished
<1>5. ServiceOk
  BY <1>1, <1>2, <1>3 DEF ServiceOk, SheetOk, ShowingResults
<1>6. RpcOk(rpc, live, svc)
  <2>1. Daemon!NoCalls \in [Sessions -> Calls]
    BY DEF Daemon!NoCalls, Calls
  <2> HIDE DEF Calls
  <2>3. Daemon!NoConnection \in Connections /\ Daemon!NoConnection.disposed
        /\ Daemon!NoConnection.calls = Daemon!NoCalls
    BY <2>1 DEF Daemon!NoConnection, Daemon!Accepted, Connections
  <2>2. CallsOk(Daemon!NoCalls, svc)
    BY NoCallsOk
  <2> QED BY <1>1, <2>2, <2>3 DEF RpcOk
<1>7. requests \in Seq(Asked(Transcribed, Polished))
  BY <1>1
<1>8. RepliesOk(replies, Transcribed, Polished, Ahead)
  <2>1. <<>> \in Seq(Told(Transcribed, Polished))
    <3> HIDE DEF Told
    <3> QED BY EmptySeq
  <2> QED BY <1>1, <2>1 DEF RepliesOk, Once, Never
<1>9. CommitsOk
  BY <1>1 DEF CommitsOk
<1>10. AddonIdle
  <2>1. PICK auto \in BOOLEAN : im = Addon!Loaded(auto)
    BY <1>1
  <2>2. /\ DOMAIN im = DOMAIN Addon!Loaded(TRUE) /\ im.sent = <<>> /\ im.pendingStart = None
        /\ im.voice = Addon!NoVoice /\ im.ic = [c \in Contexts |-> Addon!IdleContext]
    BY <2>1 DEF Addon!Loaded
  <2>3. VoiceOk(im.voice, focus, Transcribed, Polished)
    BY <2>2 DEF VoiceOk, Addon!NoVoice, Choices
  <2>4. PlacesOk(im.ic, focus) /\ \A c \in Contexts : Place(im.ic[c], im.voice.ic = c)
    BY <2>2 DEF PlacesOk, Rests, Place, Timed, Calm, Shows, Addon!IdleContext, Addon!TapPhases
  <2>5. im.sent \in Seq(Asked(Transcribed, Polished))
    BY <2>2
  <2> QED BY <1>1, <2>2, <2>3, <2>4, <2>5 DEF AddonIdle, AddonOk, Fields, Keyboard
<1> QED BY <1>5, <1>6, <1>7, <1>8, <1>9, <1>10 DEF VoiceInv, DaemonOk

LEMMA NextKeeps ==
  ASSUME VoiceInv, [Next]_vars
  PROVE  VoiceInv'
<1>1. CASE UserHolds
  BY <1>1, HoldsKeep
<1>2. CASE UserTypes
  <2>1. UNCHANGED daemonVars
    BY <1>2 DEF UserTypes
  <2>2. CASE \/ \E key \in Addon!Keys : Addon!KeyPressed(key)
             \/ \E key \in {"trigger", "toggle"} : Addon!KeyReleased(key)
    BY <2>1, <2>2, KeyKeeps
  <2>3. CASE \E choice \in Choices : Addon!CandidateClicked(choice)
    BY <2>1, <2>3, ClickKeeps
  <2>4. CASE \/ \E c \in Keyboard : Addon!FocusMoves(c)
             \/ Addon!ContextReset
             \/ \E auto : Addon!ConfigChanges(auto)
    BY <2>1, <2>4, FocusKeeps
  <2> QED BY <1>2, <2>2, <2>3, <2>4 DEF UserTypes, Choices, Keyboard
<1>3. CASE GraceElapses
  BY <1>3, GraceKeeps
<1>4. CASE Connects
  BY <1>4, ConnectsKeeps
<1>5. CASE NoticesBreak
  BY <1>5, BreakIsNoticed
<1>6. CASE Reads
  BY <1>6, ReadsKeeps
<1>7. CASE \/ DaemonStarts \/ DaemonHandles \/ DaemonCloses \/ GateMoves \/ Break \/ Crash
           \/ \E s \in Sessions : SessionMoves(s) \/ PromiseSettles(s)
  BY <1>7, DaemonStepKeeps
<1>8. CASE UNCHANGED vars
  <2>1. UNCHANGED addonVars /\ UNCHANGED daemonVars /\ UNCHANGED <<commits, replies, requests>>
    BY <1>8 DEF vars, addonVars
  <2>2. Grown /\ RpcOk(rpc', live', svc')
    BY <2>1, DaemonRests DEF VoiceInv
  <2>3. DaemonOk'
    BY <2>1, <2>2, SilentStep, RequestsKept DEF VoiceInv
  <2> QED BY <2>1, <2>2, <2>3, AddonRests DEF VoiceInv
<1> QED BY <1>1, <1>2, <1>3, <1>4, <1>5, <1>6, <1>7, <1>8 DEF Next

\* What the input method believes, what is on the way and what the daemon knows stay
\* in step, whatever breaks, dies or is connected again.
THEOREM VoiceCorrect == Spec => []VoiceInv
BY InitHolds, NextKeeps, PTL DEF Spec

\* Every part of the state keeps its range, between two handlers nothing is left to send.
THEOREM VoiceTyped == Spec => []TypeOK
<1>1. VoiceInv => TypeOK
  <2> SUFFICES ASSUME VoiceInv PROVE TypeOK
    OBVIOUS
  <2>1. /\ focus \in Keyboard /\ AddonOk(im, focus, Transcribed, Polished) /\ im.sent = <<>>
        /\ live \in Sessions \cup {None} /\ gate \in {"none", "self", "other"}
    BY DEF VoiceInv, AddonIdle, DaemonOk, ServiceOk
  <2>2. /\ im.voice.ic \in Contexts \cup {None}
        /\ im.voice.id \in IF im.voice.ic = None THEN {None} ELSE Sessions \cup {None}
    BY <2>1 DEF AddonOk, Fields, VoiceOk, Keyboard
  <2>3. ASSUME NEW c \in Contexts PROVE im.ic[c].tap \in Addon!TapPhases
    <3>1. CASE c = focus
      BY <2>1, <3>1, NoneIsNobody DEF AddonOk, Place, Timed
    <3>2. CASE c # focus
      BY <2>1, <3>2 DEF AddonOk, Fields, PlacesOk, Rests, Addon!TapPhases
    <3> QED BY <3>1, <3>2
  <2> QED BY <2>1, <2>2, <2>3 DEF TypeOK, Keyboard
<1> QED BY <1>1, VoiceCorrect, PTL

\* The trigger key never waits for a timer that does not run: no sequence of keys,
\* focus changes, breaks and late notifications leaves it swallowed for ever.
THEOREM TriggersHeard == Spec => []TriggerNeverHangs
<1>1. VoiceInv => TriggerNeverHangs
  <2> SUFFICES ASSUME VoiceInv, NEW c \in Contexts
               PROVE  /\ im.ic[c].tap = "Pending" => im.ic[c].hold
                      /\ im.ic[c].tap \in {"ActiveTriggerRelease", "FailedTriggerRelease"}
                           => im.ic[c].grace
    BY DEF TriggerNeverHangs
  <2>1. AddonOk(im, focus, Transcribed, Polished)
    BY DEF VoiceInv, AddonIdle
  <2>2. CASE c = focus
    BY <2>1, <2>2, NoneIsNobody DEF AddonOk, Place, Timed
  <2>3. CASE c # focus
    BY <2>1, <2>3 DEF AddonOk, Fields, PlacesOk, Rests
  <2> QED BY <2>2, <2>3
<1> QED BY <1>1, VoiceCorrect, PTL

\* A panel is on the screen only where the keyboard is, for the session shown there or
\* for an error no key has dismissed yet.
THEOREM PanelsHaveReason == Spec => []PanelHasReason
<1>1. VoiceInv => PanelHasReason
  <2> SUFFICES ASSUME VoiceInv, NEW c \in Contexts, im.ic[c].panel
               PROVE  focus = c /\ (im.voice.ic = c \/ im.ic[c].error)
    BY DEF PanelHasReason
  <2>1. AddonOk(im, focus, Transcribed, Polished)
    BY DEF VoiceInv, AddonIdle
  <2>2. focus = c
    BY <2>1 DEF AddonOk, Fields, PlacesOk, Rests
  <2> QED BY <2>1, <2>2, NoneIsNobody DEF AddonOk, Place, Shows
<1> QED BY <1>1, VoiceCorrect, PTL

\* Once the daemon has forgotten a client, no session of it is left, not even one whose
\* start was dispatched while the connection closed.
THEOREM ClientsLeaveNothing == Spec => []NoSessionOutlivesClient
<1>1. VoiceInv => NoSessionOutlivesClient
  BY DEF VoiceInv, DaemonOk, RpcOk, NoSessionOutlivesClient
<1> QED BY <1>1, VoiceCorrect, PTL

\* A choice on its way to the daemon is one the daemon can still make when it arrives.
THEOREM SelectionsArrive == Spec => []SelectionsAreAvailable
<1>1. VoiceInv => SelectionsAreAvailable
  <2> SUFFICES ASSUME VoiceInv, NEW i \in DOMAIN requests,
                      requests[i].method = "select", live = requests[i].session
               PROVE  \/ Daemon!Service!Cancelling(requests[i].session)
                      \/ Daemon!Service!CanSelect(requests[i].session, requests[i].value)
    BY DEF SelectionsAreAvailable
  <2> DEFINE r == requests[i]
  <2>1. r \in Asked(Transcribed, Polished)
    <3>1. requests \in Seq(Asked(Transcribed, Polished))
      BY DEF VoiceInv, DaemonOk
    <3> HIDE DEF Asked
    <3> QED BY <3>1
  <2>2. /\ r.session \in Transcribed /\ r.value \in Choices
        /\ r.value = "polished" => r.session \in Polished
    BY <2>1 DEF Asked
  <2>3. Transcript(svc[r.session]) /\ r.value \in svc[r.session].offered
    BY <2>2 DEF Transcribed, Polished, Transcript, Choices
  <2> QED BY <2>3 DEF Transcript, ShowingResults, Daemon!Service!Cancelling,
                      Daemon!Service!CanSelect
<1> QED BY <1>1, VoiceCorrect, PTL

\* A text is typed at most once, and only into the context that has the keyboard at
\* that moment, whatever the order of key, focus change and late notification.
THEOREM TypedWhereTheUserIs == Spec => TypedUnderKeyboard
<1>1. ASSUME VoiceInv, [Next]_vars
      PROVE  [\A s \in Sessions : commits'[s] # commits[s] =>
                commits[s] = <<>> /\ commits'[s] = <<focus>>]_vars
  <2> SUFFICES ASSUME NEW s \in Sessions, commits'[s] # commits[s]
               PROVE  commits[s] = <<>> /\ commits'[s] = <<focus>>
    OBVIOUS
  <2>1. Addon!MessageArrives
    BY <1>1 DEF Next, vars, addonVars, UserHolds, UserTypes, GraceElapses, Connects,
          NoticesBreak, Reads, DaemonStarts, DaemonHandles, SessionMoves, PromiseSettles,
          DaemonCloses, GateMoves, Break, Crash, Addon!HoldElapses, Addon!KeyPressed,
          Addon!KeyReleased, Addon!CandidateClicked, Addon!FocusMoves, Addon!ContextReset,
          Addon!ConfigChanges, Addon!GraceElapses, Addon!ConnectionCompletes,
          Addon!Disconnects
  <2>2. commits' = [commits EXCEPT ![s] = <<focus>>] /\ commits[s] = <<>>
    BY <1>1, <2>1, TypedOnce
  <2>3. DOMAIN commits = Sessions
    BY <1>1 DEF VoiceInv, DaemonOk, CommitsOk
  <2> QED BY <2>2, <2>3
<1> QED BY <1>1, VoiceCorrect, PTL DEF Spec, TypedUnderKeyboard

===============================================================================
