-------------------------- MODULE RecognitionProofs --------------------------
(***************************************************************************)
(* Every recogniser is a session as the coordinator knows it, and what it  *)
(* completes is whole.  The invariant of the first theorem says what has   *)
(* to be known before an event may follow (Told); that of the second       *)
(* accounts for the audio (Counted) and for the sentences (Heard).         *)
(***************************************************************************)
EXTENDS RecognitionSession, SequenceTheorems, FiniteSetTheorems, TLAPS

Calls == {"idle", "pending", "resolved", "rejected"}
Waits == {"cancel", "cancel after completion", "failed handshake", "error", "completion"}
Aliyun == {"duplex", "qwen"}

LEMMA Known == Protocols \subseteq Aliyun \cup {"tencent", "openai"}
BY ProtocolsKnown DEF Aliyun

\* The fields of a session.
Fields(r) ==
  /\ DOMAIN r = DOMAIN New
  /\ r.start \in Calls /\ r.write \in Calls /\ r.finish \in Calls /\ r.cancel \in Calls
  /\ r.socket \in {"none", "connecting", "open", "closing", "closed"}
  /\ r.handshake \in BOOLEAN /\ r.cancelled \in BOOLEAN /\ r.closed \in BOOLEAN
  /\ r.finishRequested \in BOOLEAN /\ r.end \in BOOLEAN
  /\ r.done \in {"no", "failed", "completed"} /\ r.waits \subseteq Waits
  /\ r.turn \in {"started", "recorded", "request", "backoff", "over"}
  /\ r.packets \in Nat /\ r.sent \in Nat /\ r.buffer \in Nat /\ r.attempt \in {1, 2}

\* What is known of a session with a socket, before and after it was told its end.
Told(r) ==
  /\ r.finish # "idle" => r.finishRequested
  /\ r.handshake => r.events = <<>> /\ r.done = "no" /\ ~r.cancelled
  /\ r.socket # "none" /\ ~r.handshake /\ ~r.cancelled /\ r.done = "no" => r.events # <<>>
  /\ "completion" \in r.waits => r.events # <<>> /\ r.done # "no"

\* What of it differs between the protocols.
ByProtocol(r, p) ==
  /\ p # "openai" => (r.closed \/ r.waits # {} => r.cancelled \/ r.done # "no")
  /\ p \in Aliyun => (r.cancelled \/ r.done # "no" => r.closed)
  /\ p # "tencent" => r.waits = {}
  /\ p = "openai" =>
       /\ r.socket = "none" /\ ~r.handshakeTimer /\ ~r.finalTimer /\ ~r.handshake
       /\ r.write # "pending" /\ r.finish # "pending"
       /\ r.closed <=> r.turn = "over"
       /\ r.turn = "started" => r.events = <<>>
       /\ r.turn \in {"recorded", "request", "backoff"} => r.events # <<>>

Open(e) == e = <<>> \/ e[Len(e)] \notin Service!Terminal

Events(e, closed) == e \in Seq(Service!Kinds) /\ (~closed => Open(e))

Untouched == s.start = "idle" => s = New /\ ~server.started

Started == s.handshake => ~server.started

ToldInv ==
  /\ protocol \in Protocols /\ Fields(s) /\ Told(s) /\ ByProtocol(s, protocol)
  /\ Events(s.events, s.closed) /\ Untouched /\ Started

-------------------------------------------------------------------------------
(***************************************************************************)
(* A step of the service, read off the session before and after it.        *)
(***************************************************************************)
Settled(x, y) ==
  \/ y = x
  \/ x = "idle" /\ y \in {"pending", "resolved", "rejected"}
  \/ x = "pending" /\ y \in {"resolved", "rejected"}

OneCall(r, q) ==
  \/ Settled(r.start, q.start) /\ q.finish = r.finish /\ q.cancel = r.cancel
  \/ q.start = r.start /\ Settled(r.finish, q.finish) /\ q.cancel = r.cancel
  \/ /\ q.finish = r.finish /\ r.cancel # "resolved" /\ q.cancel \in {"pending", "resolved"}
     /\ q.start = r.start \/ (r.start = "pending" /\ q.start = "rejected")

Quiet(r, q) == q.events = r.events /\ (q.closed = r.closed \/ q.closed = TRUE)
Says(r, q, kind) ==
  ~r.closed /\ q.events = Append(r.events, kind) /\ q.closed = r.closed
Ends(r, q, kind) ==
  ~r.closed /\ q.events = Append(r.events, kind) /\ q.closed = TRUE

OneEvent(r, q) ==
  \/ Quiet(r, q)
  \/ Says(r, q, "ready") /\ r.events = <<>>
  \/ Says(r, q, "preview") /\ r.events # <<>>
  \/ Ends(r, q, "completed") /\ r.events # <<>>
  \/ Ends(r, q, "error")

Moves(r, q) == OneCall(r, q) /\ OneEvent(r, q)

LEMMA EventsFollow ==
  ASSUME NEW r, NEW q, Events(r.events, r.closed), r.closed \in BOOLEAN, OneEvent(r, q)
  PROVE  /\ Events(q.events, q.closed)
         /\ q.events # r.events => q.events # <<>>
  <1> DEFINE e == r.events
  <1>1. CASE Quiet(r, q)
    BY <1>1 DEF Quiet, Events
  <1>2. ASSUME NEW kind \in Service!Kinds, q.events = Append(e, kind),
               kind \in Service!Terminal => q.closed = TRUE
        PROVE  Events(q.events, q.closed) /\ q.events # <<>>
    <2>1. q.events \in Seq(Service!Kinds) /\ Len(q.events) = Len(e) + 1
          /\ q.events[Len(q.events)] = kind
      BY <1>2 DEF Events
    <2> QED
      BY <1>2, <2>1 DEF Events, Open
  <1> QED
    BY <1>1, <1>2 DEF OneEvent, Says, Ends, Service!Kinds, Service!Terminal

CallsAre(x, f, c) == [start |-> x, finish |-> f, cancel |-> c]

LEMMA CallsRead ==
  ASSUME NEW x, NEW f, NEW c
  PROVE  /\ CallsAre(x, f, c).start = x
         /\ CallsAre(x, f, c).finish = f
         /\ CallsAre(x, f, c).cancel = c
BY DEF CallsAre

LEMMA StartReplaced ==
  ASSUME NEW x, NEW f, NEW c, NEW y
  PROVE  [CallsAre(x, f, c) EXCEPT !["start"] = y] = CallsAre(y, f, c)
BY Z3 DEF CallsAre

LEMMA FinishReplaced ==
  ASSUME NEW x, NEW f, NEW c, NEW y
  PROVE  [CallsAre(x, f, c) EXCEPT !["finish"] = y] = CallsAre(x, y, c)
BY Z3 DEF CallsAre

LEMMA CancelReplaced ==
  ASSUME NEW x, NEW f, NEW c, NEW y
  PROVE  [CallsAre(x, f, c) EXCEPT !["cancel"] = y] = CallsAre(x, f, y)
BY Z3 DEF CallsAre

\* The calls of the service, and what it does with them.
ServiceCalls == CallsAre(s.start, s.finish, s.cancel)

LEMMA ServiceSettles ==
  ASSUME OneCall(s, s')
  PROVE  Service!Settles("start") \/ Service!Settles("finish") \/ Service!Cancels
  <1>1. ServiceCalls' = CallsAre(s'.start, s'.finish, s'.cancel)
    BY DEF ServiceCalls
  <1>2. CASE Settled(s.start, s'.start) /\ s'.finish = s.finish /\ s'.cancel = s.cancel
    <2>1. /\ Service!Settles("start") <=>
               \/ UNCHANGED ServiceCalls
               \/ /\ ServiceCalls.start = "idle"
                  /\ \E to \in {"pending", "resolved", "rejected"} :
                       ServiceCalls' = [ServiceCalls EXCEPT !["start"] = to]
               \/ /\ ServiceCalls.start = "pending"
                  /\ \E to \in {"resolved", "rejected"} :
                       ServiceCalls' = [ServiceCalls EXCEPT !["start"] = to]
      BY DEF ServiceCalls, CallsAre, Service!Settles
    <2>2. ServiceCalls.start = s.start
      BY CallsRead DEF ServiceCalls
    <2>3. [ServiceCalls EXCEPT !["start"] = s'.start] = ServiceCalls'
      BY <1>1, <1>2, StartReplaced DEF ServiceCalls
    <2>4. s'.start = s.start => UNCHANGED ServiceCalls
      BY <1>1, <1>2 DEF ServiceCalls
    <2> QED BY <1>2, <2>1, <2>2, <2>3, <2>4 DEF Settled
  <1>3. CASE s'.start = s.start /\ Settled(s.finish, s'.finish) /\ s'.cancel = s.cancel
    <2>1. /\ Service!Settles("finish") <=>
               \/ UNCHANGED ServiceCalls
               \/ /\ ServiceCalls.finish = "idle"
                  /\ \E to \in {"pending", "resolved", "rejected"} :
                       ServiceCalls' = [ServiceCalls EXCEPT !["finish"] = to]
               \/ /\ ServiceCalls.finish = "pending"
                  /\ \E to \in {"resolved", "rejected"} :
                       ServiceCalls' = [ServiceCalls EXCEPT !["finish"] = to]
      BY DEF ServiceCalls, CallsAre, Service!Settles
    <2>2. ServiceCalls.finish = s.finish
      BY CallsRead DEF ServiceCalls
    <2>3. [ServiceCalls EXCEPT !["finish"] = s'.finish] = ServiceCalls'
      BY <1>1, <1>3, FinishReplaced DEF ServiceCalls
    <2>4. s'.finish = s.finish => UNCHANGED ServiceCalls
      BY <1>1, <1>3 DEF ServiceCalls
    <2> QED BY <1>3, <2>1, <2>2, <2>3, <2>4 DEF Settled
  <1>4. CASE /\ s'.finish = s.finish /\ s.cancel # "resolved"
             /\ s'.cancel \in {"pending", "resolved"}
             /\ s'.start = s.start \/ (s.start = "pending" /\ s'.start = "rejected")
    <2>1. Service!Cancels <=>
            /\ ServiceCalls.cancel # "resolved"
            /\ \E st \in {ServiceCalls.start, "rejected"}, ca \in {"pending", "resolved"} :
                 /\ st # ServiceCalls.start => ServiceCalls.start = "pending"
                 /\ ServiceCalls' = [ServiceCalls EXCEPT !.start = st, !.cancel = ca]
      BY DEF ServiceCalls, CallsAre, Service!Cancels
    <2>2. ServiceCalls.start = s.start /\ ServiceCalls.cancel = s.cancel
      BY CallsRead DEF ServiceCalls
    <2>3. [ServiceCalls EXCEPT !["start"] = s'.start] = CallsAre(s'.start, s.finish, s.cancel)
      BY StartReplaced DEF ServiceCalls
    <2>4. [CallsAre(s'.start, s.finish, s.cancel) EXCEPT !["cancel"] = s'.cancel]
            = CallsAre(s'.start, s.finish, s'.cancel)
      BY CancelReplaced
    <2>5. [ServiceCalls EXCEPT !.start = s'.start, !.cancel = s'.cancel]
            = CallsAre(s'.start, s.finish, s'.cancel)
      BY <2>3, <2>4, Zenon
    <2>6. ServiceCalls' = [ServiceCalls EXCEPT !.start = s'.start, !.cancel = s'.cancel]
      BY <1>1, <1>4, <2>5
    <2> QED BY <1>4, <2>1, <2>2, <2>6
  <1> QED
    BY <1>2, <1>3, <1>4 DEF OneCall

LEMMA ServiceMoves ==
  ASSUME Events(s.events, s.closed), s.closed \in BOOLEAN, s'.closed \in BOOLEAN,
         Moves(s, s')
  PROVE  Service!Next
  <1>1. Service!Settles("start") \/ Service!Settles("finish") \/ Service!Cancels
    BY ServiceSettles DEF Moves
  <1>2. Events(s'.events, s'.closed)
    BY EventsFollow DEF Moves
  <1>3. IF s.closed THEN UNCHANGED <<s.events, s.closed>>
        ELSE /\ Service!Pushes \/ UNCHANGED s.events
             /\ s'.closed \in BOOLEAN
             /\ s'.closed \/ s'.events = <<>> \/ s'.events[Len(s'.events)] \notin Service!Terminal
    <2>1. CASE Quiet(s, s')
      BY <1>2, <2>1 DEF Quiet, Events, Open
    <2>2. CASE ~Quiet(s, s')
      <3>1. ~s.closed /\ Open(s.events)
        BY <2>2 DEF Moves, OneEvent, Says, Ends, Events
      <3>2. Service!Pushes
        BY <2>2, <3>1
        DEF Moves, OneEvent, Says, Ends, Open, Service!Pushes, Service!Follows, Service!Kinds
      <3> QED
        BY <1>2, <3>1, <3>2 DEF Events, Open
    <2> QED BY <2>1, <2>2
  <1> QED
    BY <1>1, <1>3 DEF Service!Next

-------------------------------------------------------------------------------
(***************************************************************************)
(* The operations, from a session r to the session q they leave.           *)
(***************************************************************************)
Kept(q, p) == Fields(q) /\ Told(q) /\ ByProtocol(q, p) /\ q.start # "idle"

Goes(r, q, p) == Kept(q, p) /\ Moves(r, q) /\ (q.handshake => r.handshake)

LEMMA StartKeeps ==
  ASSUME ToldInv, NEW aborted \in BOOLEAN, Start(aborted)
  PROVE  Kept(s', protocol) /\ Moves(s, s')
  <1>0. s = New /\ protocol \in {"tencent", "duplex", "qwen", "openai"}
    BY Known DEF ToldInv, Untouched, Start, Aliyun
  <1>1. CASE protocol = "tencent" /\ aborted
    <2>1. s' = [TencentCancel(s) EXCEPT !.start = "rejected"]
      BY <1>1 DEF Start
    <2> DEFINE q == [clearTimers(New) EXCEPT !.cancelled = TRUE, !.handshake = FALSE]
    <2>2. TencentCancel(s) = closeQueue([q EXCEPT !.waits = {}])
      BY <1>0 DEF New, TencentCancel, closeSocket, Resumed, Settle, clearTimers
    <2>3. /\ DOMAIN s' = DOMAIN New /\ s'.start = "rejected" /\ s'.cancelled = TRUE
          /\ s'.closed = TRUE /\ s'.waits = {} /\ s'.handshake = FALSE
          /\ s'.write = "idle" /\ s'.finish = "idle" /\ s'.cancel = "idle" /\ s'.socket = "none"
          /\ s'.finishRequested = FALSE /\ s'.end = FALSE /\ s'.done = "no"
          /\ s'.turn = "started" /\ s'.packets = 0 /\ s'.sent = 0 /\ s'.buffer = 0
          /\ s'.events = <<>> /\ s'.attempt = 1
      BY <2>1, <2>2 DEF New, clearTimers, closeQueue
    <2>4. s.start = "idle" /\ s.finish = "idle" /\ s.cancel = "idle" /\ s.events = <<>>
      BY <1>0 DEF New
    <2>5. Fields(s')
      <3>1. /\ s'.start \in Calls /\ s'.write \in Calls /\ s'.finish \in Calls
            /\ s'.cancel \in Calls
        BY <2>3 DEF Calls
      <3>2. /\ s'.socket \in {"none", "connecting", "open", "closing", "closed"}
            /\ s'.done \in {"no", "failed", "completed"} /\ s'.waits \subseteq Waits
            /\ s'.turn \in {"started", "recorded", "request", "backoff", "over"}
        BY <2>3
      <3>3. /\ s'.handshake \in BOOLEAN /\ s'.cancelled \in BOOLEAN /\ s'.closed \in BOOLEAN
            /\ s'.finishRequested \in BOOLEAN /\ s'.end \in BOOLEAN
        BY <2>3
      <3>4. s'.packets \in Nat /\ s'.sent \in Nat /\ s'.buffer \in Nat
            /\ s'.attempt \in {1, 2}
        BY <2>3
      <3> QED BY <2>3, <3>1, <3>2, <3>3, <3>4 DEF Fields
    <2>6. Told(s') /\ ByProtocol(s', protocol) /\ s'.start # "idle"
      BY <1>1, <2>3 DEF Told, ByProtocol, Aliyun
    <2> QED
      BY <2>3, <2>4, <2>5, <2>6 DEF Kept, Moves, OneCall, OneEvent, Settled, Quiet
  <1>2. CASE protocol \in Aliyun /\ aborted
    <2>1. s' = [New EXCEPT !.start = "rejected"]
      BY <1>0, <1>2 DEF Start, Aliyun
    <2> QED
      BY <1>0, <1>2, <2>1
      DEF Kept, Fields, Told, ByProtocol, Moves, OneCall, OneEvent, Settled, Quiet,
          New, Calls, Aliyun
  <1>3. CASE protocol = "openai"
    <2>1. s' = [(IF aborted THEN OpenAiCancel(New) ELSE New) EXCEPT !.start = "resolved"]
      BY <1>0, <1>3 DEF Start
    <2> QED
      BY <1>0, <1>3, <2>1
      DEF Kept, Fields, Told, ByProtocol, Moves, OneCall, OneEvent, Settled, Quiet,
          New, Calls, Aliyun, OpenAiCancel
  <1>4. CASE protocol # "openai" /\ ~aborted
    <2>1. s' = Connecting(New)
      BY <1>0, <1>4 DEF Start
    <2> QED
      BY <1>0, <1>4, <2>1
      DEF Kept, Fields, Told, ByProtocol, Moves, OneCall, OneEvent, Settled, Quiet,
          New, Calls, Aliyun, Connecting
  <1> QED
    BY <1>0, <1>1, <1>2, <1>3, <1>4 DEF Aliyun

\* What the audio has no part in.
Alike(r, q) ==
  /\ q.start = r.start /\ q.cancel = r.cancel /\ q.socket = r.socket
  /\ q.handshake = r.handshake /\ q.handshakeTimer = r.handshakeTimer
  /\ q.cancelled = r.cancelled /\ q.done = r.done /\ q.waits = r.waits
  /\ q.turn = r.turn /\ q.events = r.events /\ q.closed = r.closed

LEMMA AudioKeeps ==
  ASSUME NEW r, NEW q, NEW p, Fields(q), Told(r), ByProtocol(r, p), r.start # "idle",
         Alike(r, q), Settled(r.finish, q.finish), q.finish # "idle" => q.finishRequested,
         p = "openai" => q.write # "pending" /\ q.finish # "pending" /\ ~q.finalTimer
  PROVE  Goes(r, q, p)
  <1>1. Told(q)
    BY DEF Told, Alike
  <1>2. ByProtocol(q, p)
    BY DEF ByProtocol, Alike
  <1>3. Moves(r, q)
    BY DEF Moves, OneCall, OneEvent, Quiet, Alike
  <1> QED
    BY <1>1, <1>2, <1>3 DEF Goes, Kept, Alike

LEMMA SendsWell ==
  ASSUME NEW r, Fields(r), r.packets > 0
  PROVE  /\ Fields(Sends(r)) /\ Alike(r, Sends(r))
         /\ Sends(r).finish = r.finish /\ Sends(r).finishRequested = r.finishRequested
         /\ Sends(r).write = r.write
  <1>0. r.packets - 1 \in Nat /\ r.sent + Packet \in Nat /\ r.sent + r.packets \in Nat
        /\ r.sent + r.buffer \in Nat
    BY Sizes DEF Fields
  <1>1. CASE r.write = "pending" /\ protocol = "tencent"
    <2>1. Sends(r) = [r EXCEPT !.sent = @ + Packet, !.packets = @ - 1]
      BY <1>1 DEF Sends
    <2> QED BY <1>0, <2>1 DEF Fields, Alike, New
  <1>2. CASE r.write = "pending" /\ protocol # "tencent"
    <2>1. Sends(r) = [r EXCEPT !.sent = @ + r.packets, !.packets = 0]
      BY <1>2 DEF Sends
    <2> QED BY <1>0, <2>1 DEF Fields, Alike, New
  <1>3. CASE r.write # "pending"
    <2>1. Sends(r) = [r EXCEPT !.sent = @ + r.buffer, !.packets = @ - 1, !.buffer = 0]
      BY <1>3 DEF Sends
    <2> QED BY <1>0, <2>1 DEF Fields, Alike, New
  <1> QED
    BY <1>1, <1>2, <1>3

LEMMA WriteKeeps ==
  ASSUME ToldInv, Write
  PROVE  Goes(s, s', protocol)
  <1>0. /\ s.start # "idle" /\ s.write = "pending" /\ Fields(s)
        /\ Told(s) /\ ByProtocol(s, protocol)
    BY DEF ToldInv, Untouched, New, Write
  <1>1. /\ Fields(s') /\ Alike(s, s') /\ s'.finish = s.finish
        /\ s'.finishRequested = s.finishRequested
    <2>1. CASE s.packets > 0 /\ s' = Sends(s)
      BY <1>0, <2>1, SendsWell
    <2>2. CASE s' = [s EXCEPT !.write = "resolved"] \/ s' = [s EXCEPT !.write = "rejected"]
      BY <1>0, <2>2 DEF Fields, Alike, New, Calls
    <2> QED
      BY <2>1, <2>2 DEF Write
  <1>2. protocol # "openai"
    BY <1>0 DEF ByProtocol
  <1> QED
    BY <1>0, <1>1, <1>2, AudioKeeps DEF Settled, Told

LEMMA FinishKeeps ==
  ASSUME ToldInv, Finish
  PROVE  Goes(s, s', protocol)
  <1>0. /\ s.start # "idle" /\ s.finish = "pending" /\ Fields(s)
        /\ Told(s) /\ ByProtocol(s, protocol)
    BY DEF ToldInv, Untouched, New, Finish
  <1>1. /\ Fields(s') /\ Alike(s, s') /\ s'.finish \in {"pending", "resolved", "rejected"}
        /\ s'.finishRequested = s.finishRequested
    <2>1. CASE s.packets > 0 /\ s' = Sends(s)
      BY <1>0, <2>1, SendsWell
    <2>2. CASE s' = [s EXCEPT !.end = TRUE] \/ s' = [s EXCEPT !.finish = "rejected"]
      BY <1>0, <2>2 DEF Fields, Alike, New, Calls
    <2>3. CASE s' = Finished(s)
      BY <1>0, <2>3 DEF Finished, Fields, Alike, New, Calls
    <2> QED
      BY <2>1, <2>2, <2>3 DEF Finish
  <1>2. protocol # "openai"
    BY <1>0 DEF ByProtocol
  <1> QED
    BY <1>0, <1>1, <1>2, AudioKeeps DEF Settled, Told

LEMMA FinishCallKeeps ==
  ASSUME ToldInv, finish
  PROVE  Goes(s, s', protocol)
  <1>0. /\ s.start # "idle" /\ ~s.finishRequested /\ Fields(s)
        /\ Told(s) /\ ByProtocol(s, protocol) /\ protocol \in Aliyun \cup {"tencent", "openai"}
    BY Known DEF ToldInv, finish
  <1>1. s.finish = "idle"
    BY <1>0 DEF Told
  <1>2. CASE protocol = "openai"
    <2>1. s' = [s EXCEPT !.finishRequested = TRUE, !.finish = "resolved"]
      BY <1>2 DEF finish
    <2>2. Fields(s') /\ Alike(s, s') /\ s'.finish = "resolved" /\ s'.finishRequested
          /\ s'.write = s.write /\ s'.finalTimer = s.finalTimer
      BY <1>0, <2>1 DEF Fields, Alike, New, Calls
    <2> QED
      BY <1>0, <1>1, <2>2, AudioKeeps DEF Settled, ByProtocol
  <1>3. CASE protocol # "openai"
    <2>1. \E n \in Nat :
            \/ s' = [s EXCEPT !.finishRequested = TRUE, !.finish = "pending"]
            \/ s' = [s EXCEPT !.finishRequested = TRUE, !.finish = "pending", !.packets = n]
      BY <1>0, <1>3 DEF finish, flush, Aliyun
    <2>2. Fields(s') /\ Alike(s, s') /\ s'.finish = "pending" /\ s'.finishRequested
      BY <1>0, <2>1 DEF Fields, Alike, New, Calls
    <2> QED
      BY <1>0, <1>1, <1>3, <2>2, AudioKeeps DEF Settled
  <1> QED
    BY <1>2, <1>3

LEMMA AudioCallKeeps ==
  ASSUME ToldInv, NEW size \in FrameSizes, writeAudio(size)
  PROVE  Goes(s, s', protocol)
  <1>0. /\ s.start # "idle" /\ Fields(s) /\ Told(s) /\ ByProtocol(s, protocol)
        /\ protocol \in Aliyun \cup {"tencent", "openai"}
    BY Known DEF ToldInv, writeAudio
  <1>1. s.buffer + size \in Nat /\ size \in Nat
    BY <1>0, FrameSizesKnown DEF Fields
  <1>2. (s.buffer + size) \div Packet \in Nat /\ (s.buffer + size) % Packet \in Nat
    BY <1>1, Sizes
  <1>3. /\ Fields(s') /\ Alike(s, s') /\ s'.finish = s.finish
        /\ s'.finishRequested = s.finishRequested /\ s'.finalTimer = s.finalTimer
        /\ protocol = "openai" => s'.write # "pending"
    <2>1. CASE s' = s
      BY <1>0, <2>1 DEF Fields, Alike, ByProtocol
    <2>2. CASE protocol = "tencent" /\ s' # s
      <3>1. s' = [s EXCEPT !.write = "pending", !.packets = (s.buffer + size) \div Packet,
                           !.buffer = (s.buffer + size) % Packet]
        BY <2>2 DEF writeAudio
      <3> QED BY <1>0, <1>2, <2>2, <3>1 DEF Fields, Alike, New, Calls
    <2>3. CASE protocol = "openai" /\ s' # s
      <3>1. s' = [s EXCEPT !.write = "rejected"] \/ s' = [s EXCEPT !.buffer = s.buffer + size]
        BY <2>3 DEF writeAudio
      <3> QED BY <1>0, <1>1, <2>3, <3>1 DEF Fields, Alike, New, Calls, ByProtocol
    <2>4. CASE protocol \in Aliyun /\ s' # s
      <3>1. s' = [s EXCEPT !.write = "pending", !.packets = size]
        BY <2>4 DEF writeAudio, Aliyun
      <3> QED BY <1>0, <1>1, <2>4, <3>1 DEF Fields, Alike,
          New, Calls, Aliyun
    <2> QED
      BY <1>0, <2>1, <2>2, <2>3, <2>4
  <1>4. s'.finish # "idle" => s'.finishRequested
    BY <1>0, <1>3 DEF Told
  <1>5. protocol = "openai" => s'.finish # "pending" /\ ~s'.finalTimer
    BY <1>0, <1>3 DEF ByProtocol
  <1> QED
    BY <1>0, <1>3, <1>4, <1>5, AudioKeeps DEF Settled

-------------------------------------------------------------------------------
(***************************************************************************)
(* The socket, its timers and the service.                                 *)
(***************************************************************************)
\* A session that is told nothing.
Steady(r, q) ==
  /\ q.start = r.start /\ q.finish = r.finish /\ q.cancel = r.cancel
  /\ q.finishRequested = r.finishRequested
  /\ q.handshake = r.handshake /\ q.cancelled = r.cancelled /\ q.done = r.done
  /\ q.waits = r.waits /\ q.events = r.events /\ q.closed = r.closed
  /\ q.write = r.write /\ q.turn = r.turn
  /\ r.socket = "none" <=> q.socket = "none"

LEMMA SteadyKeeps ==
  ASSUME NEW r, NEW q, NEW p, Fields(q), Told(r), ByProtocol(r, p), Steady(r, q),
         r.start # "idle", p # "openai"
  PROVE  Goes(r, q, p)
  <1>1. Told(q)
    BY DEF Told, Steady
  <1>2. ByProtocol(q, p)
    BY DEF ByProtocol, Steady
  <1>3. Moves(r, q)
    BY DEF Moves, OneCall, OneEvent, Quiet, Settled, Steady
  <1> QED
    BY <1>1, <1>2, <1>3 DEF Goes, Kept, Steady

LEMMA SocketKeeps ==
  ASSUME ToldInv, SocketOpens \/ SocketCloses
  PROVE  Goes(s, s', protocol)
  <1>1. Fields(s) /\ Told(s) /\ ByProtocol(s, protocol) /\ s.start # "idle" /\ s.socket # "none"
    BY DEF ToldInv, Untouched, New, SocketOpens, SocketCloses
  <1>2. s' = [s EXCEPT !.socket = "open"] \/ s' = [s EXCEPT !.socket = "closed"]
    BY DEF SocketOpens, SocketCloses
  <1>3. Fields(s') /\ Steady(s, s')
    BY <1>1, <1>2 DEF Fields, Steady, New
  <1>4. protocol # "openai"
    BY <1>1 DEF ByProtocol
  <1> QED
    BY <1>1, <1>3, <1>4, SteadyKeeps

\* Tencent's sessions.
Tencent(r) ==
  /\ Fields(r) /\ Told(r) /\ ByProtocol(r, "tencent") /\ r.start # "idle"
  /\ Events(r.events, r.closed)

\* What only the audio and the calls change.
Body(r, q) ==
  /\ DOMAIN q = DOMAIN New
  /\ q.write = r.write /\ q.finish = r.finish /\ q.finishRequested = r.finishRequested
  /\ q.end = r.end /\ q.turn = r.turn /\ q.attempt = r.attempt
  /\ q.packets = r.packets /\ q.sent = r.sent /\ q.buffer = r.buffer

Flags(r, q) ==
  /\ q.handshake = r.handshake /\ q.cancelled = r.cancelled /\ q.done = r.done
  /\ q.socket = r.socket

ResumedAs(r, q, w) ==
  /\ Body(r, q) /\ Flags(r, q) /\ q.waits = r.waits \ {w}
  /\ w = "cancel" \/ w = "cancel after completion" =>
       /\ q.events = r.events /\ q.start = r.start
       /\ q.cancel = IF r.cancel = "pending" THEN "resolved" ELSE r.cancel
       /\ q.closed = IF w = "cancel" THEN TRUE ELSE r.closed
  /\ w = "failed handshake" =>
       /\ q.events = r.events /\ q.cancel = r.cancel /\ q.closed = TRUE
       /\ q.start = IF r.start = "pending" THEN "rejected" ELSE r.start
  /\ w = "error" \/ w = "completion" =>
       /\ q.start = r.start /\ q.cancel = r.cancel /\ q.closed = TRUE
       /\ q.events = IF r.closed THEN r.events
                      ELSE Append(r.events, IF w = "error" THEN "error" ELSE "completed")

LEMMA ResumedIs ==
  ASSUME NEW r, Fields(r), NEW w \in Waits
  PROVE  ResumedAs(r, Resumed(r, w), w)
  <1>1. CASE w = "cancel"
    BY <1>1 DEF ResumedAs, Resumed, closeQueue, Settle, Fields, Body, Flags, New
  <1>2. CASE w = "cancel after completion"
    BY <1>2 DEF ResumedAs, Resumed, closeQueue, Settle, Fields, Body, Flags, New
  <1>3. CASE w = "failed handshake"
    BY <1>3 DEF ResumedAs, Resumed, closeQueue, Settle, Fields, Body, Flags, New
  <1>4. CASE w = "error"
    BY <1>4 DEF ResumedAs, Resumed, closeQueue, push, Fields, Body, Flags, New
  <1>5. CASE w = "completion"
    BY <1>5 DEF ResumedAs, Resumed, closeQueue, Complete, push, Fields, Body, Flags, New
  <1> QED
    BY <1>1, <1>2, <1>3, <1>4, <1>5 DEF Waits

LEMMA ResumedKeeps ==
  ASSUME NEW r, Tencent(r), NEW w \in Waits,
         w = "completion" => r.events # <<>>, r.done # "no" \/ r.cancelled
  PROVE  Goes(r, Resumed(r, w), "tencent") /\ Flags(r, Resumed(r, w))
  <1>1. PICK q : q = Resumed(r, w)
    OBVIOUS
  <1>2. Fields(r) /\ Told(r) /\ ByProtocol(r, "tencent") /\ r.start # "idle"
    BY DEF Tencent
  <1>0. ResumedAs(r, q, w)
    BY <1>1, <1>2, ResumedIs
  <1>3. Body(r, q) /\ Flags(r, q) /\ q.waits = r.waits \ {w}
    BY <1>0 DEF ResumedAs
  <1>4. \/ /\ q.events = r.events /\ q.start = r.start /\ q.closed \in {r.closed, TRUE}
           /\ q.cancel = IF r.cancel = "pending" THEN "resolved" ELSE r.cancel
        \/ /\ q.events = r.events /\ q.cancel = r.cancel /\ q.closed = TRUE
           /\ q.start = IF r.start = "pending" THEN "rejected" ELSE r.start
        \/ /\ q.start = r.start /\ q.cancel = r.cancel /\ q.closed = TRUE
           /\ \/ q.events = r.events
              \/ ~r.closed /\ q.events = Append(r.events, "error")
              \/ ~r.closed /\ q.events = Append(r.events, "completed") /\ r.events # <<>>
    BY <1>0, <1>2 DEF ResumedAs, Waits, Fields
  <1>5. Moves(r, q)
    BY <1>3, <1>4 DEF Body, Moves, OneCall, OneEvent, Settled, Quiet, Ends
  <1>6. q.events # r.events => q.events # <<>>
    BY <1>2, <1>5, EventsFollow DEF Tencent, Moves, Fields
  <1>7. Fields(q) /\ q.start # "idle"
    BY <1>2, <1>3, <1>4 DEF Fields, Body, Flags, Calls
  <1>8. Told(q)
    BY <1>2, <1>3, <1>6 DEF Told, Body, Flags
  <1>9. ByProtocol(q, "tencent")
    BY <1>2, <1>3, <1>4 DEF ByProtocol, Body, Flags, Aliyun
  <1> QED
    BY <1>1, <1>3, <1>5, <1>7, <1>8, <1>9 DEF Goes, Kept, Flags

LEMMA closeSocketKeeps ==
  ASSUME NEW r, Tencent(r), NEW w \in Waits, r.done # "no" \/ r.cancelled,
         w = "completion" => r.events # <<>> /\ r.done # "no"
  PROVE  Goes(r, closeSocket(r, w), "tencent")
  <1>1. CASE r.socket \in {"none", "closed"}
    BY <1>1, ResumedKeeps DEF closeSocket
  <1>2. CASE r.socket \notin {"none", "closed"}
    <2>1. PICK q : q = closeSocket(r, w)
      OBVIOUS
    <2>2. q = [r EXCEPT !.socket = "closing", !.waits = @ \cup {w}]
      BY <1>2, <2>1 DEF closeSocket
    <2>3. /\ Body(r, q) /\ q.waits = r.waits \cup {w} /\ q.socket = "closing"
          /\ q.start = r.start /\ q.cancel = r.cancel
          /\ q.events = r.events /\ q.closed = r.closed
          /\ q.handshake = r.handshake /\ q.cancelled = r.cancelled /\ q.done = r.done
      BY <2>2 DEF Tencent, Fields, Body, New
    <2>4. Fields(r) /\ Told(r) /\ ByProtocol(r, "tencent") /\ r.start # "idle"
      BY DEF Tencent
    <2>5. Fields(q)
      BY <2>3, <2>4 DEF Fields, Body
    <2>6. Told(q)
      BY <2>3, <2>4 DEF Told, Body
    <2>7. ByProtocol(q, "tencent")
      BY <2>3, <2>4 DEF ByProtocol, Body, Aliyun
    <2>8. Moves(r, q)
      BY <2>3 DEF Moves, OneCall, OneEvent, Settled, Quiet, Body
    <2> QED
      BY <2>1, <2>3, <2>4, <2>5, <2>6, <2>7, <2>8 DEF Goes, Kept
  <1> QED
    BY <1>1, <1>2

\* A session that learns how it ends, before it closes its socket.
Decided(r, q) ==
  /\ Body(r, q) /\ q.waits = r.waits /\ q.socket = r.socket
  /\ q.start = r.start /\ q.cancel = r.cancel
  /\ q.events = r.events /\ q.closed = r.closed
  /\ q.cancelled = r.cancelled /\ r.done = "no" /\ q.done \in {"failed", "completed"}
  /\ q.handshake = FALSE

LEMMA DecidedKeeps ==
  ASSUME NEW r, Tencent(r), NEW q, Decided(r, q), NEW w \in Waits,
         w = "completion" => r.events # <<>>
  PROVE  Goes(r, closeSocket(q, w), "tencent") /\ ~closeSocket(q, w).handshake
  <1>1. Tencent(q) /\ q.done # "no"
    <2>1. Fields(q)
      BY DEF Tencent, Decided, Body, Fields
    <2>2. Told(q)
      BY DEF Tencent, Decided, Body, Told
    <2>3. ByProtocol(q, "tencent")
      BY DEF Tencent, Decided, Body, ByProtocol, Aliyun
    <2> QED
      BY <2>1, <2>2, <2>3 DEF Tencent, Decided
  <1>2. Goes(q, closeSocket(q, w), "tencent")
    BY <1>1, closeSocketKeeps DEF Decided
  <1> QED
    BY <1>2 DEF Goes, Decided, Body, Moves, OneCall, OneEvent, Quiet, Says, Ends

LEMMA TencentFailsKeeps ==
  ASSUME NEW r, Tencent(r)
  PROVE  Goes(r, TencentFails(r), "tencent") /\ ~TencentFails(r).handshake
  <1>1. CASE ~r.handshake /\ (r.done # "no" \/ r.cancelled)
    <2>0. TencentFails(r) = r
      BY <1>1 DEF TencentFails, emitError
    <2>1. Moves(r, r)
      BY DEF Moves, OneCall, OneEvent, Settled, Quiet
    <2> QED
      BY <1>1, <2>0, <2>1 DEF Goes, Kept, Tencent
  <1>2. CASE r.handshake
    <2>1. PICK q : q = [clearTimers(r) EXCEPT !.done = "failed", !.handshake = FALSE]
      OBVIOUS
    <2>2. r.done = "no"
      BY <1>2 DEF Tencent, Told
    <2>3. Decided(r, q)
      BY <2>1, <2>2 DEF Decided, Body, Tencent, Fields, New, clearTimers
    <2>4. TencentFails(r) = closeSocket(q, "failed handshake")
      BY <1>2, <2>1, <2>2 DEF TencentFails, failHandshake
    <2> QED
      BY <2>3, <2>4, DecidedKeeps DEF Waits
  <1>3. CASE ~r.handshake /\ r.done = "no" /\ ~r.cancelled
    <2>1. PICK q : q = [clearTimers(r) EXCEPT !.done = "failed"]
      OBVIOUS
    <2>2. r.done = "no" /\ TencentFails(r) = closeSocket(q, "error")
      BY <1>3, <2>1 DEF TencentFails, emitError
    <2>3. Decided(r, q)
      BY <1>3, <2>1, <2>2 DEF Decided, Body, Tencent, Fields, New, clearTimers
    <2> QED
      BY <2>2, <2>3, DecidedKeeps DEF Waits
  <1> QED
    BY <1>1, <1>2, <1>3

\* cancel() rejects a start() that waits, and may be answered at once.
Cancelled(q, n) ==
  /\ n.start = q.start /\ n.finish = q.finish /\ n.events = q.events
  /\ n.cancel \in {"pending", "resolved"} /\ n.closed \in {q.closed, TRUE}

LEMMA closeSocketCancels ==
  ASSUME NEW q, Fields(q), q.cancel = "pending",
         NEW w \in {"cancel", "cancel after completion"}
  PROVE  Cancelled(q, closeSocket(q, w))
  <1>1. CASE q.socket \in {"none", "closed"}
    <2>1. ResumedAs(q, Resumed(q, w), w)
      BY ResumedIs DEF Waits
    <2> QED
      BY <1>1, <2>1 DEF ResumedAs, Cancelled, Body, closeSocket
  <1>2. CASE q.socket \notin {"none", "closed"}
    BY <1>2 DEF closeSocket, Cancelled, Fields, New
  <1> QED
    BY <1>1, <1>2

LEMMA TencentCancelKeeps ==
  ASSUME NEW r, Tencent(r), r.cancel = "idle"
  PROVE  Goes(r, TencentCancel([r EXCEPT !.cancel = "pending"]), "tencent")
  <1>0. Fields(r) /\ Told(r) /\ ByProtocol(r, "tencent") /\ r.start # "idle"
    BY DEF Tencent
  <1>1. PICK k : k = [r EXCEPT !.cancel = "pending"]
    OBVIOUS
  <1>2. PICK n : n = TencentCancel(k)
    OBVIOUS
  <1>3. /\ Body(r, k) /\ Flags(r, k) /\ k.waits = r.waits /\ k.start = r.start
        /\ k.cancel = "pending" /\ k.events = r.events /\ k.closed = r.closed
    BY <1>0, <1>1 DEF Body, Flags, Fields, New
  <1>4. PICK q : q = IF r.done = "completed" THEN k
                     ELSE [clearTimers(IF k.handshake THEN Settle(k, "start", "rejected") ELSE k)
                             EXCEPT !.cancelled = TRUE, !.handshake = FALSE]
    OBVIOUS
  <1>5. PICK w \in {"cancel", "cancel after completion"} :
          w = IF r.done = "completed" THEN "cancel after completion" ELSE "cancel"
    OBVIOUS
  <1>6. n = closeSocket(q, w)
    BY <1>2, <1>3, <1>4, <1>5 DEF TencentCancel, Flags
  <1>7. /\ Body(r, q) /\ q.socket = r.socket /\ q.waits = r.waits /\ q.done = r.done
        /\ q.cancel = "pending" /\ q.events = r.events /\ q.closed = r.closed
        /\ q.start = r.start \/ (r.start = "pending" /\ q.start = "rejected")
        /\ IF r.done = "completed" THEN q.cancelled = r.cancelled /\ q.handshake = r.handshake
           ELSE q.cancelled = TRUE /\ q.handshake = FALSE
    <2>1. CASE r.done = "completed"
      BY <1>3, <1>4, <2>1 DEF Flags
    <2>2. CASE r.done # "completed" /\ k.handshake /\ k.start = "pending"
      BY <1>0, <1>3, <1>4, <2>2 DEF Flags, Body, Settle, clearTimers, New, Fields
    <2>3. CASE r.done # "completed" /\ ~(k.handshake /\ k.start = "pending")
      BY <1>0, <1>3, <1>4, <2>3 DEF Flags, Body, Settle, clearTimers, New, Fields
    <2> QED
      BY <2>1, <2>2, <2>3
  <1>8. Tencent(q) /\ (q.done # "no" \/ q.cancelled)
    <2>1. Fields(q) /\ q.start # "idle"
      BY <1>0, <1>7 DEF Fields, Body, Calls
    <2>2. Told(q)
      BY <1>0, <1>7 DEF Told, Body
    <2>3. ByProtocol(q, "tencent")
      BY <1>0, <1>7 DEF ByProtocol, Body, Aliyun
    <2> QED
      BY <1>7, <2>1, <2>2, <2>3 DEF Tencent
  <1>9. Goes(q, n, "tencent")
    BY <1>6, <1>8, closeSocketKeeps DEF Waits
  <1>10. Cancelled(q, n)
    BY <1>6, <1>7, <1>8, closeSocketCancels DEF Tencent
  <1>11. Moves(r, n)
    BY <1>0, <1>7, <1>10 DEF Moves, OneCall, OneEvent, Quiet, Cancelled, Body
  <1> QED
    BY <1>1, <1>2, <1>7, <1>9, <1>11 DEF Goes

LEMMA TencentCompletedKeeps ==
  ASSUME NEW r, Tencent(r), r.socket # "none", ~r.handshake, r.done = "no", ~r.cancelled
  PROVE  Goes(r, TencentCompleted(r), "tencent")
  <1>0. r.events # <<>>
    BY DEF Tencent, Told
  <1>1. CASE r.final \cup r.guess = {}
    <2>1. TencentCompleted(r) = TencentFails(r)
      BY <1>1 DEF TencentCompleted, TencentFails
    <2> QED
      BY <2>1, TencentFailsKeeps
  <1>2. CASE r.final \cup r.guess # {}
    <2>1. PICK q : q = [clearTimers(r) EXCEPT !.done = "completed"]
      OBVIOUS
    <2>2. TencentCompleted(r) = closeSocket(q, "completion")
      BY <1>2, <2>1 DEF TencentCompleted
    <2>3. Decided(r, q)
      BY <2>1 DEF Decided, Body, Tencent, Fields, New, clearTimers
    <2> QED
      BY <1>0, <2>2, <2>3, DecidedKeeps DEF Waits
  <1> QED
    BY <1>1, <1>2

\* A message that announces an event.
Announces(r, q, kind) ==
  /\ Body(r, q) /\ q.waits = r.waits /\ q.socket = r.socket /\ q.cancelled = r.cancelled
  /\ q.done = r.done /\ q.cancel = r.cancel /\ q.closed = r.closed /\ q.handshake = FALSE
  /\ Settled(r.start, q.start) /\ q.start # "idle" /\ q.start \in Calls
  /\ IF r.closed THEN q.events = r.events ELSE q.events = Append(r.events, kind)

LEMMA AnnouncesKeeps ==
  ASSUME NEW r, NEW p, Fields(r), Told(r), ByProtocol(r, p), Events(r.events, r.closed),
         p # "openai", NEW kind \in {"ready", "preview"}, NEW q, Announces(r, q, kind),
         kind = "ready" => r.handshake, kind = "preview" /\ ~r.closed => r.events # <<>>
  PROVE  Goes(r, q, p)
  <1>1. Moves(r, q)
    BY DEF Announces, Body, Moves, OneCall, OneEvent, Quiet, Says, Told
  <1>2. q.events = r.events \/ q.events # <<>>
    BY <1>1, EventsFollow DEF Moves, Fields
  <1>3. Fields(q)
    BY DEF Announces, Body, Fields
  <1>4. Told(q)
    BY <1>2 DEF Told, Announces, Body, ByProtocol, Aliyun
  <1>5. ByProtocol(q, p)
    BY DEF ByProtocol, Announces, Body, Aliyun
  <1> QED
    BY <1>1, <1>3, <1>4, <1>5 DEF Goes, Kept, Announces

\* What the service says to a session that listens comes in the order of its protocol.
LEMMA TencentMessageKeeps ==
  ASSUME NEW r, Tencent(r), r.socket # "none", NEW m \in Messages,
         m.type \in {"guess", "final", "finished"} => ~r.handshake
  PROVE  /\ Goes(r, TencentMessage(r, m), "tencent")
         /\ ~TencentMessage(r, m).handshake
  <1> DEFINE n == TencentMessage(r, m)
  <1>0. Fields(r) /\ Told(r) /\ ByProtocol(r, "tencent") /\ r.start # "idle"
        /\ Events(r.events, r.closed)
    BY DEF Tencent
  <1>1. CASE r.cancelled \/ r.done # "no"
    <2>1. n = r
      BY <1>1 DEF TencentMessage
    <2>2. Moves(r, r) /\ ~r.handshake
      BY <1>0, <1>1 DEF Moves, OneCall, OneEvent, Settled, Quiet, Told
    <2> QED
      BY <1>0, <2>1, <2>2 DEF Goes, Kept
  <1>2. CASE ~r.cancelled /\ r.done = "no" /\ m.type = "error"
    <2>1. n = TencentFails(r)
      BY <1>2 DEF TencentMessage
    <2> QED
      BY <2>1, TencentFailsKeeps
  <1>3. CASE ~r.cancelled /\ r.done = "no" /\ m.type = "started"
    <2>1. CASE ~r.handshake
      <3>1. n = r
        BY <1>3, <2>1 DEF TencentMessage
      <3>2. Moves(r, r)
        BY DEF Moves, OneCall, OneEvent, Settled, Quiet
      <3> QED
        BY <1>0, <2>1, <3>1, <3>2 DEF Goes, Kept
    <2>2. CASE r.handshake
      <3>1. n = push([Settle(r, "start", "resolved") EXCEPT !.handshake = FALSE,
                                                            !.handshakeTimer = FALSE], "ready")
        BY <1>3, <2>2 DEF TencentMessage
      <3>2. Announces(r, n, "ready")
        BY <1>0, <3>1 DEF Announces, Body, Settled, Settle, push, Fields, New, Calls
      <3> QED
        BY <1>0, <2>2, <3>2, AnnouncesKeeps DEF Announces
    <2> QED
      BY <2>1, <2>2
  <1>4. CASE ~r.cancelled /\ r.done = "no" /\ m.type \in {"guess", "final"}
    <2>1. ~r.handshake /\ r.events # <<>>
      BY <1>0, <1>4 DEF Told
    <2>2. \/ n = push([r EXCEPT !.guess = @ \cup {m.id}], "preview")
          \/ n = push([r EXCEPT !.guess = @ \ {m.id}, !.final = @ \cup {m.id}], "preview")
      BY <1>4, <2>1 DEF TencentMessage
    <2>3. Announces(r, n, "preview")
      <3>1. PICK q : /\ n = push(q, "preview")
                     /\ \/ q = [r EXCEPT !.guess = @ \cup {m.id}]
                        \/ q = [r EXCEPT !.guess = @ \ {m.id}, !.final = @ \cup {m.id}]
        BY <2>2
      <3>2. /\ Body(r, q) /\ Flags(r, q) /\ q.waits = r.waits /\ q.start = r.start
            /\ q.cancel = r.cancel /\ q.events = r.events /\ q.closed = r.closed
        BY <1>0, <3>1 DEF Body, Flags, Fields, New
      <3>3. \/ n = q /\ q.closed
            \/ n = [q EXCEPT !.events = Append(@, "preview")] /\ ~q.closed
        BY <3>1 DEF push
      <3>4. r.handshake = FALSE
        BY <1>0, <2>1 DEF Fields
      <3> QED
        BY <1>0, <3>2, <3>3, <3>4 DEF Announces, Body, Flags, Settled, Fields, New
    <2> QED
      BY <1>0, <2>1, <2>3, AnnouncesKeeps DEF Announces
  <1>5. CASE ~r.cancelled /\ r.done = "no" /\ m.type = "finished"
    <2>1. n = TencentCompleted(r) /\ ~r.handshake
      BY <1>5 DEF TencentMessage
    <2> QED
      BY <1>5, <2>1, TencentCompletedKeeps DEF Goes
  <1>6. m.type \in {"started", "finished", "error", "guess", "final"}
    BY DEF Messages
  <1> QED
    BY <1>1, <1>2, <1>3, <1>4, <1>5, <1>6

-------------------------------------------------------------------------------
(***************************************************************************)
(* Aliyun's two protocols: what ends a session closes its queue at once.   *)
(***************************************************************************)
Session(r, p) ==
  /\ Fields(r) /\ Told(r) /\ ByProtocol(r, p) /\ r.start # "idle"
  /\ Events(r.events, r.closed)

\* A session that learns how it ends, from r to q.
Parts(r, q) ==
  /\ Body(r, q) /\ q.waits = r.waits /\ q.cancel = r.cancel /\ q.closed = TRUE
  /\ q.handshake = FALSE /\ q.cancelled \in BOOLEAN /\ q.done \in {"no", "failed", "completed"}
  /\ q.cancelled \/ q.done # "no"
  /\ q.socket \in {"none", "connecting", "open", "closing", "closed"}
  /\ q.start = r.start \/ (r.start = "pending" /\ q.start = "rejected")

Parted(r, q) ==
  \/ q.events = r.events
  \/ ~r.closed /\ q.events = Append(r.events, "error")
  \/ ~r.closed /\ q.events = Append(r.events, "completed") /\ r.events # <<>>

LEMMA PartsKeeps ==
  ASSUME NEW r, NEW p \in Aliyun, Session(r, p), NEW q, Parts(r, q), Parted(r, q)
  PROVE  Goes(r, q, p) /\ ~q.handshake
  <1>0. Fields(r) /\ Told(r) /\ ByProtocol(r, p) /\ r.start # "idle"
        /\ Events(r.events, r.closed)
    BY DEF Session
  <1>1. Moves(r, q)
    BY DEF Parts, Parted, Body, Moves, OneCall, OneEvent, Quiet, Ends, Settled
  <1>2. Fields(q) /\ q.start # "idle"
    BY <1>0 DEF Parts, Body, Fields, Calls
  <1>3. Told(q)
    BY <1>0 DEF Told, Parts, Body, ByProtocol, Aliyun
  <1>4. ByProtocol(q, p)
    BY <1>0 DEF ByProtocol, Parts, Body, Aliyun
  <1> QED
    BY <1>1, <1>2, <1>3, <1>4 DEF Goes, Kept, Parts

LEMMA LeaveIs ==
  ASSUME NEW r, Fields(r)
  PROVE  /\ Body(r, Leave(r)) /\ Leave(r).waits = r.waits /\ Leave(r).cancel = r.cancel
         /\ Leave(r).start = r.start /\ Leave(r).closed = r.closed
         /\ Leave(r).handshake = r.handshake /\ Leave(r).cancelled = r.cancelled
         /\ Leave(r).done = r.done /\ Leave(r).events = r.events
         /\ Leave(r).socket \in {"none", "connecting", "open", "closing", "closed"}
BY DEF Leave, Body, Fields, New

\* The start() that waits, and the flags, before the queue is closed.
LEMMA failKeeps ==
  ASSUME NEW r, NEW p \in Aliyun, Session(r, p)
  PROVE  Goes(r, fail(r), p) /\ ~fail(r).handshake
  <1>0. Fields(r) /\ Told(r) /\ ByProtocol(r, p) /\ r.start # "idle"
    BY DEF Session
  <1>1. CASE r.done # "no" \/ r.cancelled
    <2>1. fail(r) = r /\ ~r.handshake
      BY <1>0, <1>1 DEF fail, Told
    <2>2. Moves(r, r)
      BY DEF Moves, OneCall, OneEvent, Settled, Quiet
    <2> QED
      BY <1>0, <2>1, <2>2 DEF Goes, Kept
  <1>2. CASE ~(r.done # "no" \/ r.cancelled)
    <2>1. PICK k : k = IF r.handshake THEN Settle(r, "start", "rejected") ELSE r
      OBVIOUS
    <2>2. PICK q : q = closeQueue(push([clearTimers(k) EXCEPT !.done = "failed",
                                                              !.handshake = FALSE], "error"))
      OBVIOUS
    <2>3. fail(r) = Leave(q)
      BY <1>2, <2>1, <2>2 DEF fail
    <2>4. /\ Body(r, k) /\ Flags(r, k) /\ k.waits = r.waits /\ k.cancel = r.cancel
          /\ k.closed = r.closed /\ k.events = r.events
          /\ k.start = r.start \/ (r.start = "pending" /\ k.start = "rejected")
      BY <1>0, <2>1 DEF Settle, Body, Flags, Fields, New
    <2>5. /\ Body(k, q) /\ q.waits = k.waits /\ q.cancel = k.cancel /\ q.closed = TRUE
          /\ q.handshake = FALSE /\ q.cancelled = k.cancelled /\ q.done = "failed"
          /\ q.socket = k.socket /\ q.start = k.start
          /\ q.events = k.events \/ (~k.closed /\ q.events = Append(k.events, "error"))
      BY <2>2, <2>4 DEF closeQueue, push, clearTimers, Body, New
    <2>6. Fields(q)
      <3>1. Fields(k)
        BY <1>0, <2>4 DEF Fields, Body, Flags, Calls
      <3> QED
        BY <2>5, <3>1 DEF Fields, Body
    <2>7. Parts(r, Leave(q)) /\ Parted(r, Leave(q))
      BY <1>0, <2>4, <2>5, <2>6, LeaveIs DEF Parts, Parted, Body, Flags, Fields
    <2> QED
      BY <2>3, <2>7, PartsKeeps
  <1> QED
    BY <1>1, <1>2

LEMMA completeKeeps ==
  ASSUME NEW r, NEW p \in Aliyun, Session(r, p), ~r.handshake, r.socket # "none", NEW text
  PROVE  Goes(r, complete(r, text), p) /\ ~complete(r, text).handshake
  <1>0. Fields(r) /\ Told(r) /\ ByProtocol(r, p) /\ r.start # "idle"
    BY DEF Session
  <1>1. CASE r.done # "no" \/ r.cancelled
    <2>1. complete(r, text) = r
      BY <1>1 DEF complete
    <2>2. Moves(r, r)
      BY DEF Moves, OneCall, OneEvent, Settled, Quiet
    <2> QED
      BY <1>0, <2>1, <2>2 DEF Goes, Kept
  <1>2. CASE ~(r.done # "no" \/ r.cancelled)
    <2>1. PICK q : q = closeQueue(Complete([clearTimers(r) EXCEPT !.done = "completed"], text))
      OBVIOUS
    <2>2. complete(r, text) = Leave(q)
      BY <1>2, <2>1 DEF complete
    <2>3. r.events # <<>>
      BY <1>0, <1>2 DEF Told
    <2>4. /\ Body(r, q) /\ q.waits = r.waits /\ q.cancel = r.cancel /\ q.closed = TRUE
          /\ q.handshake = r.handshake /\ q.cancelled = r.cancelled /\ q.done = "completed"
          /\ q.socket = r.socket /\ q.start = r.start
          /\ q.events = r.events \/ (~r.closed /\ q.events = Append(r.events, "completed"))
      BY <1>0, <2>1 DEF closeQueue, Complete, push, clearTimers, Body, Fields, New
    <2>5. r.handshake = FALSE
      BY <1>0 DEF Fields
    <2>6. Fields(q)
      BY <1>0, <2>4 DEF Fields, Body
    <2>7. Parts(r, Leave(q)) /\ Parted(r, Leave(q))
      BY <1>0, <2>3, <2>4, <2>5, <2>6, LeaveIs DEF Parts, Parted, Body, Fields
    <2> QED
      BY <2>2, <2>7, PartsKeeps
  <1> QED
    BY <1>1, <1>2

\* The signal and cancel().
LEMMA AliyunCancelKeeps ==
  ASSUME NEW r, NEW p \in Aliyun, Session(r, p), r.cancel = "idle"
  PROVE  LET n == AliyunCancel([r EXCEPT !.cancel = "resolved"]) IN
         Goes(r, n, p)
  <1>0. Fields(r) /\ Told(r) /\ ByProtocol(r, p) /\ r.start # "idle"
    BY DEF Session
  <1>1. PICK c : c = [r EXCEPT !.cancel = "resolved"]
    OBVIOUS
  <1>2. PICK k : k = IF c.handshake THEN Settle(c, "start", "rejected") ELSE c
    OBVIOUS
  <1>3. PICK q : q = closeQueue([clearTimers(k) EXCEPT !.cancelled = TRUE, !.handshake = FALSE])
    OBVIOUS
  <1>4. AliyunCancel(c) = Leave(q)
    BY <1>2, <1>3 DEF AliyunCancel
  <1>5. /\ Body(r, c) /\ Flags(r, c) /\ c.waits = r.waits /\ c.cancel = "resolved"
        /\ c.closed = r.closed /\ c.events = r.events /\ c.start = r.start
    BY <1>0, <1>1 DEF Body, Flags, Fields, New
  <1>6. /\ Body(r, k) /\ Flags(r, k) /\ k.waits = r.waits /\ k.cancel = "resolved"
        /\ k.closed = r.closed /\ k.events = r.events
        /\ k.start = r.start \/ (r.start = "pending" /\ k.start = "rejected")
    BY <1>0, <1>2, <1>5 DEF Settle, Body, Flags, Fields, New
  <1>7. /\ Body(r, q) /\ q.waits = r.waits /\ q.cancel = "resolved" /\ q.closed = TRUE
        /\ q.handshake = FALSE /\ q.cancelled = TRUE /\ q.done = r.done
        /\ q.socket = r.socket /\ q.events = r.events
        /\ q.start = r.start \/ (r.start = "pending" /\ q.start = "rejected")
    BY <1>3, <1>6 DEF closeQueue, clearTimers, Body, Flags, New
  <1>8. Fields(q)
    BY <1>0, <1>7 DEF Fields, Body, Calls
  <1>9. PICK n : n = Leave(q)
    OBVIOUS
  <1>10. /\ Body(q, n) /\ n.waits = q.waits /\ n.cancel = q.cancel /\ n.closed = q.closed
         /\ n.handshake = q.handshake /\ n.cancelled = q.cancelled /\ n.done = q.done
         /\ n.events = q.events /\ n.start = q.start
         /\ n.socket \in {"none", "connecting", "open", "closing", "closed"}
    BY <1>8, <1>9, LeaveIs
  <1>11. Moves(r, n)
    BY <1>7, <1>10 DEF Moves, OneCall, OneEvent, Quiet, Body
  <1>12. Fields(n) /\ n.start # "idle"
    BY <1>0, <1>7, <1>8, <1>10 DEF Fields, Body
  <1>13. Told(n)
    BY <1>0, <1>7, <1>10 DEF Told, Body, ByProtocol, Aliyun
  <1>14. ByProtocol(n, p)
    BY <1>0, <1>7, <1>10 DEF ByProtocol, Body, Aliyun
  <1> QED
    BY <1>1, <1>4, <1>7, <1>9, <1>10, <1>11, <1>12, <1>13, <1>14 DEF Goes, Kept

\* What the service says; the queue of a session that ended drops it.
LEMMA markReadyKeeps ==
  ASSUME NEW r, NEW p \in Aliyun, Session(r, p)
  PROVE  Goes(r, markReady(r), p) /\ ~markReady(r).handshake
  <1>0. Fields(r) /\ Told(r) /\ ByProtocol(r, p) /\ r.start # "idle"
        /\ Events(r.events, r.closed) /\ p # "openai"
    BY DEF Session, Aliyun
  <1>1. CASE ~r.handshake
    <2>1. Moves(r, r)
      BY DEF Moves, OneCall, OneEvent, Settled, Quiet
    <2> QED
      BY <1>0, <1>1, <2>1 DEF Goes, Kept, markReady
  <1>2. CASE r.handshake
    <2>1. PICK q : q = push([r EXCEPT !.handshake = FALSE, !.handshakeTimer = FALSE], "ready")
      OBVIOUS
    <2>2. PICK n : n = Settle(q, "start", "resolved")
      OBVIOUS
    <2>3. markReady(r) = n
      BY <1>2, <2>1, <2>2 DEF markReady
    <2>4. /\ Body(r, q) /\ q.waits = r.waits /\ q.socket = r.socket
          /\ q.cancelled = r.cancelled /\ q.done = r.done /\ q.cancel = r.cancel
          /\ q.closed = r.closed /\ q.handshake = FALSE /\ q.start = r.start
          /\ q.events = IF r.closed THEN r.events ELSE Append(r.events, "ready")
      BY <1>0, <2>1 DEF push, Body, Fields, New
    <2>5. Announces(r, n, "ready")
      BY <1>0, <2>2, <2>4 DEF Settle, Announces, Body, Settled, Fields, New, Calls
    <2> QED
      BY <1>0, <1>2, <2>3, <2>5, AnnouncesKeeps DEF Announces
  <1> QED
    BY <1>1, <1>2

\* A sentence changes nothing that Told and ByProtocol speak of.
LEMMA PreviewKeeps ==
  ASSUME NEW r, NEW p \in Aliyun, Session(r, p), r.socket # "none", ~r.handshake,
         NEW q, Body(r, q), Flags(r, q), q.waits = r.waits, q.start = r.start,
         q.cancel = r.cancel, q.events = r.events, q.closed = r.closed
  PROVE  Goes(r, emitPreview(q, r), p) /\ ~emitPreview(q, r).handshake
  <1>0. Fields(r) /\ Told(r) /\ ByProtocol(r, p) /\ r.start # "idle"
        /\ Events(r.events, r.closed) /\ p # "openai"
    BY DEF Session, Aliyun
  <1>1. CASE emitPreview(q, r) = q
    <2>1. Fields(q) /\ Told(q) /\ ByProtocol(q, p) /\ q.start # "idle"
      BY <1>0 DEF Fields, Told, ByProtocol, Body, Flags, Aliyun
    <2>2. Moves(r, q)
      BY DEF Moves, OneCall, OneEvent, Settled, Quiet, Body
    <2> QED
      BY <1>1, <2>1, <2>2 DEF Goes, Kept, Flags
  <1>2. CASE emitPreview(q, r) # q
    <2>1. PICK n : n = emitPreview(q, r)
      OBVIOUS
    <2>2. n = [q EXCEPT !.events = Append(@, "preview")] /\ ~q.closed
      BY <1>2, <2>1 DEF emitPreview, push
    <2>3. r.handshake = FALSE
      BY <1>0 DEF Fields
    <2>4. Announces(r, n, "preview")
      BY <1>0, <2>2, <2>3 DEF Announces, Body, Flags, Settled, Fields, New
    <2>5. ~r.closed => r.events # <<>>
      BY <1>0 DEF Told, ByProtocol
    <2> QED
      BY <1>0, <2>1, <2>4, <2>5, AnnouncesKeeps DEF Announces
  <1> QED
    BY <1>1, <1>2

LEMMA AliyunMessageKeeps ==
  ASSUME NEW r, protocol \in Aliyun, Session(r, protocol), r.socket # "none",
         NEW m \in Messages, m.type \in {"guess", "final", "finished"} => ~r.handshake
  PROVE  Goes(r, AliyunMessage(r, m), protocol) /\ ~AliyunMessage(r, m).handshake
  <1>0. Fields(r)
    BY DEF Session
  <1>1. CASE m.type = "error"
    BY <1>1, failKeeps DEF AliyunMessage
  <1>2. CASE m.type = "started"
    BY <1>2, markReadyKeeps DEF AliyunMessage
  <1>3. CASE m.type \in {"guess", "final"}
    <2>1. PICK q : /\ AliyunMessage(r, m) = emitPreview(q, r)
                   /\ \/ q = [r EXCEPT !.active = m.id]
                      \/ q = [r EXCEPT !.final = @ \cup {m.id}, !.active = 0]
      BY <1>3 DEF AliyunMessage
    <2>2. /\ Body(r, q) /\ Flags(r, q) /\ q.waits = r.waits /\ q.start = r.start
          /\ q.cancel = r.cancel /\ q.events = r.events /\ q.closed = r.closed
      BY <1>0, <2>1 DEF Body, Flags, Fields, New
    <2> QED
      BY <1>3, <2>1, <2>2, PreviewKeeps
  <1>4. CASE m.type = "finished"
    <2>1. PICK text : AliyunMessage(r, m) = complete(r, text)
      BY <1>4 DEF AliyunMessage
    <2> QED
      BY <1>4, <2>1, completeKeeps
  <1>5. m.type \in {"started", "finished", "error", "guess", "final"}
    BY DEF Messages
  <1> QED
    BY <1>1, <1>2, <1>3, <1>4, <1>5

-------------------------------------------------------------------------------
(***************************************************************************)
(* The steps of the module.                                                *)
(***************************************************************************)
LEMMA SessionNow ==
  ASSUME ToldInv, s.start # "idle"
  PROVE  /\ Session(s, protocol)
         /\ protocol = "tencent" => Tencent(s)
         /\ protocol \in Aliyun \/ protocol \in {"tencent", "openai"}
BY Known DEF ToldInv, Session, Tencent

LEMMA cancelKeeps ==
  ASSUME ToldInv, cancel
  PROVE  Goes(s, s', protocol)
  <1>1. s.start # "idle" /\ s.cancel = "idle"
    BY DEF cancel
  <1>2. CASE protocol = "tencent"
    <2>1. s' = TencentCancel([s EXCEPT !.cancel = "pending"])
      BY <1>2 DEF cancel
    <2> QED
      BY <1>1, <1>2, <2>1, SessionNow, TencentCancelKeeps
  <1>3. CASE protocol \in Aliyun
    <2>1. s' = AliyunCancel([s EXCEPT !.cancel = "resolved"])
      BY <1>3 DEF cancel, Aliyun
    <2> QED
      BY <1>1, <1>3, <2>1, SessionNow, AliyunCancelKeeps
  <1>4. CASE protocol = "openai"
    <2>1. s' = OpenAiCancel([s EXCEPT !.cancel = "resolved"])
      BY <1>4 DEF cancel
    <2>2. Fields(s) /\ Told(s) /\ ByProtocol(s, protocol)
      BY <1>1, SessionNow DEF Session
    <2>0. PICK q : q = s'
      OBVIOUS
    <2>3. /\ DOMAIN q = DOMAIN New /\ q.cancel = "resolved" /\ q.cancelled = TRUE
          /\ q.buffer = 0 /\ q.start = s.start /\ q.write = s.write
          /\ q.finish = s.finish /\ q.socket = s.socket /\ q.handshake = s.handshake
          /\ q.closed = s.closed /\ q.finishRequested = s.finishRequested
          /\ q.end = s.end /\ q.done = s.done /\ q.waits = s.waits /\ q.turn = s.turn
          /\ q.packets = s.packets /\ q.sent = s.sent /\ q.events = s.events
          /\ q.handshakeTimer = s.handshakeTimer /\ q.finalTimer = s.finalTimer
          /\ q.attempt = s.attempt
      BY <2>0, <2>1, <2>2 DEF OpenAiCancel, Fields, New
    <2>4. Fields(q)
      <3>1. q.cancel \in Calls /\ q.cancelled \in BOOLEAN
        BY <2>3, Zenon DEF Calls
      <3>2. q.buffer \in Nat
        BY <2>3
      <3> QED
        BY <2>2, <2>3, <3>1, <3>2 DEF Fields
    <2>5. Told(q)
      BY <1>4, <2>2, <2>3 DEF Told, ByProtocol
    <2>6. ByProtocol(q, protocol)
      BY <1>4, <2>2, <2>3 DEF ByProtocol, Aliyun
    <2>7. Moves(s, q)
      BY <1>1, <2>3 DEF Moves, OneCall, OneEvent, Quiet
    <2> QED
      BY <1>1, <2>0, <2>3, <2>4, <2>5, <2>6, <2>7 DEF Goes, Kept
  <1> QED
    BY <1>1, <1>2, <1>3, <1>4, SessionNow

LEMMA UploadKeeps ==
  ASSUME ToldInv, Upload
  PROVE  Goes(s, s', protocol)
  <1>1. s.start = "resolved" /\ protocol = "openai"
    BY DEF Upload
  <1>2. Fields(s) /\ Told(s) /\ ByProtocol(s, protocol)
    BY <1>1, SessionNow DEF Session
  <1>3. \/ s' = Over(s)
        \/ s' = push([s EXCEPT !.turn = "recorded"], "ready") /\ s.turn = "started"
        \/ s' = [s EXCEPT !.turn = "request", !.sent = s.buffer, !.end = TRUE]
             /\ s.turn = "recorded"
        \/ s' = [s EXCEPT !.turn = "request", !.attempt = 2] /\ s.turn = "backoff"
        \/ s' = Over(Complete(s, <<1>>)) /\ s.turn = "request"
        \/ s' = [s EXCEPT !.turn = "backoff"] /\ s.turn = "request"
        \/ s' = Over(push(s, "error")) /\ s.turn = "request"
    <2>1. CASE s' = OpenAiTurn(s) /\ s.turn \in {"started", "backoff", "recorded"}
      BY <2>1 DEF OpenAiTurn
    <2>2. CASE s.turn = "request"
               /\ \E answer \in {"text", "refused", "unavailable"} : s' = OpenAiAnswered(s, answer)
      BY <1>2, <2>2 DEF OpenAiAnswered, Fields
    <2> QED
      BY <2>1, <2>2 DEF Upload
  <1>4. s.turn # "over" => ~s.closed
    BY <1>1, <1>2 DEF ByProtocol
  <1>5. s.turn # "over"
    BY DEF Upload
  <1>0. PICK q : q = s'
    OBVIOUS
  <1>6. /\ DOMAIN q = DOMAIN New /\ q.cancel = s.cancel /\ q.cancelled = s.cancelled
        /\ q.buffer \in {s.buffer, 0} /\ q.start = s.start /\ q.write = s.write
        /\ q.finish = s.finish /\ q.socket = s.socket /\ q.handshake = s.handshake
        /\ q.finishRequested = s.finishRequested
        /\ q.end \in {s.end, TRUE} /\ q.done = s.done /\ q.waits = s.waits
        /\ q.packets = s.packets /\ q.sent \in {s.sent, s.buffer}
        /\ q.handshakeTimer = s.handshakeTimer /\ q.finalTimer = s.finalTimer
        /\ q.attempt \in {s.attempt, 2}
        /\ \/ q.events = s.events /\ q.closed = TRUE /\ q.turn = "over"
           \/ /\ s.turn = "started" /\ q.turn = "recorded" /\ q.closed = s.closed
              /\ q.events = Append(s.events, "ready")
           \/ /\ s.turn \in {"recorded", "request", "backoff"} /\ q.closed = s.closed
              /\ q.turn \in {"request", "backoff"} /\ q.events = s.events
           \/ /\ s.turn = "request" /\ q.turn = "over" /\ q.closed = TRUE
              /\ q.events = Append(s.events, "completed") \/ q.events = Append(s.events, "error")
    <2>1. CASE s' = Over(s)
      BY <1>0, <1>2, <2>1 DEF Over, closeQueue, Fields, New
    <2>2. CASE s' = push([s EXCEPT !.turn = "recorded"], "ready") /\ s.turn = "started"
      BY <1>0, <1>2, <1>4, <2>2 DEF push, Fields, New
    <2>3. CASE s' = [s EXCEPT !.turn = "request", !.sent = s.buffer, !.end = TRUE]
                /\ s.turn = "recorded"
      BY <1>0, <1>2, <2>3 DEF Fields, New
    <2>4. CASE \/ s' = [s EXCEPT !.turn = "request", !.attempt = 2] /\ s.turn = "backoff"
               \/ s' = [s EXCEPT !.turn = "backoff"] /\ s.turn = "request"
      BY <1>0, <1>2, <2>4 DEF Fields, New
    <2>5. CASE s' = Over(Complete(s, <<1>>)) /\ s.turn = "request"
      BY <1>0, <1>2, <1>4, <2>5 DEF Over, closeQueue, Complete, push, Fields, New
    <2>6. CASE s' = Over(push(s, "error")) /\ s.turn = "request"
      BY <1>0, <1>2, <1>4, <2>6 DEF Over, closeQueue, push, Fields, New
    <2> QED
      BY <1>3, <2>1, <2>2, <2>3, <2>4, <2>5, <2>6
  <1>7. Moves(s, q)
    BY <1>1, <1>2, <1>4, <1>6
    DEF Moves, OneCall, OneEvent, Quiet, Settled, Says, Ends, ByProtocol
  <1>8. q.events = s.events \/ q.events # <<>>
    BY <1>1, <1>7, SessionNow, EventsFollow DEF Moves, Session, Fields
  <1>9. Fields(q)
    <2>0. q.end \in BOOLEAN
      BY <1>2, <1>6, Zenon DEF Fields
    <2>1. q.buffer \in Nat /\ q.sent \in Nat /\ q.attempt \in {1, 2}
      BY <1>2, <1>6 DEF Fields
    <2>2. q.turn \in {"started", "recorded", "request", "backoff", "over"} /\ q.closed \in BOOLEAN
      BY <1>2, <1>6 DEF Fields
    <2> QED
      BY <1>2, <1>6, <2>0, <2>1, <2>2 DEF Fields
  <1>10. Told(q)
    <2>1. q.handshake = FALSE /\ q.waits = {} /\ q.socket = "none"
      BY <1>1, <1>2, <1>6 DEF ByProtocol, Fields
    <2>2. q.finish # "idle" => q.finishRequested
      BY <1>2, <1>6 DEF Told
    <2> QED
      BY <2>1, <2>2 DEF Told
  <1>11. ByProtocol(q, protocol)
    <2>1. s.turn = "started" => q.events # <<>> \/ q.turn = "over"
      BY <1>6, <1>7, <1>1, SessionNow, EventsFollow DEF Session, Fields, Events
    <2> QED
      BY <1>1, <1>2, <1>4, <1>5, <1>6, <1>8, <2>1 DEF ByProtocol, Aliyun
  <1> QED
    BY <1>0, <1>1, <1>6, <1>7, <1>9, <1>10, <1>11 DEF Goes, Kept

LEMMA FailsKeeps ==
  ASSUME NEW r, Session(r, protocol), protocol # "openai", protocol \in Protocols
  PROVE  Goes(r, Fails(r), protocol)
  <1>1. CASE protocol = "tencent"
    BY <1>1, TencentFailsKeeps DEF Session, Tencent, Fails
  <1>2. CASE protocol \in Aliyun
    BY <1>2, failKeeps DEF Fails, Aliyun
  <1> QED
    BY <1>1, <1>2, Known

\* The socket closed, or a timer fired, before the session is told.
LEMMA FirstKeeps ==
  ASSUME NEW r, Session(r, protocol), protocol # "openai", protocol \in Protocols,
         NEW q, Fields(q), Steady(r, q)
  PROVE  Goes(r, Fails(q), protocol)
  <1>1. Session(q, protocol)
    <2>1. Told(q)
      BY DEF Session, Told, Steady
    <2>2. ByProtocol(q, protocol)
      BY DEF Session, ByProtocol, Steady
    <2> QED
      BY <2>1, <2>2 DEF Session, Steady
  <1>2. Goes(q, Fails(q), protocol)
    BY <1>1, FailsKeeps DEF Steady
  <1> QED
    BY <1>2 DEF Goes, Steady, Moves, OneCall, OneEvent, Quiet, Says, Ends

LEMMA SocketFailsKeeps ==
  ASSUME ToldInv, SocketFails
  PROVE  Goes(s, s', protocol)
  <1>1. Fields(s) /\ s.start # "idle" /\ s.socket # "none" /\ protocol \in Protocols
    BY DEF ToldInv, Untouched, New, SocketFails
  <1>2. protocol # "openai"
    BY <1>1 DEF ToldInv, ByProtocol
  <1>3. PICK q : s' = Fails(q) /\ (q = s \/ q = [s EXCEPT !.socket = "closed"])
    BY DEF SocketFails
  <1>4. Fields(q) /\ Steady(s, q)
    BY <1>1, <1>3 DEF Fields, Steady, New
  <1> QED
    BY <1>1, <1>2, <1>3, <1>4, SessionNow, FirstKeeps

LEMMA ResumeKeeps ==
  ASSUME ToldInv, Resume
  PROVE  Goes(s, s', protocol)
  <1>1. PICK w \in s.waits : s' = Resumed(s, w)
    BY DEF Resume
  <1>2. s.start # "idle" /\ w \in Waits
    BY <1>1 DEF Resume, ToldInv, Untouched, New, Fields
  <1>3. protocol = "tencent"
    BY <1>1 DEF ToldInv, ByProtocol
  <1>4. /\ s.done # "no" \/ s.cancelled
        /\ w = "completion" => s.events # <<>>
    BY <1>1, <1>3 DEF ToldInv, ByProtocol, Told
  <1> QED
    BY <1>1, <1>2, <1>3, <1>4, SessionNow, ResumedKeeps

LEMMA TimerKeeps ==
  ASSUME ToldInv, Timer
  PROVE  Goes(s, s', protocol)
  <1>1. s.handshakeTimer \/ s.finalTimer
    BY DEF Timer
  <1>2. Fields(s) /\ s.start # "idle" /\ protocol \in Protocols
    BY <1>1 DEF ToldInv, Untouched, New
  <1>3. protocol # "openai"
    BY <1>1 DEF ToldInv, ByProtocol
  <1>4. PICK q : /\ s' = Fails(q)
                 /\ \/ q = [s EXCEPT !.handshakeTimer = FALSE]
                    \/ q = [s EXCEPT !.finalTimer = FALSE]
    BY DEF Timer
  <1>5. Fields(q) /\ Steady(s, q)
    BY <1>2, <1>4 DEF Fields, Steady, New
  <1> QED
    BY <1>2, <1>3, <1>4, <1>5, SessionNow, FirstKeeps

LEMMA ServerSaysKeeps ==
  ASSUME ToldInv, NEW m \in Messages, ServerSays(m)
  PROVE  Goes(s, s', protocol) /\ ~s'.handshake
  <1>1. s.socket # "none" /\ s.start # "idle"
    BY DEF ServerSays, ToldInv, Untouched, New
  <1>2. m.type \in {"guess", "final", "finished"} => ~s.handshake
    BY DEF ServerSays, ToldInv, Started
  <1>3. protocol # "openai"
    BY <1>1 DEF ToldInv, ByProtocol
  <1>4. CASE protocol = "tencent"
    <2>1. s' = TencentMessage(s, m)
      BY <1>4 DEF ServerSays, Message
    <2> QED
      BY <1>1, <1>2, <1>4, <2>1, SessionNow, TencentMessageKeeps
  <1>5. CASE protocol \in Aliyun
    <2>1. s' = AliyunMessage(s, m)
      BY <1>5 DEF ServerSays, Message, Aliyun
    <2> QED
      BY <1>1, <1>2, <1>5, <2>1, SessionNow, AliyunMessageKeeps
  <1> QED
    BY <1>1, <1>3, <1>4, <1>5, SessionNow

LEMMA ToldInit == Init => ToldInv /\ Service!Init
  <1> SUFFICES ASSUME Init
               PROVE  ToldInv /\ Service!Init
    OBVIOUS
  <1>1. s = New /\ protocol \in Protocols /\ ~server.started
    BY DEF Init
  <1>2. Told(New) /\ ByProtocol(New, protocol) /\ New.events = <<>> /\ New.closed = FALSE
    BY DEF Told, ByProtocol, New, Aliyun
  <1>3. Fields(New)
    <2>1. /\ New.start = "idle" /\ New.write = "idle" /\ New.finish = "idle"
          /\ New.cancel = "idle" /\ New.socket = "none" /\ New.done = "no" /\ New.waits = {}
          /\ New.turn = "started" /\ New.attempt = 1
          /\ New.packets = 0 /\ New.sent = 0 /\ New.buffer = 0
      BY DEF New
    <2>2. /\ New.handshake = FALSE /\ New.cancelled = FALSE /\ New.closed = FALSE
          /\ New.finishRequested = FALSE /\ New.end = FALSE
      BY DEF New
    <2>3. /\ New.handshake \in BOOLEAN /\ New.cancelled \in BOOLEAN /\ New.closed \in BOOLEAN
          /\ New.finishRequested \in BOOLEAN /\ New.end \in BOOLEAN
      BY <2>2
    <2> QED
      BY <2>1, <2>3 DEF Fields, Calls
  <1>4. Events(<<>>, FALSE)
    BY DEF Events, Open
  <1>5. ToldInv
    BY <1>1, <1>2, <1>3, <1>4 DEF ToldInv, Untouched, Started
  <1>6. Service!Init
    BY <1>1, <1>2 DEF New, Service!Init
  <1> QED
    BY <1>5, <1>6

\* The service does not see what a step of the session leaves alone.
LEMMA GoesOn ==
  ASSUME ToldInv, Kept(s', protocol), Moves(s, s'), protocol' = protocol,
         s'.handshake => ~server'.started
  PROVE  ToldInv' /\ Service!Next
  <1>1. Events(s.events, s.closed) /\ s.closed \in BOOLEAN /\ protocol \in Protocols
    BY DEF ToldInv, Fields
  <1>2. Events(s'.events, s'.closed)
    BY <1>1, EventsFollow DEF Moves
  <1>3. s'.closed \in BOOLEAN
    BY DEF Kept, Fields
  <1>4. Service!Next
    BY <1>1, <1>3, ServiceMoves
  <1> QED
    BY <1>1, <1>2, <1>4 DEF ToldInv, Kept, Untouched, Started

LEMMA ToldNext ==
  ASSUME ToldInv, [Next]_vars
  PROVE  ToldInv' /\ (Service!Next \/ UNCHANGED Service!vars)
  <1>1. ASSUME NEW aborted \in BOOLEAN, Start(aborted)
        PROVE  ToldInv' /\ Service!Next
    <2>1. ~server'.started /\ protocol' = protocol
      BY <1>1 DEF Start, ToldInv, Untouched
    <2> QED
      BY <1>1, <2>1, StartKeeps, GoesOn
  <1>2. ASSUME NEW m \in Messages, ServerSays(m)
        PROVE  ToldInv' /\ Service!Next
    <2>1. protocol' = protocol
      BY <1>2 DEF ServerSays
    <2> QED
      BY <1>2, <2>1, ServerSaysKeeps, GoesOn DEF Goes
  <1>3. ASSUME Goes(s, s', protocol), UNCHANGED <<protocol, server>>
        PROVE  ToldInv' /\ Service!Next
    <2>1. s'.handshake => ~server'.started
      BY <1>3 DEF Goes, ToldInv, Started
    <2> QED
      BY <1>3, <2>1, GoesOn DEF Goes
  <1>4. ASSUME NEW size \in FrameSizes, writeAudio(size)
        PROVE  ToldInv' /\ Service!Next
    BY <1>3, <1>4, AudioCallKeeps DEF writeAudio
  <1>5. CASE finish
    BY <1>3, <1>5, FinishCallKeeps DEF finish
  <1>6. CASE cancel
    BY <1>3, <1>6, cancelKeeps DEF cancel
  <1>7. CASE SocketOpens \/ SocketCloses
    BY <1>3, <1>7, SocketKeeps DEF SocketOpens, SocketCloses
  <1>8. CASE SocketFails
    BY <1>3, <1>8, SocketFailsKeeps DEF SocketFails
  <1>9. CASE Write
    BY <1>3, <1>9, WriteKeeps DEF Write
  <1>10. CASE Finish
    BY <1>3, <1>10, FinishKeeps DEF Finish
  <1>11. CASE Resume
    BY <1>3, <1>11, ResumeKeeps DEF Resume
  <1>12. CASE Timer
    BY <1>3, <1>12, TimerKeeps DEF Timer
  <1>13. CASE Upload
    BY <1>3, <1>13, UploadKeeps DEF Upload
  <1>14. CASE UNCHANGED vars
    BY <1>14 DEF vars, ToldInv, Untouched, Started, Service!vars
  <1> QED
    BY <1>1, <1>2, <1>4, <1>5, <1>6, <1>7, <1>8, <1>9, <1>10, <1>11, <1>12, <1>13, <1>14
    DEF Next, Progress

\* In every state of a session it has told the coordinator only what it may, and knows what
\* it still has to tell: the invariant under the two theorems that follow.
THEOREM ToldCorrect == Spec => []ToldInv
  <1>1. ToldInv /\ [Next]_vars => ToldInv'
    BY ToldNext
  <1> QED
    BY <1>1, ToldInit, PTL DEF Spec

\* Tencent's session, the two of Aliyun and the upload are, each of them, a recognition session
\* as the coordinator knows it: readiness first, one end, nothing after it, and every call
\* answered once, however cancel(), the timers, the socket and the service meet.
THEOREM RecognitionCorrect == Spec => ImplementsRecognition
  <1>1. ToldInv /\ [Next]_vars => [Service!Next]_(Service!vars)
    BY ToldNext
  <1> QED
    BY <1>1, ToldInit, ToldCorrect, PTL DEF Spec, ImplementsRecognition, Service!Spec

-------------------------------------------------------------------------------
(***************************************************************************)
(* What was recorded was sent whole (Counted), and what was completed is   *)
(* the text of every sentence (Heard).                                     *)
(***************************************************************************)
\* The audio of a session nobody cancelled: what is left to send, and what was sent.
Accounted(r, units, p) ==
  /\ r.write \in {"idle", "resolved"} /\ ~r.finishRequested =>
       r.packets = 0 /\ r.sent + r.buffer = units
  /\ r.write = "pending" =>
       IF p = "tencent" THEN r.sent + r.packets * Packet + r.buffer = units
       ELSE r.sent + r.packets = units
  /\ r.finishRequested /\ ~r.end /\ (r.finish = "pending" \/ p = "openai") =>
       /\ r.sent + r.buffer = units
       /\ p # "openai" => r.packets = IF r.buffer = 0 THEN 0 ELSE 1
  /\ r.end => r.sent = units /\ (p # "openai" => r.packets = 0)
  /\ p \in Aliyun => r.buffer = 0
  /\ p = "openai" /\ r.turn = "over" => r.end

Counted(r, units, p) ==
  /\ r.write \in {"pending", "rejected"} => ~r.finishRequested
  /\ r.end => r.finishRequested
  /\ p = "openai" =>
       /\ r.turn \in {"started", "recorded"} => ~r.end /\ r.sent = 0
       /\ r.turn \in {"request", "backoff"} => r.end
  /\ ~r.cancelled => Accounted(r, units, p)

CountedInv == recorded.units \in Nat /\ Counted(s, recorded.units, protocol)

\* What has nothing to do with the audio leaves it so.
LEMMA BodyCounts ==
  ASSUME NEW r, NEW q, Body(r, q), r.cancelled => q.cancelled, NEW units, NEW p,
         Counted(r, units, p)
  PROVE  Counted(q, units, p)
BY DEF Body, Counted, Accounted

LEMMA Product ==
  ASSUME NEW a \in Nat, NEW n \in Nat, n > 0, NEW b \in Nat, NEW k \in Nat
  PROVE  (a + k) + (n - 1) * k + b = a + n * k + b
  <1>1. n * k = (n - 1) * k + k
    OBVIOUS
  <1>2. n * k \in Nat /\ (n - 1) * k \in Int
    OBVIOUS
  <1> QED
    BY <1>1, <1>2

LEMMA WriteCounts ==
  ASSUME ToldInv, CountedInv, Write
  PROVE  Counted(s', recorded.units, protocol)
  <1>0. Fields(s) /\ ByProtocol(s, protocol) /\ s.write = "pending" /\ protocol # "openai"
        /\ protocol \in Aliyun \cup {"tencent"}
    BY Known DEF ToldInv, Write, ByProtocol
  <1>1. Counted(s, recorded.units, protocol) /\ ~s.finishRequested /\ ~s.end
    BY <1>0 DEF CountedInv, Counted
  <1>2. CASE s' = [s EXCEPT !.write = "rejected"]
    BY <1>0, <1>1, <1>2 DEF Counted, Accounted, Fields, New
  <1>3. CASE s' = [s EXCEPT !.write = "resolved"] /\ (s.packets = 0 \/ s.cancelled)
    <2>1. 0 * Packet = 0
      BY Sizes
    <2>2. s.packets = 0 => s.packets * Packet = 0
      BY Sizes
    <2>3. CASE s.cancelled
      BY <1>0, <1>1, <1>3, <2>3 DEF Counted, Fields, New
    <2>4. CASE ~s.cancelled
      <3>1. s.packets = 0 /\ s.sent + s.buffer = recorded.units
        BY <1>0, <1>1, <1>3, <2>2, <2>4, Sizes DEF Counted, Accounted, Fields, Aliyun
      <3> QED
        BY <1>0, <1>1, <1>3, <2>4, <3>1 DEF Counted, Accounted, Fields, New
    <2> QED
      BY <2>3, <2>4
  <1>4. CASE s.packets > 0 /\ ~s.cancelled /\ s' = Sends(s) /\ protocol = "tencent"
    <2>1. s' = [s EXCEPT !.sent = @ + Packet, !.packets = @ - 1]
      BY <1>0, <1>4 DEF Sends
    <2>2. s.sent + s.packets * Packet + s.buffer = recorded.units
      BY <1>0, <1>1, <1>4 DEF Counted, Accounted
    <2>3. (s.sent + Packet) + (s.packets - 1) * Packet + s.buffer = recorded.units
      <3>1. /\ s.sent \in Nat /\ s.packets \in Nat /\ s.packets > 0 /\ s.buffer \in Nat
            /\ Packet \in Nat
        BY <1>0, <1>4, Sizes DEF Fields
      <3>2. (s.sent + Packet) + (s.packets - 1) * Packet + s.buffer
              = s.sent + s.packets * Packet + s.buffer
        BY <3>1, Product
      <3> QED
        BY <2>2, <3>2
    <2> QED
      BY <1>0, <1>1, <1>4, <2>1, <2>3 DEF Counted, Accounted, Fields, New, Aliyun
  <1>5. CASE s.packets > 0 /\ ~s.cancelled /\ s' = Sends(s) /\ protocol # "tencent"
    <2>1. s' = [s EXCEPT !.sent = @ + s.packets, !.packets = 0]
      BY <1>0, <1>5 DEF Sends
    <2>2. s.sent + s.packets = recorded.units
      BY <1>0, <1>1, <1>5 DEF Counted, Accounted
    <2> QED
      BY <1>0, <1>1, <1>5, <2>1, <2>2 DEF Counted, Accounted, Fields, New
  <1> QED
    BY <1>0, <1>2, <1>3, <1>4, <1>5 DEF Write

LEMMA FinishCounts ==
  ASSUME ToldInv, CountedInv, Finish
  PROVE  Counted(s', recorded.units, protocol)
  <1>0. Fields(s) /\ Told(s) /\ ByProtocol(s, protocol) /\ s.finish = "pending" /\ protocol # "openai"
    BY DEF ToldInv, Finish, ByProtocol
  <1>1. Counted(s, recorded.units, protocol) /\ s.finishRequested /\ s.write # "pending"
    BY <1>0 DEF CountedInv, Counted, Told
  <1>2. CASE s' = [s EXCEPT !.finish = "rejected"]
    BY <1>0, <1>1, <1>2 DEF Counted, Accounted, Fields, New
  <1>3. CASE s' = Finished(s) /\ s.end
    BY <1>0, <1>1, <1>3 DEF Finished, Counted, Accounted, Fields, New
  <1>4. CASE s' = [s EXCEPT !.end = TRUE] /\ s.packets = 0 /\ ~s.end
    BY <1>0, <1>1, <1>4 DEF Counted, Accounted, Fields, New
  <1>5. CASE s' = Sends(s) /\ s.packets > 0 /\ ~s.cancelled
    <2>1. s' = [s EXCEPT !.sent = @ + s.buffer, !.packets = @ - 1, !.buffer = 0]
      BY <1>1, <1>5 DEF Sends
    <2> QED
      BY <1>0, <1>1, <1>5, <2>1 DEF Counted, Accounted, Fields, New
  <1> QED
    BY <1>2, <1>3, <1>4, <1>5 DEF Finish

\* The audio of a session when none is waiting.
Rested(r, units, p) ==
  /\ ~r.finishRequested /\ ~r.end /\ r.write \in {"idle", "resolved"}
  /\ r.packets \in Nat /\ r.sent \in Nat /\ r.buffer \in Nat
  /\ ~r.cancelled =>
       /\ r.packets = 0 /\ r.sent + r.buffer = units
       /\ p \in Aliyun => r.buffer = 0
       /\ p = "openai" => r.turn # "over"
  /\ p = "openai" => r.turn \notin {"request", "backoff"}
  /\ p = "openai" /\ r.turn \in {"started", "recorded"} => r.sent = 0

LEMMA RestedNow ==
  ASSUME ToldInv, CountedInv, ~s.finishRequested, s.write \in {"idle", "resolved"}
  PROVE  Rested(s, recorded.units, protocol)
BY DEF ToldInv, CountedInv, Counted, Accounted, Rested, Fields

LEMMA FinishCallCounts ==
  ASSUME ToldInv, CountedInv, finish
  PROVE  Counted(s', recorded.units, protocol)
  <1>0. /\ Fields(s) /\ ~s.cancelled /\ protocol \in Aliyun \cup {"tencent", "openai"}
        /\ Rested(s, recorded.units, protocol)
    BY Known, RestedNow DEF ToldInv, finish
  <1>1. CASE protocol = "openai"
    <2>1. s' = [s EXCEPT !.finishRequested = TRUE, !.finish = "resolved"]
      BY <1>1 DEF finish
    <2>2. /\ s'.finishRequested /\ s'.write = s.write /\ s'.packets = s.packets
          /\ s'.sent = s.sent /\ s'.buffer = s.buffer /\ s'.end = s.end /\ s'.turn = s.turn
      BY <1>0, <2>1 DEF Fields, New
    <2> QED
      BY <1>0, <1>1, <2>2 DEF Rested, Counted, Accounted, Aliyun
  <1>2. CASE protocol \in Aliyun
    <2>1. s' = [s EXCEPT !.finishRequested = TRUE, !.finish = "pending"]
      BY <1>2 DEF finish, Aliyun
    <2>2. /\ s'.finishRequested /\ s'.write = s.write /\ s'.packets = s.packets
          /\ s'.sent = s.sent /\ s'.buffer = s.buffer /\ s'.end = s.end /\ s'.turn = s.turn
      BY <1>0, <2>1 DEF Fields, New
    <2> QED
      BY <1>0, <1>2, <2>2 DEF Rested, Counted, Accounted, Aliyun
  <1>3. CASE protocol = "tencent"
    <2>1. s' = flush([s EXCEPT !.finishRequested = TRUE, !.finish = "pending"])
      BY <1>3 DEF finish
    <2>2. /\ s'.finishRequested /\ s'.write = s.write
          /\ s'.packets = IF s.buffer > 0 THEN 1 ELSE 0
          /\ s'.sent = s.sent /\ s'.buffer = s.buffer /\ s'.end = s.end /\ s'.turn = s.turn
      BY <1>0, <2>1 DEF flush, Fields, New
    <2> QED
      BY <1>0, <1>3, <2>2 DEF Rested, Counted, Accounted, Aliyun
  <1> QED
    BY <1>0, <1>1, <1>2, <1>3

LEMMA Division ==
  ASSUME NEW n \in Nat, NEW k \in Nat, k > 0,
         NEW d \in Nat, d = n \div k, NEW m \in Nat, m = n % k
  PROVE  k * d + m = n
BY Z3

\* Cut into packets, the audio is what it was.
LEMMA PacketsHold ==
  ASSUME NEW n \in Nat, NEW a \in Nat
  PROVE  a + (n \div Packet) * Packet + (n % Packet) = a + n
  <1>1. Packet \in Nat /\ Packet > 0
    BY Sizes
  <1> DEFINE d == n \div Packet
             m == n % Packet
  <1>2. d \in Nat /\ m \in Nat
    BY <1>1
  <1>3. d = n \div Packet /\ m = n % Packet
    OBVIOUS
  <1> HIDE DEF d, m
  <1>4. Packet * d + m = n
    BY <1>1, <1>2, <1>3, Division
  <1>5. Packet * d \in Nat /\ Packet * d = d * Packet
    BY <1>1, <1>2
  <1>6. a + d * Packet + m = a + n
    BY <1>2, <1>4, <1>5
  <1> QED
    BY <1>6 DEF d, m

LEMMA AudioCallCounts ==
  ASSUME ToldInv, CountedInv, NEW size \in FrameSizes, writeAudio(size)
  PROVE  CountedInv'
  <1>0. /\ Fields(s) /\ protocol \in Aliyun \cup {"tencent", "openai"}
        /\ Rested(s, recorded.units, protocol) /\ Counted(s, recorded.units, protocol)
        /\ protocol' = protocol /\ recorded.units \in Nat
    BY Known, RestedNow DEF ToldInv, CountedInv, writeAudio
  <1>1. size \in Nat /\ s.buffer + size \in Nat
    BY <1>0, FrameSizesKnown DEF Rested
  <1>2. recorded'.units = recorded.units + size
    BY <1>0 DEF writeAudio
  <1>3. Counted(s', recorded.units + size, protocol)
    <2>1. CASE s' = s /\ s.cancelled
      BY <1>0, <2>1 DEF Counted
    <2>2. CASE protocol = "tencent" /\ ~s.cancelled
      <3>1. s' = [s EXCEPT !.write = "pending", !.packets = (s.buffer + size) \div Packet,
                           !.buffer = (s.buffer + size) % Packet]
        BY <2>2 DEF writeAudio
      <3> DEFINE d == (s.buffer + size) \div Packet
                 m == (s.buffer + size) % Packet
      <3>2. /\ s'.write = "pending" /\ s'.finishRequested = s.finishRequested /\ s'.end = s.end
            /\ s'.sent = s.sent /\ s'.packets = d /\ s'.buffer = m
        BY <1>0, <3>1 DEF Fields, New
      <3>5. s.sent \in Nat
        BY <1>0 DEF Rested
      <3>6. s.sent + d * Packet + m = s.sent + (s.buffer + size)
        BY <1>1, <3>5, PacketsHold, Zenon
      <3> HIDE DEF d, m
      <3>3. s'.sent + s'.packets * Packet + s'.buffer = s.sent + (s.buffer + size)
        BY <3>2, <3>6
      <3>4. s'.sent + s'.packets * Packet + s'.buffer = recorded.units + size
        BY <1>0, <1>1, <2>2, <3>3 DEF Rested
      <3> QED
        BY <1>0, <2>2, <3>2, <3>4 DEF Rested, Counted, Accounted, Aliyun
    <2>3. CASE protocol = "openai" /\ ~s.cancelled
      <3>1. s' = [s EXCEPT !.write = "rejected"] \/ s' = [s EXCEPT !.buffer = s.buffer + size]
        BY <2>3 DEF writeAudio
      <3>2. /\ s'.finishRequested = s.finishRequested /\ s'.end = s.end
            /\ s'.sent = s.sent /\ s'.packets = s.packets /\ s'.turn = s.turn
            /\ \/ s'.write = "rejected"
               \/ s'.write = s.write /\ s'.buffer = s.buffer + size
        BY <1>0, <3>1 DEF Fields, New
      <3> QED
        BY <1>0, <1>1, <2>3, <3>2 DEF Rested, Counted, Accounted, Aliyun
    <2>4. CASE protocol \in Aliyun
      <3>1. s' = [s EXCEPT !.write = "pending", !.packets = size]
        BY <2>4 DEF writeAudio, Aliyun
      <3>2. /\ s'.finishRequested = s.finishRequested /\ s'.end = s.end
            /\ s'.sent = s.sent /\ s'.packets = size /\ s'.write = "pending"
            /\ s'.buffer = s.buffer /\ s'.cancelled = s.cancelled
        BY <1>0, <3>1 DEF Fields, New
      <3> QED
        BY <1>0, <1>1, <2>4, <3>2 DEF Rested, Counted, Accounted, Aliyun
    <2>5. s.cancelled /\ protocol \in {"tencent", "openai"} => s' = s
      BY DEF writeAudio
    <2> QED
      BY <1>0, <2>1, <2>2, <2>3, <2>4, <2>5
  <1> QED
    BY <1>0, <1>1, <1>2, <1>3 DEF CountedInv

LEMMA UploadCounts ==
  ASSUME ToldInv, CountedInv, Upload
  PROVE  Counted(s', recorded.units, protocol)
  <1>0. /\ Fields(s) /\ protocol = "openai" /\ s.turn # "over"
        /\ Counted(s, recorded.units, protocol)
    BY DEF ToldInv, CountedInv, Upload
  <1>1. s.write # "pending"
    BY <1>0 DEF ToldInv, ByProtocol
  <1>2. CASE s' = Over(s) /\ s.cancelled
    <2>1. /\ s'.cancelled = s.cancelled /\ s'.write = s.write /\ s'.end = s.end
          /\ s'.finishRequested = s.finishRequested /\ s'.turn = "over"
      BY <1>0, <1>2 DEF Over, closeQueue, Fields, New
    <2> QED
      BY <1>0, <1>2, <2>1 DEF Counted
  <1>3. CASE s' = push([s EXCEPT !.turn = "recorded"], "ready") /\ s.turn = "started"
    <2>1. /\ s'.cancelled = s.cancelled /\ s'.write = s.write /\ s'.end = s.end
          /\ s'.finishRequested = s.finishRequested /\ s'.turn = "recorded"
          /\ s'.sent = s.sent /\ s'.buffer = s.buffer /\ s'.packets = s.packets
          /\ s'.finish = s.finish
      BY <1>0, <1>3 DEF push, Fields, New
    <2> QED
      BY <1>0, <1>3, <2>1 DEF Counted, Accounted
  <1>4. CASE /\ s' = [s EXCEPT !.turn = "request", !.sent = s.buffer, !.end = TRUE]
             /\ s.turn = "recorded" /\ ~s.cancelled /\ s.finishRequested
    <2>1. /\ s'.cancelled = s.cancelled /\ s'.write = s.write /\ s'.end
          /\ s'.finishRequested = s.finishRequested /\ s'.turn = "request"
          /\ s'.sent = s.buffer
      BY <1>0, <1>4 DEF Fields, New
    <2>2. s.sent = 0 /\ s.sent + s.buffer = recorded.units /\ s.buffer \in Nat
      BY <1>0, <1>4 DEF Counted, Accounted, Fields
    <2>3. s.buffer = recorded.units
      BY <2>2
    <2> QED
      BY <1>0, <1>1, <1>4, <2>1, <2>3 DEF Counted, Accounted, Aliyun
  <1>5. CASE /\ s.turn \in {"backoff", "request"}
             /\ \/ s' = [s EXCEPT !.turn = "request", !.attempt = 2]
                \/ s' = [s EXCEPT !.turn = "backoff"]
                \/ s' = Over(Complete(s, <<1>>))
                \/ s' = Over(push(s, "error"))
    <2>1. /\ s'.cancelled = s.cancelled /\ s'.write = s.write /\ s'.end = s.end
          /\ s'.finishRequested = s.finishRequested /\ s'.turn \in {"request", "backoff", "over"}
          /\ s'.sent = s.sent
      BY <1>0, <1>5 DEF Over, Complete, push, closeQueue, Fields, New
    <2>2. s.end
      BY <1>0, <1>5 DEF Counted
    <2> QED
      BY <1>0, <1>1, <2>1, <2>2 DEF Counted, Accounted, Aliyun
  <1>6. CASE s' = OpenAiTurn(s) /\ s.turn \in {"started", "backoff"}
    BY <1>2, <1>3, <1>5, <1>6 DEF OpenAiTurn
  <1>7. CASE s' = OpenAiTurn(s) /\ s.turn = "recorded" /\ (s.cancelled \/ s.finishRequested)
    BY <1>2, <1>4, <1>7 DEF OpenAiTurn
  <1>8. CASE s.turn = "request"
             /\ \E answer \in {"text", "refused", "unavailable"} : s' = OpenAiAnswered(s, answer)
    BY <1>0, <1>5, <1>8 DEF OpenAiAnswered, Fields
  <1> QED
    BY <1>6, <1>7, <1>8 DEF Upload

-------------------------------------------------------------------------------
\* From r to q a session is told nothing by the service but that it failed.
Quietly(r, q) ==
  \/ q.events = r.events
  \/ \E kind \in {"ready", "preview", "error"} : q.events = Append(r.events, kind)

Deaf(r, q) ==
  /\ Body(r, q) /\ q.text = r.text
  /\ q.final = r.final /\ q.guess = r.guess /\ q.active = r.active
  /\ r.cancelled => q.cancelled
  /\ r.done # "no" => q.done # "no"
  /\ "completion" \in q.waits => "completion" \in r.waits
  /\ Quietly(r, q)

LEMMA ResumedDeaf ==
  ASSUME NEW r, Fields(r), NEW w \in Waits \ {"completion"}
  PROVE  Deaf(r, Resumed(r, w)) /\ Fields(Resumed(r, w))
  <1>1. CASE w = "cancel"
    BY <1>1 DEF Resumed, closeQueue, Settle, Fields, Deaf, Quietly, Body, New, Calls
  <1>2. CASE w = "cancel after completion"
    BY <1>2 DEF Resumed, closeQueue, Settle, Fields, Deaf, Quietly, Body, New, Calls
  <1>3. CASE w = "failed handshake"
    BY <1>3 DEF Resumed, closeQueue, Settle, Fields, Deaf, Quietly, Body, New, Calls
  <1>4. CASE w = "error"
    BY <1>4 DEF Resumed, closeQueue, push, Fields, Deaf, Quietly, Body, New, Calls
  <1> QED
    BY <1>1, <1>2, <1>3, <1>4 DEF Waits

\* A flag that is raised on the way, with no event.
LEMMA DeafThen ==
  ASSUME NEW a, NEW b, NEW c, Deaf(a, b), b.events = a.events, Deaf(b, c)
  PROVE  Deaf(a, c)
BY DEF Deaf, Body, Quietly

LEMMA closeSocketDeaf ==
  ASSUME NEW r, Fields(r), NEW w \in Waits \ {"completion"}
  PROVE  Deaf(r, closeSocket(r, w))
  <1>1. CASE r.socket \in {"none", "closed"}
    BY <1>1, ResumedDeaf DEF closeSocket
  <1>2. CASE r.socket \notin {"none", "closed"}
    BY <1>2 DEF closeSocket, Fields, Deaf, Quietly, Body, New
  <1> QED
    BY <1>1, <1>2

LEMMA TencentFailsDeaf ==
  ASSUME NEW r, Fields(r)
  PROVE  Deaf(r, TencentFails(r))
  <1>1. CASE TencentFails(r) = r
    BY <1>1 DEF Deaf, Quietly, Body, Fields
  <1>2. CASE TencentFails(r) # r /\ r.handshake
    <2>1. PICK q : q = [clearTimers(r) EXCEPT !.done = "failed", !.handshake = FALSE]
      OBVIOUS
    <2>2. TencentFails(r) = closeSocket(q, "failed handshake")
      BY <1>2, <2>1 DEF TencentFails, failHandshake
    <2>3. Deaf(r, q) /\ q.events = r.events /\ Fields(q)
      BY <2>1 DEF clearTimers, Fields, Deaf, Quietly, Body, New
    <2> QED
      BY <2>2, <2>3, closeSocketDeaf, DeafThen DEF Waits
  <1>3. CASE TencentFails(r) # r /\ ~r.handshake
    <2>1. PICK q : q = [clearTimers(r) EXCEPT !.done = "failed"]
      OBVIOUS
    <2>2. TencentFails(r) = closeSocket(q, "error")
      BY <1>3, <2>1 DEF TencentFails, emitError
    <2>3. Deaf(r, q) /\ q.events = r.events /\ Fields(q)
      BY <2>1 DEF clearTimers, Fields, Deaf, Quietly, Body, New
    <2> QED
      BY <2>2, <2>3, closeSocketDeaf, DeafThen DEF Waits
  <1> QED
    BY <1>1, <1>2, <1>3

LEMMA CancelsDeaf ==
  ASSUME NEW r, Fields(r), NEW how \in {"pending", "resolved"},
         NEW c, c = [r EXCEPT !.cancel = how]
  PROVE  Deaf(r, TencentCancel(c)) /\ Deaf(r, AliyunCancel(c))
  <1>1. Deaf(r, c) /\ c.events = r.events /\ Fields(c)
    BY DEF Fields, Deaf, Quietly, Body, New, Calls
  <1>2. PICK k : k = IF c.handshake THEN Settle(c, "start", "rejected") ELSE c
    OBVIOUS
  <1>3. Deaf(c, k) /\ k.events = c.events /\ Fields(k)
    BY <1>1, <1>2 DEF Settle, Fields, Deaf, Quietly, Body, New, Calls
  <1>4. PICK q : q = [clearTimers(k) EXCEPT !.cancelled = TRUE, !.handshake = FALSE]
    OBVIOUS
  <1>5. Deaf(k, q) /\ q.events = k.events /\ Fields(q)
    BY <1>3, <1>4 DEF clearTimers, Fields, Deaf, Quietly, Body, New, Calls
  <1>6. Deaf(r, q) /\ q.events = r.events
    BY <1>1, <1>3, <1>5, DeafThen
  <1>7. Deaf(r, TencentCancel(c))
    <2>1. CASE c.done = "completed"
      <3>1. TencentCancel(c) = closeSocket(c, "cancel after completion")
        BY <2>1 DEF TencentCancel
      <3> QED
        BY <1>1, <3>1, closeSocketDeaf, DeafThen DEF Waits
    <2>2. CASE c.done # "completed"
      <3>1. TencentCancel(c) = closeSocket(q, "cancel")
        BY <1>2, <1>4, <2>2 DEF TencentCancel
      <3> QED
        BY <1>5, <1>6, <3>1, closeSocketDeaf, DeafThen DEF Waits
    <2> QED
      BY <2>1, <2>2
  <1>8. Deaf(r, AliyunCancel(c))
    <2>1. PICK d : d = closeQueue(q)
      OBVIOUS
    <2>2. Deaf(q, d) /\ d.events = q.events /\ Fields(d)
      BY <1>5, <2>1 DEF closeQueue, Fields, Deaf, Quietly, Body, New
    <2>3. AliyunCancel(c) = Leave(d)
      BY <1>2, <1>4, <2>1 DEF AliyunCancel
    <2>4. Deaf(d, Leave(d))
      BY <2>2 DEF Leave, Fields, Deaf, Quietly, Body, New
    <2> QED
      BY <1>6, <2>2, <2>3, <2>4, DeafThen
  <1> QED
    BY <1>7, <1>8

LEMMA failDeaf ==
  ASSUME NEW r, Fields(r)
  PROVE  Deaf(r, fail(r))
  <1>1. CASE fail(r) = r
    BY <1>1 DEF Deaf, Quietly, Body, Fields
  <1>2. CASE fail(r) # r
    <2>1. PICK k : k = IF r.handshake THEN Settle(r, "start", "rejected") ELSE r
      OBVIOUS
    <2>2. Deaf(r, k) /\ k.events = r.events /\ Fields(k)
      BY <2>1 DEF Settle, Fields, Deaf, Quietly, Body, New, Calls
    <2>3. PICK q : q = [clearTimers(k) EXCEPT !.done = "failed", !.handshake = FALSE]
      OBVIOUS
    <2>4. Deaf(k, q) /\ q.events = k.events /\ Fields(q)
      BY <2>2, <2>3 DEF clearTimers, Fields, Deaf, Quietly, Body, New
    <2>5. fail(r) = Leave(closeQueue(push(q, "error")))
      BY <1>2, <2>1, <2>3 DEF fail
    <2>6. Deaf(q, closeQueue(push(q, "error"))) /\ Fields(closeQueue(push(q, "error")))
      BY <2>4 DEF closeQueue, push, Fields, Deaf, Quietly, Body, New
    <2>7. Deaf(q, Leave(closeQueue(push(q, "error"))))
      <3>1. PICK n : n = closeQueue(push(q, "error"))
        OBVIOUS
      <3>2. Deaf(q, Leave(n))
        BY <2>6, <3>1 DEF Leave, Fields, Deaf, Quietly, Body, New
      <3> QED
        BY <3>1, <3>2
    <2> QED
      BY <2>2, <2>4, <2>5, <2>7, DeafThen
  <1> QED
    BY <1>1, <1>2

LEMMA markReadyDeaf ==
  ASSUME NEW r, Fields(r)
  PROVE  Deaf(r, markReady(r))
BY DEF markReady, Settle, push, Fields, Deaf, Quietly, Body, New

-------------------------------------------------------------------------------
(***************************************************************************)
(* The sentences.                                                          *)
(***************************************************************************)
Numbered(n) == [i \in 1..n |-> i]

LEMMA UpTo ==
  ASSUME NEW n \in Nat
  PROVE  Cardinality(1..n) = n
BY FS_Interval

LEMMA SaidInOrder ==
  ASSUME NEW n \in Nat
  PROVE  Said(1..n) = Numbered(n)
  <1> DEFINE upTo(x) == {y \in 1..n : y <= x}
  <1>1. Cardinality(1..n) = n
    BY UpTo
  <1>2. ASSUME NEW x \in 1..n
        PROVE  Cardinality(upTo(x)) = x
    <2>1. upTo(x) = 1..x /\ x \in Nat
      OBVIOUS
    <2> HIDE DEF upTo
    <2> QED
      BY <2>1, UpTo
  <1>3. ASSUME NEW i \in 1..n
        PROVE  (CHOOSE x \in 1..n : Cardinality(upTo(x)) = i) = i
    <2>1. \E x \in 1..n : Cardinality(upTo(x)) = i
      BY <1>2
    <2>2. \A x \in 1..n : Cardinality(upTo(x)) = i => x = i
      BY <1>2
    <2> HIDE DEF upTo
    <2> QED
      BY <2>1, <2>2
  <1>4. Said(1..n) = [i \in 1..n |-> CHOOSE x \in 1..n : Cardinality(upTo(x)) = i]
    BY <1>1 DEF Said
  <1> HIDE DEF upTo
  <1> QED
    BY <1>3, <1>4 DEF Numbered

LEMMA NumberedOn ==
  ASSUME NEW n \in Nat \ {0}
  PROVE  Numbered(n - 1) \o <<n>> = Numbered(n)
BY DEF Numbered

Done(e) == \E i \in DOMAIN e : e[i] = "completed"

LEMMA QuietlyNotDone ==
  ASSUME NEW r, r.events \in Seq(Service!Kinds), NEW q, Quietly(r, q), Done(q.events)
  PROVE  Done(r.events)
  <1>1. CASE q.events = r.events
    BY <1>1
  <1>2. ASSUME NEW kind \in {"ready", "preview", "error"}, q.events = Append(r.events, kind)
        PROVE  Done(r.events)
    <2>1. PICK i \in DOMAIN q.events : q.events[i] = "completed"
      BY DEF Done
    <2>2. i \in 1..(Len(r.events) + 1) /\ q.events[Len(r.events) + 1] = kind
      BY <1>2, <2>1
    <2>3. i \in 1..Len(r.events) /\ r.events[i] = "completed"
      BY <1>2, <2>1, <2>2
    <2> QED
      BY <2>3 DEF Done
  <1> QED
    BY <1>1, <1>2 DEF Quietly

\* What is known of the sentences, when the service has said v.
Listening(r, p) == p \in Aliyun \/ (p = "tencent" /\ ~r.cancelled /\ r.done = "no")

Telling(v) ==
  /\ v.next \in Nat \ {0} /\ v.started \in BOOLEAN /\ v.guessed \in BOOLEAN
  /\ v.finished \in BOOLEAN /\ (v.finished => v.started)

\* How many sentences a text must have (Spoken).
Whole(v, p) == IF v.guessed /\ p # "qwen" THEN v.next ELSE v.next - 1

Hears(r, v, p) ==
  /\ r.final = 1..(v.next - 1)
  /\ p = "tencent" => r.guess = IF v.guessed THEN {v.next} ELSE {}
  /\ p \in Aliyun => r.active = IF v.guessed THEN v.next ELSE 0

Heard(r, v, p) ==
  /\ Listening(r, p) => Hears(r, v, p)
  /\ "completion" \in r.waits =>
       /\ r.done # "no" /\ v.finished
       /\ r.final \cup r.guess = 1..Whole(v, p)
  /\ Done(r.events) /\ p # "openai" => v.finished /\ r.text = Numbered(Whole(v, p))

HeardInv == Telling(server) /\ Heard(s, server, protocol)

LEMMA DeafHeard ==
  ASSUME NEW r, r.events \in Seq(Service!Kinds), NEW q, Deaf(r, q), NEW v, NEW p, Heard(r, v, p)
  PROVE  Heard(q, v, p)
  <1>1. Listening(q, p) => Listening(r, p)
    BY DEF Deaf, Listening
  <1>2. Hears(r, v, p) => Hears(q, v, p)
    BY DEF Deaf, Hears
  <1>3. Done(q.events) => Done(r.events)
    BY QuietlyNotDone DEF Deaf
  <1> QED
    BY <1>1, <1>2, <1>3 DEF Deaf, Heard

\* The next sentence follows those that were final.
LEMMA Onward ==
  ASSUME NEW n \in Nat \ {0}
  PROVE  /\ (1..(n - 1)) \cup {n} = 1..((n + 1) - 1)
         /\ n \notin 1..(n - 1) /\ 0 \notin 1..(n - 1) /\ n - 1 \in Nat
OBVIOUS

\* The service is not done while it speaks.
LEMMA SpeaksBeforeEnd ==
  ASSUME ToldInv, HeardInv, NEW m \in Messages, ServerSays(m)
  PROVE  /\ ~server.finished /\ "completion" \notin s.waits
         /\ protocol # "openai" /\ ~Done(s.events)
  <1>1. ~server.finished
    BY DEF ServerSays, HeardInv, Telling, Messages
  <1>2. s.socket = "open"
    BY DEF ServerSays
  <1>3. protocol # "openai"
    BY <1>2 DEF ToldInv, ByProtocol
  <1> QED
    BY <1>1, <1>3 DEF HeardInv, Heard

\* The tail of a message that ended nothing.
LEMMA NotYet ==
  ASSUME NEW r, NEW q, NEW v, NEW p, "completion" \notin q.waits, ~Done(q.events),
         Listening(q, p) => Hears(q, v, p)
  PROVE  Heard(q, v, p)
BY DEF Heard

LEMMA ServerMoves ==
  ASSUME ToldInv, HeardInv, NEW m \in Messages, ServerSays(m)
  PROVE  /\ Telling(server')
         /\ server'.next = IF m.type = "final" THEN server.next + 1 ELSE server.next
         /\ m.type \in {"error", "started", "finished"} => server'.guessed = server.guessed
         /\ m.type = "guess" => server'.guessed = TRUE
         /\ m.type = "final" => server'.guessed = FALSE
         /\ m.type = "finished" => server'.finished = TRUE
         /\ m.type = "guess" => server.guessed = FALSE
         /\ m.type \in {"guess", "final"} => m.id = server.next
  <1>1. m.type \in {"started", "finished", "error", "guess", "final"}
    BY DEF Messages
  <1>2. Telling(server)
    BY DEF HeardInv
  <1>3. server' = [ started |-> TRUE,
                 next |-> IF m.type = "final" THEN server.next + 1 ELSE server.next,
                 guessed |-> m.type = "guess" \/ (server.guessed /\ m.type # "final"),
                 finished |-> m.type \in {"finished", "error"} ]
    BY DEF ServerSays
  <1>4. PICK g \in BOOLEAN : g = (m.type = "guess" \/ (server.guessed /\ m.type # "final"))
    OBVIOUS
  <1>5. PICK f \in BOOLEAN : f = (m.type \in {"finished", "error"})
    <2>1. CASE m.type \in {"finished", "error"}
      BY <2>1, Zenon
    <2>2. CASE m.type \notin {"finished", "error"}
      <3>1. (m.type \in {"finished", "error"}) = FALSE
        BY <2>2
      <3> QED
        BY <3>1, Zenon
    <2> QED
      BY <2>1, <2>2
  <1>6. server'.started = TRUE /\ server'.guessed = g /\ server'.finished = f
        /\ server'.next = IF m.type = "final" THEN server.next + 1 ELSE server.next
    BY <1>3, <1>4, <1>5
  <1>7. Telling(server')
    <2>1. server'.next \in Nat \ {0}
      BY <1>2, <1>6 DEF Telling
    <2>2. server'.started = TRUE /\ server'.guessed \in BOOLEAN /\ server'.finished \in BOOLEAN
      BY <1>6, Zenon
    <2> QED
      BY <2>1, <2>2 DEF Telling
  <1>8. /\ m.type = "guess" => ~server.guessed
        /\ m.type \in {"guess", "final"} => m.id = server.next
    BY DEF ServerSays
  <1> QED
    BY <1>1, <1>2, <1>4, <1>5, <1>6, <1>7, <1>8 DEF Telling

LEMMA TencentHears ==
  ASSUME ToldInv, HeardInv, NEW m \in Messages, ServerSays(m), protocol = "tencent"
  PROVE  Heard(s', server', protocol) /\ Body(s, s') /\ (s.cancelled => s'.cancelled)
  <1> DEFINE next == server.next
  <1>0. /\ Fields(s) /\ s.events \in Seq(Service!Kinds) /\ s.socket = "open"
        /\ "completion" \notin s.waits /\ ~Done(s.events)
        /\ s' = TencentMessage(s, m) /\ next \in Nat \ {0}
        /\ m.type \in {"started", "finished", "error", "guess", "final"}
    BY SpeaksBeforeEnd DEF ToldInv, Events, ServerSays, Message, HeardInv, Telling, Messages
  <1>1. ASSUME Deaf(s, s'), Listening(s', protocol) => Hears(s', server', protocol)
        PROVE  Heard(s', server', protocol) /\ Body(s, s') /\ (s.cancelled => s'.cancelled)
    BY <1>0, <1>1, QuietlyNotDone, NotYet DEF Deaf
  <1>2. CASE s.cancelled \/ s.done # "no"
    <2>1. s' = s
      BY <1>0, <1>2 DEF TencentMessage
    <2>2. Deaf(s, s') /\ ~Listening(s', protocol)
      BY <1>0, <1>2, <2>1 DEF Deaf, Quietly, Body, Fields, Listening, Aliyun
    <2> QED
      BY <1>1, <2>2
  <1>3. CASE ~s.cancelled /\ s.done = "no"
    <2>1. Hears(s, server, protocol)
      BY <1>3 DEF HeardInv, Heard, Listening
    <2>2. ~s.handshake => s.events # <<>>
      BY <1>0, <1>3 DEF ToldInv, Told
    <2>3. m.type \in {"guess", "final", "finished"} => ~s.handshake
      BY DEF ServerSays, ToldInv, Started
    <2>4. CASE m.type = "error"
      <3>1. s' = TencentFails(s)
        BY <1>0, <1>3, <2>4 DEF TencentMessage
      <3>2. Deaf(s, s')
        BY <1>0, <3>1, TencentFailsDeaf
      <3>3. Hears(s, server', protocol)
        BY <2>1, <2>4, ServerMoves DEF Hears, Aliyun
      <3> QED
        BY <1>1, <3>2, <3>3 DEF Deaf, Hears
    <2>5. CASE m.type = "started"
      <3>1. Deaf(s, s')
        <4>1. CASE s.handshake
          <5>1. PICK q : q = [Settle(s, "start", "resolved") EXCEPT !.handshake = FALSE,
                                                                   !.handshakeTimer = FALSE]
            OBVIOUS
          <5>2. s' = push(q, "ready")
            BY <1>0, <1>3, <2>5, <4>1, <5>1 DEF TencentMessage
          <5> QED
            BY <1>0, <5>1, <5>2 DEF push, Settle, Deaf, Quietly, Body, Fields, New
        <4>2. CASE ~s.handshake
          <5>1. s' = s
            BY <1>0, <1>3, <2>5, <4>2 DEF TencentMessage
          <5> QED
            BY <1>0, <5>1 DEF Deaf, Quietly, Body, Fields
        <4> QED
          BY <4>1, <4>2
      <3>2. Hears(s, server', protocol)
        BY <2>1, <2>5, ServerMoves DEF Hears, Aliyun
      <3> QED
        BY <1>1, <3>1, <3>2 DEF Deaf, Hears
    <2>6. CASE m.type \in {"guess", "final"}
      <3>1. PICK q : /\ s' = push(q, "preview")
                     /\ IF m.type = "guess" THEN q = [s EXCEPT !.guess = @ \cup {m.id}]
                        ELSE q = [s EXCEPT !.guess = @ \ {m.id}, !.final = @ \cup {m.id}]
        BY <1>0, <1>3, <2>3, <2>6 DEF TencentMessage
      <3>2. /\ Body(s, q) /\ Flags(s, q) /\ q.waits = s.waits /\ q.events = s.events
            /\ m.type = "guess" => q.final = s.final /\ q.guess = s.guess \cup {m.id}
            /\ m.type = "final" => q.final = s.final \cup {m.id} /\ q.guess = s.guess \ {m.id}
        <4>1. CASE m.type = "guess"
          <5>1. q = [s EXCEPT !.guess = @ \cup {m.id}]
            BY <3>1, <4>1
          <5> QED
            BY <1>0, <4>1, <5>1 DEF Body, Flags, Fields, New
        <4>2. CASE m.type = "final"
          <5>1. q = [s EXCEPT !.guess = @ \ {m.id}, !.final = @ \cup {m.id}]
            BY <3>1, <4>2
          <5> QED
            BY <1>0, <4>2, <5>1 DEF Body, Flags, Fields, New
        <4> QED
          BY <2>6, <4>1, <4>2
      <3>3. /\ Body(q, s') /\ s'.waits = q.waits /\ s'.final = q.final /\ s'.guess = q.guess
            /\ s'.cancelled = q.cancelled /\ Quietly(q, s')
        BY <3>1, <3>2 DEF push, Quietly, Body, New
      <3>4. Quietly(s, s') /\ Body(s, s')
        BY <3>2, <3>3 DEF Quietly, Body
      <3>5. ~Done(s'.events) /\ "completion" \notin s'.waits
        BY <1>0, <3>2, <3>3, <3>4, QuietlyNotDone
      <3>6. Hears(s', server', protocol)
        <4>1. CASE m.type = "guess"
          <5>1. s.guess = {} /\ m.id = next /\ server'.next = next /\ server'.guessed = TRUE
            BY <2>1, <4>1, ServerMoves DEF Hears
          <5> QED
            BY <2>1, <3>2, <3>3, <4>1, <5>1 DEF Hears, Aliyun
        <4>2. CASE m.type = "final"
          <5>1. m.id = next /\ server'.next = next + 1 /\ server'.guessed = FALSE
            BY <4>2, ServerMoves
          <5>2. s'.guess = {}
            BY <2>1, <3>2, <3>3, <4>2, <5>1 DEF Hears
          <5>3. s'.final = 1..(server'.next - 1)
            BY <1>0, <2>1, <3>2, <3>3, <4>2, <5>1, Onward DEF Hears
          <5> QED
            BY <5>1, <5>2, <5>3 DEF Hears, Aliyun
        <4> QED
          BY <2>6, <4>1, <4>2
      <3> QED
        BY <3>2, <3>3, <3>4, <3>5, <3>6, NotYet DEF Flags
    <2>7. CASE m.type = "finished"
      <3>1. s' = TencentCompleted(s)
        BY <1>0, <1>3, <2>3, <2>7 DEF TencentMessage
      <3>2. s.final \cup s.guess = 1..Whole(server, protocol)
        <4>1. s.final = 1..(next - 1) /\ s.guess = IF server.guessed THEN {next} ELSE {}
          BY <2>1 DEF Hears
        <4> QED
          BY <1>0, <4>1, Onward DEF Whole
      <3>3. CASE s.final \cup s.guess = {}
        <4>1. s' = TencentFails(s)
          BY <2>3, <2>7, <3>1, <3>3 DEF TencentCompleted, TencentFails
        <4>2. Deaf(s, s')
          BY <1>0, <4>1, TencentFailsDeaf
        <4>3. Hears(s, server', protocol)
          BY <2>1, <2>7, ServerMoves DEF Hears, Aliyun
        <4> QED
          BY <1>1, <4>2, <4>3 DEF Deaf, Hears
      <3>4. CASE s.final \cup s.guess # {}
        <4>1. PICK q : q = [clearTimers(s) EXCEPT !.done = "completed"]
          OBVIOUS
        <4>2. /\ Body(s, q) /\ q.socket = "open" /\ q.waits = s.waits /\ q.events = s.events
              /\ q.final = s.final /\ q.guess = s.guess /\ q.cancelled = s.cancelled
              /\ q.done = "completed"
          BY <1>0, <4>1 DEF clearTimers, Body, Fields, New
        <4>3. s' = [q EXCEPT !.socket = "closing", !.waits = @ \cup {"completion"}]
          BY <3>1, <3>4, <4>1, <4>2 DEF TencentCompleted, closeSocket
        <4>4. /\ Body(s, s') /\ s'.events = s.events /\ s'.final = s.final
              /\ s'.guess = s.guess /\ s'.cancelled = s.cancelled /\ s'.done = "completed"
          BY <4>2, <4>3 DEF Body, New
        <4>5. server'.finished /\ Whole(server', protocol) = Whole(server, protocol)
          BY <2>7, ServerMoves DEF Whole
        <4> QED
          BY <1>0, <3>2, <4>4, <4>5 DEF Heard, Listening, Aliyun
      <3> QED
        BY <3>3, <3>4
    <2> QED
      BY <1>0, <2>4, <2>5, <2>6, <2>7
  <1> QED
    BY <1>2, <1>3

LEMMA AliyunHears ==
  ASSUME ToldInv, HeardInv, NEW m \in Messages, ServerSays(m), protocol \in Aliyun
  PROVE  Heard(s', server', protocol) /\ Body(s, s') /\ (s.cancelled => s'.cancelled)
  <1> DEFINE next == server.next
  <1>0. /\ Fields(s) /\ s.events \in Seq(Service!Kinds)
        /\ "completion" \notin s.waits /\ ~Done(s.events)
        /\ s' = AliyunMessage(s, m) /\ next \in Nat \ {0}
        /\ m.type \in {"started", "finished", "error", "guess", "final"}
        /\ Hears(s, server, protocol)
    BY SpeaksBeforeEnd
    DEF ToldInv, Events, ServerSays, Message, HeardInv, Telling, Messages, Heard, Listening, Aliyun
  <1>1. ASSUME Deaf(s, s'), Hears(s', server', protocol)
        PROVE  Heard(s', server', protocol) /\ Body(s, s') /\ (s.cancelled => s'.cancelled)
    BY <1>0, <1>1, QuietlyNotDone, NotYet DEF Deaf
  <1>2. CASE m.type \in {"error", "started"}
    <2>1. Deaf(s, s')
      BY <1>0, <1>2, failDeaf, markReadyDeaf DEF AliyunMessage
    <2>2. Hears(s, server', protocol)
      BY <1>0, <1>2, ServerMoves DEF Hears, Aliyun
    <2> QED
      BY <1>1, <2>1, <2>2 DEF Deaf, Hears
  <1>3. CASE m.type \in {"guess", "final"}
    <2>1. PICK q : /\ s' = emitPreview(q, s)
                   /\ IF m.type = "guess" THEN q = [s EXCEPT !.active = m.id]
                      ELSE q = [s EXCEPT !.final = @ \cup {m.id}, !.active = 0]
      BY <1>0, <1>3 DEF AliyunMessage
    <2>2. /\ Body(s, q) /\ q.waits = s.waits /\ q.events = s.events /\ q.cancelled = s.cancelled
          /\ m.type = "guess" => q.final = s.final /\ q.active = m.id
          /\ m.type = "final" => q.final = s.final \cup {m.id} /\ q.active = 0
      <3>1. CASE m.type = "guess"
        <4>1. q = [s EXCEPT !.active = m.id]
          BY <2>1, <3>1
        <4> QED
          BY <1>0, <3>1, <4>1 DEF Body, Fields, New
      <3>2. CASE m.type = "final"
        <4>1. q = [s EXCEPT !.final = @ \cup {m.id}, !.active = 0]
          BY <2>1, <3>2
        <4> QED
          BY <1>0, <3>2, <4>1 DEF Body, Fields, New
      <3> QED
        BY <1>3, <3>1, <3>2
    <2>3. /\ Body(q, s') /\ s'.waits = q.waits /\ s'.final = q.final /\ s'.active = q.active
          /\ s'.cancelled = q.cancelled /\ Quietly(q, s')
      <3>1. s' = q \/ s' = [q EXCEPT !.events = Append(@, "preview")]
        BY <2>1 DEF emitPreview, push
      <3> QED
        BY <2>2, <3>1 DEF Quietly, Body, New
    <2>4. Quietly(s, s') /\ Body(s, s')
      BY <2>2, <2>3 DEF Quietly, Body
    <2>5. ~Done(s'.events) /\ "completion" \notin s'.waits
      BY <1>0, <2>2, <2>3, <2>4, QuietlyNotDone
    <2>6. Hears(s', server', protocol)
      <3>1. CASE m.type = "guess"
        <4>1. m.id = next /\ server'.next = next /\ server'.guessed = TRUE
          BY <3>1, ServerMoves
        <4> QED
          BY <1>0, <2>2, <2>3, <3>1, <4>1 DEF Hears, Aliyun
      <3>2. CASE m.type = "final"
        <4>1. m.id = next /\ server'.next = next + 1 /\ server'.guessed = FALSE
          BY <3>2, ServerMoves
        <4>2. s'.final = 1..(server'.next - 1)
          BY <1>0, <2>2, <2>3, <3>2, <4>1, Onward DEF Hears
        <4> QED
          BY <2>2, <2>3, <3>2, <4>1, <4>2 DEF Hears, Aliyun
      <3> QED
        BY <1>3, <3>1, <3>2
    <2> QED
      BY <2>2, <2>3, <2>4, <2>5, <2>6, NotYet
  <1>4. CASE m.type = "finished"
    <2>1. /\ s.active = (IF server.guessed THEN next ELSE 0) /\ s.final = 1..(next - 1)
          /\ server'.finished /\ server'.next = next /\ server'.guessed = server.guessed
      BY <1>0, <1>4, ServerMoves DEF Hears
    <2>2. Hears(s, server', protocol)
      BY <1>0, <2>1 DEF Hears, Aliyun
    <2>3. PICK text : s' = complete(s, text) /\ text = Numbered(Whole(server', protocol))
      <3>1. Said(s.final) = Numbered(next - 1) /\ next - 1 \in Nat
        BY <1>0, <2>1, Onward, SaidInOrder
      <3>2. s.final \ {s.active} = s.final
        BY <1>0, <2>1, Onward
      <3>3. Numbered(next - 1) \in Seq(Nat)
        BY <3>1 DEF Numbered
      <3>4. PreviewText(s) = IF server.guessed THEN Numbered(next) ELSE Numbered(next - 1)
        <4>1. CASE ~server.guessed
          BY <2>1, <3>1, <3>2, <3>3, <4>1, ConcatEmptySeq DEF PreviewText
        <4>2. CASE server.guessed
          <5>1. s.active = next /\ next # 0
            BY <1>0, <2>1, <4>2
          <5>2. PreviewText(s) = Numbered(next - 1) \o <<next>>
            BY <3>1, <3>2, <5>1 DEF PreviewText
          <5> QED
            BY <1>0, <4>2, <5>2, NumberedOn
        <4> QED
          BY <4>1, <4>2
      <3> QED
        BY <1>0, <1>4, <2>1, <3>1, <3>4 DEF AliyunMessage, Whole, Aliyun
    <2>4. CASE s.done # "no" \/ s.cancelled
      <3>1. s' = s
        BY <2>3, <2>4 DEF complete
      <3> QED
        BY <1>0, <1>1, <2>2, <3>1 DEF Deaf, Quietly, Body, Fields
    <2>5. CASE ~(s.done # "no" \/ s.cancelled)
      <3>1. ~s.closed
        BY <2>5 DEF ToldInv, ByProtocol, Aliyun
      <3>2. PICK q : q = [clearTimers(s) EXCEPT !.done = "completed"]
        OBVIOUS
      <3>3. /\ Body(s, q) /\ q.waits = s.waits /\ q.final = s.final /\ q.guess = s.guess
            /\ q.active = s.active /\ q.cancelled = s.cancelled /\ q.closed = FALSE
        BY <1>0, <3>1, <3>2 DEF clearTimers, Body, Fields, New
      <3>4. PICK n : n = closeQueue(Complete(q, text))
        OBVIOUS
      <3>5. /\ Body(s, n) /\ n.waits = s.waits /\ n.final = s.final /\ n.guess = s.guess
            /\ n.active = s.active /\ n.cancelled = s.cancelled /\ n.text = text
        BY <3>3, <3>4 DEF closeQueue, Complete, push, Body, New
      <3>6. s' = Leave(n)
        BY <2>3, <2>5, <3>2, <3>4 DEF complete
      <3>7. /\ Body(s, s') /\ s'.waits = s.waits /\ s'.final = s.final /\ s'.guess = s.guess
            /\ s'.active = s.active /\ s'.cancelled = s.cancelled /\ s'.text = text
        BY <3>5, <3>6 DEF Leave, Body, New
      <3> QED
        BY <1>0, <2>1, <2>2, <2>3, <3>7 DEF Heard, Hears
    <2> QED
      BY <2>4, <2>5
  <1> QED
    BY <1>0, <1>2, <1>3, <1>4

-------------------------------------------------------------------------------
(***************************************************************************)
(* The steps of the module, with the audio and the sentences.              *)
(***************************************************************************)
WholeInv == ToldInv /\ CountedInv /\ HeardInv

\* A step on which a session hears nothing.
LEMMA DeafSteps ==
  ASSUME WholeInv, Deaf(s, s'), UNCHANGED <<protocol, server, recorded>>
  PROVE  CountedInv' /\ HeardInv'
  <1>1. Counted(s', recorded.units, protocol)
    BY BodyCounts DEF WholeInv, CountedInv, Deaf
  <1>2. Heard(s', server, protocol)
    BY DeafHeard DEF WholeInv, ToldInv, Events, HeardInv
  <1> QED
    BY <1>1, <1>2 DEF WholeInv, CountedInv, HeardInv

\* An upload has no sentences.
LEMMA UploadHeard ==
  ASSUME NEW r, NEW v, ByProtocol(r, "openai")
  PROVE  Heard(r, v, "openai")
BY DEF Heard, Listening, Aliyun, ByProtocol

\* Nor has the audio a part in them.
Unheard(r, q) ==
  /\ q.cancelled = r.cancelled /\ q.done = r.done /\ q.waits = r.waits
  /\ q.events = r.events /\ q.text = r.text
  /\ q.final = r.final /\ q.guess = r.guess /\ q.active = r.active

LEMMA UnheardHeard ==
  ASSUME NEW r, NEW q, NEW v, NEW p, Heard(r, v, p), Unheard(r, q)
  PROVE  Heard(q, v, p)
BY DEF Heard, Unheard, Listening, Hears

LEMMA SendsUnheard ==
  ASSUME NEW r, Fields(r)
  PROVE  Unheard(r, Sends(r))
BY DEF Sends, Unheard, Fields, New

LEMMA WriteUnheard ==
  ASSUME ToldInv, Write
  PROVE  Unheard(s, s')
  <1>1. Fields(s)
    BY DEF ToldInv
  <1> QED
    BY <1>1, SendsUnheard DEF Write, Unheard, Fields, New

LEMMA FinishUnheard ==
  ASSUME ToldInv, Finish
  PROVE  Unheard(s, s')
  <1>1. Fields(s)
    BY DEF ToldInv
  <1> QED
    BY <1>1, SendsUnheard DEF Finish, Finished, Unheard, Fields, New

LEMMA FinishCallUnheard ==
  ASSUME ToldInv, finish
  PROVE  Unheard(s, s')
  <1>1. Fields(s) /\ protocol \in Aliyun \cup {"tencent", "openai"}
    BY Known DEF ToldInv
  <1> QED
    BY <1>1 DEF finish, flush, Unheard, Fields, New, Aliyun

LEMMA AudioCallUnheard ==
  ASSUME ToldInv, NEW size \in FrameSizes, writeAudio(size)
  PROVE  Unheard(s, s')
  <1>1. Fields(s) /\ protocol \in Aliyun \cup {"tencent", "openai"}
    BY Known DEF ToldInv
  <1>2. PICK a, b, w : s' \in {s, [s EXCEPT !.write = w],
                                [s EXCEPT !.write = w, !.packets = a, !.buffer = b],
                                [s EXCEPT !.buffer = b], [s EXCEPT !.write = w, !.packets = a]}
    BY <1>1 DEF writeAudio, Aliyun
  <1> QED
    BY <1>1, <1>2 DEF Unheard, Fields, New

\* The audio moves while the service is silent.
LEMMA AudioSteps ==
  ASSUME WholeInv, Unheard(s, s'), UNCHANGED <<protocol, server>>
  PROVE  HeardInv'
BY UnheardHeard DEF WholeInv, HeardInv

LEMMA FailsDeaf ==
  ASSUME NEW r, Fields(r), NEW q, q.events = r.events, Deaf(r, q), Fields(q)
  PROVE  Deaf(r, Fails(q))
  <1>1. Deaf(q, Fails(q))
    BY TencentFailsDeaf, failDeaf DEF Fails
  <1> QED
    BY <1>1, DeafThen

LEMMA SocketFailsWhole ==
  ASSUME WholeInv, SocketFails
  PROVE  CountedInv' /\ HeardInv'
  <1>1. Fields(s)
    BY DEF WholeInv, ToldInv
  <1>2. PICK q : s' = Fails(q) /\ (q = s \/ q = [s EXCEPT !.socket = "closed"])
    BY DEF SocketFails
  <1>3. Fields(q) /\ Deaf(s, q) /\ q.events = s.events
    BY <1>1, <1>2 DEF Fields, Deaf, Quietly, Body, New
  <1> QED
    BY <1>1, <1>2, <1>3, FailsDeaf, DeafSteps DEF SocketFails

LEMMA TimerWhole ==
  ASSUME WholeInv, Timer
  PROVE  CountedInv' /\ HeardInv'
  <1>1. Fields(s)
    BY DEF WholeInv, ToldInv
  <1>2. PICK q : /\ s' = Fails(q)
                 /\ \/ q = [s EXCEPT !.handshakeTimer = FALSE]
                    \/ q = [s EXCEPT !.finalTimer = FALSE]
    BY DEF Timer
  <1>3. Fields(q) /\ Deaf(s, q) /\ q.events = s.events
    BY <1>1, <1>2 DEF Fields, Deaf, Quietly, Body, New
  <1> QED
    BY <1>1, <1>2, <1>3, FailsDeaf, DeafSteps DEF Timer

LEMMA SocketWhole ==
  ASSUME WholeInv, SocketOpens \/ SocketCloses
  PROVE  CountedInv' /\ HeardInv'
  <1>1. Fields(s)
    BY DEF WholeInv, ToldInv
  <1>2. s' = [s EXCEPT !.socket = "open"] \/ s' = [s EXCEPT !.socket = "closed"]
    BY DEF SocketOpens, SocketCloses
  <1>3. Deaf(s, s')
    BY <1>1, <1>2 DEF Fields, Deaf, Quietly, Body, New
  <1> QED
    BY <1>3, DeafSteps DEF SocketOpens, SocketCloses

LEMMA cancelWhole ==
  ASSUME WholeInv, cancel
  PROVE  CountedInv' /\ HeardInv'
  <1>1. Fields(s) /\ ByProtocol(s, protocol) /\ Counted(s, recorded.units, protocol)
        /\ protocol \in Aliyun \cup {"tencent", "openai"}
    BY Known DEF WholeInv, ToldInv, CountedInv
  <1>2. CASE protocol = "tencent"
    <2>1. PICK c : c = [s EXCEPT !.cancel = "pending"] /\ s' = TencentCancel(c)
      BY <1>2 DEF cancel
    <2>2. Deaf(s, s')
      BY <1>1, <2>1, CancelsDeaf
    <2> QED
      BY <2>2, DeafSteps DEF cancel
  <1>3. CASE protocol \in Aliyun
    <2>1. PICK c : c = [s EXCEPT !.cancel = "resolved"] /\ s' = AliyunCancel(c)
      BY <1>3 DEF cancel, Aliyun
    <2>2. Deaf(s, s')
      BY <1>1, <2>1, CancelsDeaf
    <2> QED
      BY <2>2, DeafSteps DEF cancel
  <1>4. CASE protocol = "openai"
    <2>1. s' = OpenAiCancel([s EXCEPT !.cancel = "resolved"])
      BY <1>4 DEF cancel
    <2>2. /\ s'.cancelled = TRUE /\ s'.write = s.write /\ s'.end = s.end /\ s'.sent = s.sent
          /\ s'.finishRequested = s.finishRequested /\ s'.turn = s.turn
          /\ s'.waits = s.waits /\ s'.socket = s.socket
      BY <1>1, <2>1 DEF OpenAiCancel, Fields, New
    <2>3. Counted(s', recorded.units, protocol)
      BY <1>1, <1>4, <2>2 DEF Counted
    <2>4. Heard(s', server, protocol)
      BY <1>1, <1>4, <2>2 DEF Heard, Listening, Aliyun, ByProtocol
    <2> QED
      BY <2>3, <2>4 DEF cancel, WholeInv, CountedInv, HeardInv
  <1> QED
    BY <1>1, <1>2, <1>3, <1>4

LEMMA ResumeWhole ==
  ASSUME WholeInv, Resume
  PROVE  CountedInv' /\ HeardInv'
  <1>1. PICK w \in s.waits : s' = Resumed(s, w)
    BY DEF Resume
  <1>2. Fields(s) /\ w \in Waits /\ s.events \in Seq(Service!Kinds)
    BY <1>1 DEF WholeInv, ToldInv, Fields, Events
  <1>3. protocol = "tencent"
    BY <1>1 DEF WholeInv, ToldInv, ByProtocol
  <1>4. CASE w # "completion"
    <2>1. Deaf(s, s')
      BY <1>1, <1>2, <1>4, ResumedDeaf
    <2> QED
      BY <2>1, DeafSteps DEF Resume
  <1>5. CASE w = "completion"
    <2>1. Heard(s, server, protocol) /\ server.next - 1 \in Nat
      BY DEF WholeInv, HeardInv, Telling
    <2>2. /\ s.done # "no" /\ server.finished /\ s.final \cup s.guess = 1..Whole(server, protocol)
      BY <1>1, <1>5, <2>1 DEF Heard
    <2>3. Said(s.final \cup s.guess) = Numbered(Whole(server, protocol))
      <3>1. Whole(server, protocol) \in Nat
        BY <2>1 DEF Whole, WholeInv, HeardInv, Telling
      <3> QED
        BY <2>2, <3>1, SaidInOrder
    <2>4. PICK q : q = [s EXCEPT !.waits = @ \ {w}]
      OBVIOUS
    <2>5. /\ Body(s, q) /\ Flags(s, q) /\ q.waits = s.waits \ {w} /\ q.closed = s.closed
          /\ q.final = s.final /\ q.guess = s.guess /\ q.events = s.events /\ q.text = s.text
      BY <1>2, <2>4 DEF Body, Flags, Fields, New
    <2>6. s' = closeQueue(Complete(q, Said(q.final \cup q.guess)))
      BY <1>1, <1>5, <2>4 DEF Resumed
    <2>7. PICK text : text = Said(q.final \cup q.guess)
      OBVIOUS
    <2>8. /\ Body(q, s') /\ Flags(q, s') /\ s'.waits = q.waits
          /\ s'.text = IF s.closed THEN s.text ELSE text
          /\ s.closed => s'.events = s.events
      <3>1. s' = closeQueue(Complete(q, text))
        BY <2>6, <2>7
      <3> QED
        BY <2>5, <3>1 DEF closeQueue, Complete, push, Body, Flags, New
    <2>9. Counted(s', recorded.units, protocol)
      <3>1. Body(s, s') /\ (s.cancelled => s'.cancelled)
        BY <2>5, <2>8 DEF Body, Flags
      <3> QED
        BY <3>1, BodyCounts DEF WholeInv, CountedInv
    <2>10. ~Listening(s', protocol) /\ "completion" \notin s'.waits
      BY <1>3, <1>5, <2>2, <2>5, <2>8 DEF Listening, Flags, Aliyun
    <2>11. Done(s'.events) => server.finished /\ s'.text = Numbered(Whole(server, protocol))
      BY <1>3, <2>1, <2>2, <2>3, <2>5, <2>7, <2>8 DEF Heard
    <2> QED
      BY <2>9, <2>10, <2>11 DEF Resume, Heard, WholeInv, CountedInv, HeardInv
  <1> QED
    BY <1>4, <1>5

LEMMA ServerSaysWhole ==
  ASSUME WholeInv, NEW m \in Messages, ServerSays(m)
  PROVE  CountedInv' /\ HeardInv'
  <1>1. protocol \in Aliyun \cup {"tencent"}
    BY SpeaksBeforeEnd, Known DEF WholeInv, ToldInv
  <1>2. Heard(s', server', protocol) /\ Body(s, s') /\ (s.cancelled => s'.cancelled)
    BY <1>1, TencentHears, AliyunHears DEF WholeInv
  <1>3. Counted(s', recorded.units, protocol)
    BY <1>2, BodyCounts DEF WholeInv, CountedInv
  <1>4. Telling(server')
    BY ServerMoves DEF WholeInv
  <1> QED
    BY <1>2, <1>3, <1>4 DEF ServerSays, WholeInv, CountedInv, HeardInv

\* The start itself is neither audio nor a sentence.
LEMMA StartDeaf ==
  ASSUME ToldInv, NEW aborted \in BOOLEAN, Start(aborted)
  PROVE  Deaf(s, s')
  <1>0. s = New /\ protocol \in {"tencent", "duplex", "qwen", "openai"}
    BY Known DEF ToldInv, Untouched, Start, Aliyun
  <1>1. CASE protocol = "tencent" /\ aborted
    <2>1. s' = [TencentCancel(s) EXCEPT !.start = "rejected"]
      BY <1>1 DEF Start
    <2> DEFINE q == [clearTimers(New) EXCEPT !.cancelled = TRUE, !.handshake = FALSE]
    <2>2. TencentCancel(s) = closeQueue([q EXCEPT !.waits = {}])
      BY <1>0 DEF New, TencentCancel, closeSocket, Resumed, Settle, clearTimers
    <2>3. /\ DOMAIN s' = DOMAIN New /\ s'.cancelled = TRUE /\ s'.waits = {} /\ s'.write = "idle"
          /\ s'.finish = "idle" /\ s'.finishRequested = FALSE /\ s'.end = FALSE
          /\ s'.done = "no" /\ s'.turn = "started" /\ s'.attempt = 1
          /\ s'.packets = 0 /\ s'.sent = 0 /\ s'.buffer = 0 /\ s'.text = <<>>
          /\ s'.final = {} /\ s'.guess = {} /\ s'.active = 0 /\ s'.events = <<>>
      BY <2>1, <2>2 DEF New, clearTimers, closeQueue
    <2>4. /\ s.write = "idle" /\ s.finish = "idle" /\ s.finishRequested = FALSE
          /\ s.end = FALSE /\ s.turn = "started" /\ s.attempt = 1 /\ s.done = "no"
          /\ s.packets = 0 /\ s.sent = 0 /\ s.buffer = 0 /\ s.text = <<>> /\ s.final = {}
          /\ s.guess = {} /\ s.active = 0 /\ s.events = <<>>
      BY <1>0 DEF New
    <2> QED
      BY <2>3, <2>4 DEF Deaf, Quietly, Body
  <1>2. CASE protocol \in Aliyun /\ aborted
    <2>1. s' = [New EXCEPT !.start = "rejected"]
      BY <1>0, <1>2 DEF Start, Aliyun
    <2> QED
      BY <1>0, <2>1 DEF New, Deaf, Quietly, Body
  <1>3. CASE protocol = "openai"
    <2>1. s' = [(IF aborted THEN OpenAiCancel(New) ELSE New) EXCEPT !.start = "resolved"]
      BY <1>0, <1>3 DEF Start
    <2> QED
      BY <1>0, <2>1 DEF New, OpenAiCancel, Deaf, Quietly, Body
  <1>4. CASE protocol # "openai" /\ ~aborted
    <2>1. s' = Connecting(New)
      BY <1>0, <1>4 DEF Start
    <2> QED
      BY <1>0, <2>1 DEF New, Connecting, Deaf, Quietly, Body
  <1> QED
    BY <1>0, <1>1, <1>2, <1>3, <1>4 DEF Aliyun

LEMMA StartWhole ==
  ASSUME WholeInv, NEW aborted \in BOOLEAN, Start(aborted)
  PROVE  CountedInv' /\ HeardInv'
  <1>1. Deaf(s, s')
    BY StartDeaf DEF WholeInv
  <1> QED
    BY <1>1, DeafSteps DEF Start

LEMMA WholeInit == Init => WholeInv
  <1> SUFFICES ASSUME Init
               PROVE  WholeInv
    OBVIOUS
  <1>1. s = New /\ server.next = 1 /\ recorded.units = 0
        /\ server.guessed = FALSE /\ server.started = FALSE /\ server.finished = FALSE
    BY DEF Init
  <1>2. /\ New.write = "idle" /\ New.end = FALSE /\ New.finishRequested = FALSE
        /\ New.turn = "started" /\ New.packets = 0 /\ New.sent = 0 /\ New.buffer = 0
        /\ New.waits = {} /\ New.events = <<>> /\ New.final = {} /\ New.guess = {}
        /\ New.active = 0
    BY DEF New
  <1>3. CountedInv
    BY <1>1, <1>2 DEF CountedInv, Counted, Accounted
  <1>4. Telling(server)
    <2>1. server.next \in Nat \ {0}
      BY <1>1
    <2>2. server.started \in BOOLEAN /\ server.guessed \in BOOLEAN /\ server.finished \in BOOLEAN
      BY <1>1, Zenon
    <2> QED
      BY <1>1, <2>1, <2>2 DEF Telling
  <1>5. Heard(s, server, protocol)
    BY <1>1, <1>2 DEF Heard, Hears, Done, Aliyun
  <1> QED
    BY <1>3, <1>4, <1>5, ToldInit DEF WholeInv, HeardInv

LEMMA WholeNext ==
  ASSUME WholeInv, [Next]_vars
  PROVE  WholeInv'
  <1>1. ToldInv'
    BY ToldNext DEF WholeInv
  <1> SUFFICES CountedInv' /\ HeardInv'
    BY <1>1 DEF WholeInv
  <1>2. ASSUME NEW aborted \in BOOLEAN, Start(aborted)
        PROVE  CountedInv' /\ HeardInv'
    BY <1>2, StartWhole
  <1>3. ASSUME NEW size \in FrameSizes, writeAudio(size)
        PROVE  CountedInv' /\ HeardInv'
    <2>1. CountedInv'
      BY <1>3, AudioCallCounts DEF WholeInv
    <2>2. HeardInv'
      BY <1>3, AudioCallUnheard, AudioSteps DEF WholeInv, writeAudio
    <2> QED
      BY <2>1, <2>2
  <1>4. CASE finish
    <2>1. CountedInv'
      BY <1>4, FinishCallCounts DEF WholeInv, CountedInv, finish
    <2>2. HeardInv'
      BY <1>4, FinishCallUnheard, AudioSteps DEF WholeInv, finish
    <2> QED
      BY <2>1, <2>2
  <1>5. CASE Write
    <2>1. CountedInv'
      BY <1>5, WriteCounts DEF WholeInv, CountedInv, Write
    <2>2. HeardInv'
      BY <1>5, WriteUnheard, AudioSteps DEF WholeInv, Write
    <2> QED
      BY <2>1, <2>2
  <1>6. CASE Finish
    <2>1. CountedInv'
      BY <1>6, FinishCounts DEF WholeInv, CountedInv, Finish
    <2>2. HeardInv'
      BY <1>6, FinishUnheard, AudioSteps DEF WholeInv, Finish
    <2> QED
      BY <2>1, <2>2
  <1>7. CASE Upload
    <2>1. CountedInv'
      BY <1>7, UploadCounts DEF WholeInv, CountedInv, Upload
    <2>2. HeardInv'
      BY <1>1, <1>7, UploadHeard DEF WholeInv, ToldInv, HeardInv, Upload
    <2> QED
      BY <2>1, <2>2
  <1>8. CASE cancel
    BY <1>8, cancelWhole
  <1>9. CASE SocketOpens \/ SocketCloses
    BY <1>9, SocketWhole
  <1>10. CASE SocketFails
    BY <1>10, SocketFailsWhole
  <1>11. CASE Resume
    BY <1>11, ResumeWhole
  <1>12. CASE Timer
    BY <1>12, TimerWhole
  <1>13. ASSUME NEW m \in Messages, ServerSays(m)
         PROVE  CountedInv' /\ HeardInv'
    BY <1>13, ServerSaysWhole
  <1>14. CASE UNCHANGED vars
    BY <1>14 DEF vars, WholeInv, CountedInv, HeardInv
  <1> QED
    BY <1>2, <1>3, <1>4, <1>5, <1>6, <1>7, <1>8, <1>9, <1>10, <1>11, <1>12, <1>13, <1>14
    DEF Next, Progress

LEMMA WholeIsWhole == WholeInv => CompletedIsWhole
  <1> SUFFICES ASSUME WholeInv
               PROVE  CompletedIsWhole
    OBVIOUS
  <1>1. s.end /\ ~s.cancelled => s.sent = recorded.units
    BY DEF WholeInv, CountedInv, Counted, Accounted
  <1>2. Completed /\ protocol # "openai" => s.text = Numbered(Whole(server, protocol))
    BY DEF WholeInv, HeardInv, Heard, Completed, Done
  <1> QED
    BY <1>1, <1>2 DEF CompletedIsWhole, Numbered, Whole, Spoken

\* What a recogniser completed is whole: all that was recorded was sent before its end was
\* announced, and whenever the service ends, the text is that of every sentence it has made
\* final or begun (but Qwen's last guess), once and in order; over any number
\* of sentences, and for frames and packets of any size.
THEOREM WholeCorrect == Spec => []CompletedIsWhole
  <1>1. WholeInv /\ [Next]_vars => WholeInv'
    BY WholeNext
  <1> QED
    BY <1>1, WholeInit, WholeIsWhole, PTL DEF Spec

===============================================================================
