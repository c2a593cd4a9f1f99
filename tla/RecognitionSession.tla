-------------------------- MODULE RecognitionSession --------------------------
(***************************************************************************)
(* The session of a speech recogniser, as the coordinator uses one:        *)
(* start(), then audio, finish(), and cancel() at any time; over a network *)
(* that may stay silent, refuse or break, and with its own timers.  Four   *)
(* protocols implement it: Tencent's, the two of Aliyun (the duplex one    *)
(* and Qwen's), and an upload to an OpenAI-compatible service.             *)
(*                                                                         *)
(* A session is a record of its fields, its socket, the calls made of it   *)
(* and the events it has pushed; a handler is an operator on that record.  *)
(* What a recogniser hears is a few sentences, each first guessed and then *)
(* final.                                                                  *)
(***************************************************************************)
EXTENDS Naturals, Sequences, FiniteSets

CONSTANTS
  Protocols,    \* among the four
  Sentences,    \* how many there are at most
  FrameSizes,   \* of the audio, in units
  Packet,       \* PCM_PACKET_BYTES in those units
  Frames,       \* bound: frames recorded
  AudioLimit    \* maximumAudioBytes

ASSUME ProtocolsKnown == Protocols \subseteq {"tencent", "duplex", "qwen", "openai"}
ASSUME FrameSizesKnown == FrameSizes \subseteq Nat
ASSUME Sizes == Packet \in Nat \ {0} /\ Sentences \in Nat

VARIABLES
  protocol,
  s,            \* the session
  server,       \* what the service is up to
  recorded      \* frames and units of audio that were recorded

vars == <<protocol, s, server, recorded>>

Ids == 1..Sentences

New ==
  [ start |-> "idle", write |-> "idle", finish |-> "idle", cancel |-> "idle",
    socket |-> "none", handshake |-> FALSE, handshakeTimer |-> FALSE, finalTimer |-> FALSE,
    finishRequested |-> FALSE, cancelled |-> FALSE, done |-> "no",
    waits |-> {}, buffer |-> 0, packets |-> 0, sent |-> 0, end |-> FALSE,
    final |-> {}, active |-> 0, guess |-> {}, turn |-> "started", attempt |-> 1,
    events |-> <<>>, text |-> <<>>, closed |-> FALSE ]

\* EventQueue: what is pushed after close() is dropped.
push(r, kind) ==
  IF r.closed THEN r ELSE [r EXCEPT !.events = Append(@, kind)]

closeQueue(r) == [r EXCEPT !.closed = TRUE]

clearTimers(r) == [r EXCEPT !.handshakeTimer = FALSE, !.finalTimer = FALSE]

Settle(r, call, how) == IF r[call] = "pending" THEN [r EXCEPT ![call] = how] ELSE r

Complete(r, text) == [push(r, "completed") EXCEPT !.text = IF r.closed THEN @ ELSE text]

\* The sentences of a set, in the order in which they were spoken.
Said(ids) ==
  [i \in 1..Cardinality(ids) |-> CHOOSE x \in ids : Cardinality({y \in ids : y <= x}) = i]

Connecting(r) ==
  [r EXCEPT !.start = "pending", !.socket = "connecting",
            !.handshake = TRUE, !.handshakeTimer = TRUE]

-------------------------------------------------------------------------------
(***************************************************************************)
(* TencentRealtimeAsrSession.  It closes its socket before it says how it  *)
(* ended; `waits` are the operations that await that.                      *)
(***************************************************************************)
Resumed(r, w) ==
  LET q == [r EXCEPT !.waits = @ \ {w}] IN
  CASE w = "cancel" -> closeQueue(Settle(q, "cancel", "resolved"))
    [] w = "cancel after completion" -> Settle(q, "cancel", "resolved")
    [] w = "failed handshake" -> closeQueue(Settle(q, "start", "rejected"))
    [] w = "error" -> closeQueue(push(q, "error"))
    [] w = "completion" -> closeQueue(Complete(q, Said(q.final \cup q.guess)))

\* #closeSocket: without a socket it returns at once.
closeSocket(r, w) ==
  IF r.socket \in {"none", "closed"} THEN Resumed(r, w)
  ELSE [r EXCEPT !.socket = "closing", !.waits = @ \cup {w}]

failHandshake(r) ==
  IF ~r.handshake \/ r.done = "failed" THEN r
  ELSE closeSocket([clearTimers(r) EXCEPT !.done = "failed", !.handshake = FALSE],
                   "failed handshake")

\* Mutant of emitError: another end may be on its way.
emitErrorAgain(r) ==
  IF r.cancelled THEN r ELSE push([clearTimers(r) EXCEPT !.done = "failed"], "error")

emitError(r) ==
  IF r.done # "no" \/ r.cancelled THEN r
  ELSE closeSocket([clearTimers(r) EXCEPT !.done = "failed"], "error")

TencentFails(r) == IF r.handshake THEN failHandshake(r) ELSE emitError(r)

\* Mutant of TencentCancel: start() is left waiting.
TencentCancelForgetful(r) ==
  IF r.done = "completed" THEN closeSocket(r, "cancel after completion")
  ELSE closeSocket([clearTimers(r) EXCEPT !.cancelled = TRUE, !.handshake = FALSE], "cancel")

TencentCancel(r) ==
  IF r.done = "completed" THEN closeSocket(r, "cancel after completion")
  ELSE closeSocket([clearTimers(IF r.handshake THEN Settle(r, "start", "rejected") ELSE r)
                      EXCEPT !.cancelled = TRUE, !.handshake = FALSE], "cancel")

TencentCompleted(r) ==
  IF r.final \cup r.guess = {} THEN emitError(r)
  ELSE closeSocket([clearTimers(r) EXCEPT !.done = "completed"], "completion")

\* The first message without an error code is the end of the handshake.
TencentMessage(r, m) ==
  LET q == IF r.handshake
           THEN push([Settle(r, "start", "resolved") EXCEPT !.handshake = FALSE,
                                                            !.handshakeTimer = FALSE], "ready")
           ELSE r
  IN CASE r.cancelled \/ r.done # "no" -> r
       [] ~r.cancelled /\ r.done = "no" /\ m.type = "error" -> TencentFails(r)
       [] ~r.cancelled /\ r.done = "no" /\ m.type = "started" -> q
       [] ~r.cancelled /\ r.done = "no" /\ m.type = "guess" ->
            push([q EXCEPT !.guess = @ \cup {m.id}], "preview")
       [] ~r.cancelled /\ r.done = "no" /\ m.type = "final" ->
            push([q EXCEPT !.guess = @ \ {m.id}, !.final = @ \cup {m.id}], "preview")
       [] ~r.cancelled /\ r.done = "no" /\ m.type = "finished" -> TencentCompleted(q)

-------------------------------------------------------------------------------
(***************************************************************************)
(* AliyunWebSocketSession, AliyunDuplexAsrSession, QwenRealtimeAsrSession. *)
(***************************************************************************)
\* socket.close() does not wait.
Leave(r) == [r EXCEPT !.socket = IF @ \in {"none", "closed"} THEN @ ELSE "closing"]

\* Mutant of fail: the socket is left to the service.
failOpen(r) ==
  IF r.done # "no" \/ r.cancelled THEN r
  ELSE closeQueue(push([clearTimers(IF r.handshake THEN Settle(r, "start", "rejected") ELSE r)
                          EXCEPT !.done = "failed", !.handshake = FALSE], "error"))

fail(r) ==
  IF r.done # "no" \/ r.cancelled THEN r
  ELSE Leave(closeQueue(push(
         [clearTimers(IF r.handshake THEN Settle(r, "start", "rejected") ELSE r)
            EXCEPT !.done = "failed", !.handshake = FALSE], "error")))

complete(r, text) ==
  IF r.done # "no" \/ r.cancelled THEN r
  ELSE Leave(closeQueue(Complete([clearTimers(r) EXCEPT !.done = "completed"], text)))

AliyunCancel(r) ==
  Leave(closeQueue(
    [clearTimers(IF r.handshake THEN Settle(r, "start", "rejected") ELSE r)
       EXCEPT !.cancelled = TRUE, !.handshake = FALSE]))

markReady(r) ==
  IF ~r.handshake THEN r
  ELSE Settle(push([r EXCEPT !.handshake = FALSE, !.handshakeTimer = FALSE], "ready"),
              "start", "resolved")

PreviewText(r) ==
  Said(r.final \ {r.active}) \o (IF r.active = 0 THEN <<>> ELSE <<r.active>>)

emitPreview(r, before) ==
  IF PreviewText(r) = PreviewText(before) THEN r ELSE push(r, "preview")

\* Qwen's final text leaves a sentence out that was never final.
AliyunMessage(r, m) ==
  CASE m.type = "error" -> fail(r)
    [] m.type = "started" -> markReady(r)
    [] m.type = "guess" -> emitPreview([r EXCEPT !.active = m.id], r)
    [] m.type = "final" -> emitPreview([r EXCEPT !.final = @ \cup {m.id}, !.active = 0], r)
    [] m.type = "finished" ->
         complete(r, IF protocol = "qwen" THEN Said(r.final) ELSE PreviewText(r))

-------------------------------------------------------------------------------
(***************************************************************************)
(* OpenAiCompatibleAsrSession: events() uploads the audio once it is       *)
(* finished; `turn` is where it waits.                                     *)
(***************************************************************************)
OpenAiCancel(r) == [r EXCEPT !.cancelled = TRUE, !.buffer = 0]

Over(r) == closeQueue([r EXCEPT !.turn = "over", !.buffer = 0])

\* The request was made, or could not be; the service may be tried once more.
OpenAiAnswered(r, answer) ==
  CASE answer = "text" -> Over(Complete(r, <<1>>))
    [] answer = "unavailable" /\ r.attempt = 1 -> [r EXCEPT !.turn = "backoff"]
    [] answer = "refused" \/ (answer = "unavailable" /\ r.attempt = 2) -> Over(push(r, "error"))

\* An aborted request counts as one that the network failed.
OpenAiTurn(r) ==
  CASE r.turn = "started" ->
         IF r.cancelled THEN Over(r) ELSE push([r EXCEPT !.turn = "recorded"], "ready")
    [] r.turn = "recorded" ->
         IF r.cancelled THEN Over(r)
         ELSE [r EXCEPT !.turn = "request", !.sent = r.buffer, !.end = TRUE]
    [] r.turn = "backoff" ->
         IF r.cancelled THEN Over(r) ELSE [r EXCEPT !.turn = "request", !.attempt = 2]

-------------------------------------------------------------------------------
(***************************************************************************)
(* The calls of the coordinator.                                           *)
(***************************************************************************)
\* start(signal), which may have been aborted while the session was created.
Start(aborted) ==
  /\ s.start = "idle"
  /\ s' = CASE protocol = "tencent" /\ aborted ->
                 [TencentCancel(s) EXCEPT !.start = "rejected"]
            [] protocol \in {"duplex", "qwen"} /\ aborted -> [s EXCEPT !.start = "rejected"]
            [] protocol = "openai" ->
                 [(IF aborted THEN OpenAiCancel(s) ELSE s) EXCEPT !.start = "resolved"]
            [] protocol # "openai" /\ ~aborted -> Connecting(s)
  /\ UNCHANGED <<protocol, server, recorded>>

\* The audio pump waits for each frame; Tencent's packets are cut out of the frames.
writeAudio(size) ==
  LET whole == s.buffer + size
      next == [recorded EXCEPT !.frames = @ + 1, !.units = @ + size]
  IN
  /\ s.start = "resolved" /\ s.write \in {"idle", "resolved"}
  /\ ~s.finishRequested
  /\ recorded.frames < Frames
  /\ IF s.cancelled /\ protocol \in {"tencent", "openai"} THEN UNCHANGED s
     ELSE s' = CASE protocol = "tencent" ->
                      [s EXCEPT !.write = "pending", !.packets = whole \div Packet,
                                !.buffer = whole % Packet]
                 [] protocol = "openai" ->
                      IF whole > AudioLimit THEN [s EXCEPT !.write = "rejected"]
                      ELSE [s EXCEPT !.buffer = whole]
                 [] OTHER -> [s EXCEPT !.write = "pending", !.packets = size]
  /\ recorded' = next
  /\ UNCHANGED <<protocol, server>>

\* One send of writeAudio or finish: a packet of Tencent's, a whole frame of Aliyun's.
Sends(r) ==
  CASE r.write = "pending" /\ protocol = "tencent" ->
         [r EXCEPT !.sent = @ + Packet, !.packets = @ - 1]
    [] r.write = "pending" /\ protocol # "tencent" ->
         [r EXCEPT !.sent = @ + r.packets, !.packets = 0]
    [] r.write # "pending" ->
         [r EXCEPT !.sent = @ + r.buffer, !.packets = @ - 1, !.buffer = 0]

\* A packet that waited for its turn is not sent by a session that was cancelled, and the
\* wait itself is aborted; a send may fail, and does if the socket is not open.
Write ==
  /\ s.write = "pending"
  /\ \/ /\ s.packets > 0 /\ s.socket = "open" /\ ~s.cancelled
        /\ s' = Sends(s)
     \/ /\ s.packets = 0 \/ (s.cancelled /\ protocol = "tencent")
        /\ s' = [s EXCEPT !.write = "resolved"]
     \/ s' = [s EXCEPT !.write = "rejected"]
  /\ UNCHANGED <<protocol, server, recorded>>

\* Mutant of flush: what does not fill a packet is forgotten.
flushNothing(r) == [r EXCEPT !.packets = 0]

\* PcmPacketizer.flush.
flush(r) == [r EXCEPT !.packets = IF r.buffer > 0 THEN 1 ELSE 0]

\* The coordinator finishes once the pump has ended well, and no session it cancels.
finish ==
  /\ s.start = "resolved" /\ s.write \in {"idle", "resolved"} /\ ~s.cancelled
  /\ ~s.finishRequested
  /\ LET r == [s EXCEPT !.finishRequested = TRUE] IN
     s' = CASE protocol = "tencent" -> flush([r EXCEPT !.finish = "pending"])
            [] protocol = "openai" -> [r EXCEPT !.finish = "resolved"]
            [] OTHER -> [r EXCEPT !.finish = "pending"]
  /\ UNCHANGED <<protocol, server, recorded>>

\* Mutant of Finished: the final timer is forgotten.
FinishedWithoutTimer(r) == [r EXCEPT !.finish = "resolved"]

Finished(r) == [r EXCEPT !.finish = "resolved", !.finalTimer = TRUE]

\* The rest of the audio, the message that ends it, and the callback of that send.
Finish ==
  /\ s.finish = "pending"
  /\ \/ /\ s.packets > 0 /\ s.socket = "open" /\ ~s.cancelled
        /\ s' = Sends(s)
     \/ /\ s.packets = 0 /\ ~s.end /\ s.socket = "open"
        /\ s' = [s EXCEPT !.end = TRUE]
     \/ /\ s.end
        /\ s' = Finished(s)
     \/ s' = [s EXCEPT !.finish = "rejected"]
  /\ UNCHANGED <<protocol, server, recorded>>

\* The signal and cancel(); the coordinator calls both, once.
cancel ==
  /\ s.cancel = "idle" /\ s.start # "idle"
  /\ s' = CASE protocol = "tencent" -> TencentCancel([s EXCEPT !.cancel = "pending"])
            [] protocol = "openai" -> OpenAiCancel([s EXCEPT !.cancel = "resolved"])
            [] OTHER -> AliyunCancel([s EXCEPT !.cancel = "resolved"])
  /\ UNCHANGED <<protocol, server, recorded>>

-------------------------------------------------------------------------------
(***************************************************************************)
(* The socket, its timers and the service.                                 *)
(***************************************************************************)
Fails(r) == IF protocol = "tencent" THEN TencentFails(r) ELSE fail(r)

\* Duplex sends run-task at once; Qwen configures the session once it was created.
SocketOpens ==
  /\ s.socket = "connecting"
  /\ s' = [s EXCEPT !.socket = "open"]
  /\ UNCHANGED <<protocol, server, recorded>>

\* An error is followed by the close, and a close may come alone.
SocketFails ==
  /\ s.socket \in {"connecting", "open"}
  /\ \/ s' = Fails(s)
     \/ s' = Fails([s EXCEPT !.socket = "closed"])
  /\ UNCHANGED <<protocol, server, recorded>>

SocketCloses ==
  /\ s.socket = "closing"
  /\ s' = [s EXCEPT !.socket = "closed"]
  /\ UNCHANGED <<protocol, server, recorded>>

Resume ==
  /\ s.socket = "closed"
  /\ \E w \in s.waits : s' = Resumed(s, w)
  /\ UNCHANGED <<protocol, server, recorded>>

\* Tencent's handshake timer asks failHandshake, which looks whether it is still open.
Timer ==
  /\ \/ s.handshakeTimer /\ s' = Fails([s EXCEPT !.handshakeTimer = FALSE])
     \/ s.finalTimer /\ s' = Fails([s EXCEPT !.finalTimer = FALSE])
  /\ UNCHANGED <<protocol, server, recorded>>

Message(m) == IF protocol = "tencent" THEN TencentMessage(s, m) ELSE AliyunMessage(s, m)

\* What the service says, in the order of its protocol: readiness, then sentence by sentence
\* a guess (later ones change nothing here) and the final text.  It may end at any time, by
\* itself too, and over a sentence it has only guessed.
ServerSays(m) ==
  /\ s.socket = "open"
  /\ CASE m.type = "started" -> ~server.started
       [] m.type = "guess" ->
              server.started /\ ~server.finished /\ ~server.guessed /\ m.id = server.next
       [] m.type = "final" -> server.started /\ ~server.finished /\ m.id = server.next
       [] m.type = "finished" -> server.started /\ ~server.finished
       [] m.type = "error" -> ~server.finished
  /\ server' = [ started |-> TRUE,
                 next |-> IF m.type = "final" THEN server.next + 1 ELSE server.next,
                 guessed |-> m.type = "guess" \/ (server.guessed /\ m.type # "final"),
                 finished |-> m.type \in {"finished", "error"} ]
  /\ s' = Message(m)
  /\ UNCHANGED <<protocol, recorded>>

\* The stream of an upload, which the coordinator reads once start() has returned.
Upload ==
  /\ protocol = "openai" /\ s.start = "resolved"
  /\ \/ /\ s.turn = "started" \/ s.turn = "backoff"
              \/ (s.turn = "recorded" /\ (s.cancelled \/ s.finishRequested))
        /\ s' = OpenAiTurn(s)
     \/ /\ s.turn = "request"
        /\ \E answer \in {"text", "refused", "unavailable"} : s' = OpenAiAnswered(s, answer)
  /\ UNCHANGED <<protocol, server, recorded>>

-------------------------------------------------------------------------------
Messages ==
  [type : {"started", "finished", "error"}, id : {0}] \cup [type : {"guess", "final"}, id : Ids]

Init ==
  /\ protocol \in Protocols
  /\ s = New
  /\ server = [started |-> FALSE, next |-> 1, guessed |-> FALSE, finished |-> FALSE]
  /\ recorded = [frames |-> 0, units |-> 0]

Progress ==
  \/ Write \/ Finish \/ SocketCloses \/ Resume \/ Timer \/ Upload

Next ==
  \/ \E aborted \in BOOLEAN : Start(aborted)
  \/ \E size \in FrameSizes : writeAudio(size)
  \/ finish \/ cancel
  \/ SocketOpens \/ SocketFails
  \/ \E m \in Messages : ServerSays(m)
  \/ Progress

Spec == Init /\ [][Next]_vars

\* Timers fire, a socket that is being closed closes, sends call back, and an upload is
\* answered (the SDK has a timeout); nothing is assumed of the service or the network.
FairSpec == Spec /\ WF_vars(Progress)

-------------------------------------------------------------------------------
(***************************************************************************)
(* Properties.                                                             *)
(***************************************************************************)
Service == INSTANCE RecognitionService
  WITH calls <- [start |-> s.start, finish |-> s.finish, cancel |-> s.cancel],
       events <- s.events, ended <- s.closed

\* Every protocol is a recognition session as the coordinator knows it: one end, after
\* readiness, and no call that is answered twice, however cancel(), the timers, the socket
\* and the service meet.
ImplementsRecognition == Service!Spec

\* start() returns or throws, whatever the service does and whoever cancels meanwhile; once
\* the recording was finished, or the session cancelled, the stream ends, so that the
\* coordinator's event pump does not wait for ever; and no socket is left behind.
RecognitionEnds ==
  /\ s.start = "pending" ~> s.start # "pending"
  /\ s.start = "resolved" /\ (s.finish \in {"resolved", "rejected"} \/ s.cancelled) ~>
       (s.closed \/ s.finish = "rejected")
  /\ s.closed \/ s.cancelled ~> s.socket \in {"none", "closed"}

\* The sentences that a text must have: those the service made final, and the one it has only
\* guessed, which Qwen's leaves out.
Spoken == IF server.guessed /\ protocol # "qwen" THEN server.next ELSE server.next - 1

\* A recording was sent whole before its end was announced; and whenever a service ends, the
\* text is that of all sentences, each once and in order.
Completed == \E i \in DOMAIN s.events : s.events[i] = "completed"

CompletedIsWhole ==
  /\ s.end /\ ~s.cancelled => s.sent = recorded.units
  /\ Completed /\ protocol # "openai" => s.text = [i \in 1..Spoken |-> i]

===============================================================================
