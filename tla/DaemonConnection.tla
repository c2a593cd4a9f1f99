--------------------------- MODULE DaemonConnection ---------------------------
(***************************************************************************)
(* One client's JSON-RPC connection in the daemon                          *)
(* (apps/daemon/src/rpc/daemon-rpc-connection.ts and the wiring of         *)
(* runtime/create-daemon.ts), on top of the SessionService its coordinator *)
(* offers.  Requests are dispatched one after the other, and each waits    *)
(* for its coordinator call on its own.  Events go through                 *)
(* #notificationChain, one write after the other; an answer is written     *)
(* directly and may overtake the events still in the chain.  Here the      *)
(* chain and the socket are one queue, `replies`, and an answer is put     *)
(* anywhere among the events at its end.                                   *)
(***************************************************************************)
EXTENDS Naturals, Sequences

CONSTANTS
  Sessions,     \* 1 .. n, in the order randomUUID() hands them out
  None,
  Backlog       \* bound: messages unread by the client when a session moves on

VARIABLES
  live, last, gate, svc, out,   \* see SessionService
  requests,     \* what the client wrote and the daemon has not dispatched yet
  replies,      \* what the daemon wrote and the client has not read yet
  rpc           \* the DaemonRpcConnection object

service == <<live, last, gate, svc, out>>
vars == <<service, requests, replies, rpc>>

Service == INSTANCE SessionService

Message(s, method, value) == Service!Event(s, method, value)
Answer(request, value) == Message(request.session, request.method, value)

\* link: does the socket still connect the two ends?  closing: dispose() was
\* called and awaits the cancellation of the session `awaited`.  calls: how many
\* handlers are suspended for each promise of each session.
NoCalls == [s \in Sessions |-> [start |-> 0, finish |-> 0, cancel |-> 0]]

Accepted ==
  [ link |-> "up", initialized |-> FALSE, closed |-> FALSE, closing |-> FALSE,
    awaited |-> None, disposed |-> FALSE, calls |-> NoCalls ]

NoConnection == [Accepted EXCEPT !.link = "down", !.closed = TRUE, !.closing = TRUE,
                                 !.disposed = TRUE]

-------------------------------------------------------------------------------
(***************************************************************************)
(* Helpers.                                                                *)
(***************************************************************************)
Events == {"phase", "preview", "polishingState", "results", "completed", "error"}

\* #enqueueNotification, for what the coordinator published in this step.
Publish(q) == IF rpc.closed \/ rpc.link = "down" THEN q ELSE q \o out'

\* The queues that result when n requests at once are answered like this.
Answering(q, answer, n) ==
  { SubSeq(q, 1, k) \o [i \in 1 .. n |-> answer] \o SubSeq(q, k + 1, Len(q)) :
      k \in { k \in 0 .. Len(q) : \A j \in k + 1 .. Len(q) : q[j].method \in Events } }

\* Nobody acts on the acknowledgement of anything but initialize and start.
Telling(answer) == answer.value = "error" \/ answer.method \in {"initialize", "start"}

WriteAll(q, answer, n) ==
  replies' \in IF rpc.link = "up" /\ Telling(answer) THEN Answering(q, answer, n) ELSE {q}

Write(q, answer) == WriteAll(q, answer, 1)

\* The next request is taken off the socket; its handler starts or answers.  The
\* event loop turns to the requests it has already read before a backend answers, so
\* none is left once the session that dispose() cancels has been settled.
Dispatched(method) ==
  /\ ~rpc.disposed
  /\ rpc.closing => live = rpc.awaited
  /\ requests # <<>>
  /\ Head(requests).method = method
  /\ requests' = Tail(requests)

Refuse ==
  /\ Service!Quiet
  /\ Write(replies, Answer(Head(requests), "error"))
  /\ UNCHANGED rpc

Accept ==
  /\ Service!Quiet
  /\ Write(replies, Answer(Head(requests), "ok"))
  /\ UNCHANGED rpc

\* The coordinator was called and its promise is awaited.
Await(s, method) ==
  /\ rpc' = [rpc EXCEPT !.calls[s][method] = @ + 1]
  /\ replies' = Publish(replies)

-------------------------------------------------------------------------------
(***************************************************************************)
(* The request handlers.                                                   *)
(***************************************************************************)
Initialize ==
  /\ Dispatched("initialize")
  /\ Service!Quiet
  /\ \/ /\ ~rpc.initialized
        /\ Write(replies, Answer(Head(requests), "ok"))
        /\ rpc' = [rpc EXCEPT !.initialized = TRUE]
     \/ \* a version this daemon does not support
        /\ Write(replies, Answer(Head(requests), "error"))
        /\ UNCHANGED rpc

\* #ensureInitialized
NotInitialized ==
  /\ ~rpc.initialized
  /\ \E m \in {"start", "finish", "cancel", "select", "polish"} : Dispatched(m)
  /\ Refuse

\* #runSessionOperation: what the client is told when its promise has settled.
Verdict(method, r) ==
  CASE method = "start"  -> [pending |-> "none", returned |-> "ok", threw |-> "error"][r.start]
    [] method = "finish" -> [pending |-> "none", resolved |-> "ok", rejected |-> "error"][r.finish]
    [] method = "cancel" -> [pending |-> "none", done |-> "ok"][r.cancel]

NextId == IF \E s \in Sessions : svc[s].start = "none"
          THEN CHOOSE s \in Sessions :
                 /\ svc[s].start = "none"
                 /\ \A t \in Sessions : svc[t].start = "none" => s <= t
          ELSE None

\* The coordinator is not configured, or the gate is taken.
StartRefused ==
  /\ rpc.initialized
  /\ Dispatched("start")
  /\ Refuse

Start ==
  /\ rpc.initialized
  /\ Dispatched("start")
  /\ NextId # None
  /\ Service!Open(NextId)
  /\ Await(NextId, "start")

\* finish() and cancel() of a session that is not the active one.
NotActive ==
  /\ rpc.initialized
  /\ \/ Dispatched("finish") \/ Dispatched("cancel") \/ Dispatched("select")
  /\ LET s == Head(requests).session IN
     /\ live # s
     /\ IF last = s THEN Accept ELSE Refuse

Finish ==
  LET s == Head(requests).session IN
  /\ rpc.initialized
  /\ Dispatched("finish")
  /\ live = s
  /\ IF svc[s].finish = "none" THEN Service!Finish(s) ELSE Service!Quiet
  /\ IF svc'[s].finish = "pending" THEN Await(s, "finish")
     ELSE /\ Write(replies, Answer(Head(requests), Verdict("finish", svc'[s])))
          /\ UNCHANGED rpc

Cancel ==
  LET s == Head(requests).session IN
  /\ rpc.initialized
  /\ Dispatched("cancel")
  /\ live = s
  /\ IF svc[s].cancel = "none" THEN Service!Cancel(s) ELSE Service!Quiet
  /\ Await(s, "cancel")

SelectResult ==
  LET s == Head(requests).session
      choice == Head(requests).value
  IN
  /\ rpc.initialized
  /\ Dispatched("select")
  /\ live = s
  /\ IF Service!CanSelect(s, choice)
     THEN /\ Service!Select(s, choice)
          /\ Write(Publish(replies), Answer(Head(requests), "ok"))
          /\ UNCHANGED rpc
     ELSE Refuse

SetPolishingEnabled ==
  LET s == Head(requests).session IN
  /\ rpc.initialized
  /\ Dispatched("polish")
  /\ IF live = s /\ Service!CanToggle(s)
     THEN /\ Service!Toggle(s)
          /\ out' \in {<<>>, <<Message(s, "polishingState", Head(requests).value)>>}
          /\ Write(Publish(replies), Answer(Head(requests), "ok"))
          /\ UNCHANGED rpc
     ELSE Refuse

-------------------------------------------------------------------------------
(***************************************************************************)
(* Events, and the end of the connection.                                  *)
(***************************************************************************)
\* The events of a step of session s, and the answers to the requests that awaited the
\* promise it settled, if it settled one.
Answered(s) ==
  { method \in {"start", "finish", "cancel"} :
      rpc.calls[s][method] > 0 /\ Verdict(method, svc'[s]) # "none" }

Respond(s) ==
  /\ IF Answered(s) = {}
     THEN replies' = Publish(replies) /\ UNCHANGED rpc
     ELSE \E method \in Answered(s) :
            /\ WriteAll(Publish(replies), Message(s, method, Verdict(method, svc'[s])),
                        rpc.calls[s][method])
            /\ rpc' = [rpc EXCEPT !.calls[s][method] = 0]
  /\ UNCHANGED requests

\* The session moves on by itself; previews change nothing but a text on the
\* screen and are left out.
SessionMoves(s) ==
  /\ Len(replies) < Backlog
  /\ Service!Progress(s) \/ Service!PolishDelta(s) \/ Service!Fail(s)
  /\ Respond(s)

PromiseSettles(s) ==
  /\ Service!Promise(s)
  /\ Respond(s)

\* #cancelActiveSession
CancelActiveSession ==
  IF live # None /\ svc[live].cancel = "none" THEN Service!Cancel(live) ELSE Service!Quiet

\* onClose, or a write that failed: nothing is published any more.
Closed ==
  /\ rpc.link = "down"
  /\ ~rpc.closed
  /\ CancelActiveSession
  /\ rpc' = [rpc EXCEPT !.closed = TRUE]
  /\ UNCHANGED <<requests, replies>>

\* What is left of the connection once it was disposed: nothing is dispatched.
Disposed(r) == [r EXCEPT !.disposed = TRUE, !.calls = NoCalls]

\* Mutant of DisposeBegins: it trusts onClose with the cancellation.
DisposeAtOnce ==
  /\ rpc.link = "down"
  /\ ~rpc.closing
  /\ Service!Quiet
  /\ rpc' = Disposed([rpc EXCEPT !.closed = TRUE, !.closing = TRUE])
  /\ requests' = <<>>
  /\ UNCHANGED replies

\* dispose(), when the socket was closed: requests that were read before are still
\* dispatched, so a session may have begun after onClose looked for one.  Without
\* a session nothing is awaited that another request could slip into.
DisposeBegins ==
  LET begun == [rpc EXCEPT !.closed = TRUE, !.closing = TRUE, !.awaited = live] IN
  /\ rpc.link = "down"
  /\ ~rpc.closing
  /\ CancelActiveSession
  /\ rpc' = IF live = None THEN Disposed(begun) ELSE begun
  /\ requests' = IF live = None THEN <<>> ELSE requests
  /\ UNCHANGED replies

\* The cancellation dispose() awaits is over.
Dispose ==
  /\ rpc.closing
  /\ ~rpc.disposed
  /\ \A s \in Sessions : rpc.awaited = s => svc[s].cancel = "done"
  /\ Service!Quiet
  /\ rpc' = Disposed(rpc)
  /\ requests' = <<>>
  /\ UNCHANGED replies

\* A session of another connection holds the gate for a while.
GateMoves ==
  /\ Service!GateMoves
  /\ UNCHANGED <<requests, replies, rpc>>

Init ==
  /\ Service!Init
  /\ requests = <<>>
  /\ replies = <<>>
  /\ rpc = NoConnection

Handle ==
  \/ Initialize \/ NotInitialized
  \/ StartRefused \/ Start
  \/ NotActive \/ Finish \/ Cancel \/ SelectResult \/ SetPolishingEnabled

Next ==
  \/ Handle
  \/ \E s \in Sessions : SessionMoves(s) \/ PromiseSettles(s)
  \/ Closed \/ DisposeBegins \/ Dispose
  \/ GateMoves

===============================================================================
