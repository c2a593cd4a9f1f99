---------------------------- MODULE SessionService ----------------------------
(***************************************************************************)
(* What one RPC connection of the daemon knows of its SessionCoordinator:  *)
(* which calls it accepts, how their promises settle, and which events it  *)
(* publishes.  The recogniser, the microphone, the text pipeline and the   *)
(* polisher have disappeared; what is left of them is that a session may   *)
(* move on, or fail, by itself.  SessionCoordinator implements this module *)
(* (ImplementsService) and DaemonConnection is built on it.                *)
(***************************************************************************)
EXTENDS Sequences

CONSTANTS
  Sessions,     \* identifiers of sessions, each used at most once
  None          \* no session

VARIABLES
  live,         \* activeSessionId
  last,         \* the session settled last
  gate,         \* who holds the daemon-wide session gate
  svc,          \* what is known of each session
  out           \* the events published by the last step, in order

book == <<live, last, gate>>
vars == <<live, last, gate, svc, out>>

Choices == {"transcript", "polished"}

Fresh == [ start |-> "none", finish |-> "none", cancel |-> "none", failing |-> FALSE,
           phase |-> "none", offered |-> {} ]

Event(s, method, value) == [session |-> s, method |-> method, value |-> value]

Phase(s, p) == Event(s, "phase", p)

\* The session is being cancelled: it stays silent until it is settled.
Cancelling(s) == svc[s].cancel = "pending"

Known(s) == live = s \/ last = s

\* The session s, still live, becomes r and `events` are published.
Becomes(s, r, events) ==
  /\ live = s
  /\ svc' = [svc EXCEPT ![s] = r]
  /\ out' = events
  /\ UNCHANGED book

Settle(s, r, events) ==
  /\ live = s
  /\ svc' = [svc EXCEPT ![s] = [r EXCEPT !.failing = FALSE]]
  /\ out' = events
  /\ live' = None
  /\ last' = s
  /\ gate' = "none"

\* Something nobody outside can see.
Quiet ==
  /\ out' = <<>>
  /\ UNCHANGED <<book, svc>>

-------------------------------------------------------------------------------
(***************************************************************************)
(* The calls of the client.                                                *)
(***************************************************************************)
Open(s) ==
  /\ live = None
  /\ gate = "none"
  /\ svc[s].start = "none"
  /\ svc' = [svc EXCEPT ![s].start = "pending", ![s].phase = "preparing"]
  /\ \E marker \in {"on", "off"} :
       out' = <<Phase(s, "preparing"), Event(s, "polishingState", marker)>>
  /\ live' = s
  /\ gate' = "self"
  /\ UNCHANGED last

\* The first finish() decides; later ones share its promise.
Finish(s) ==
  /\ svc[s].finish = "none"
  /\ \/ /\ svc[s].phase = "recording" /\ ~Cancelling(s)
        /\ Becomes(s, [svc[s] EXCEPT !.finish = "pending"], <<>>)
     \/ /\ svc[s].phase = "preparing" \/ Cancelling(s)
        /\ Becomes(s, [svc[s] EXCEPT !.finish = "rejected"], <<>>)

Cancel(s) ==
  /\ svc[s].cancel = "none"
  /\ Becomes(s, [svc[s] EXCEPT !.cancel = "pending"], <<>>)

CanSelect(s, choice) ==
  /\ live = s
  /\ svc[s].phase \in {"polishing", "choosing"}
  /\ ~Cancelling(s)
  /\ choice \in svc[s].offered

Select(s, choice) ==
  /\ CanSelect(s, choice)
  /\ Settle(s, svc[s], <<Event(s, "completed", choice)>>)

CanToggle(s) ==
  /\ live = s
  /\ svc[s].phase = "recording"
  /\ ~Cancelling(s)
  /\ svc[s].finish \in {"none", "rejected"}

Toggle(s) ==
  /\ CanToggle(s)
  /\ \E events \in {<<>>, <<Event(s, "polishingState", "on")>>,
                    <<Event(s, "polishingState", "off")>>} :
       Becomes(s, svc[s], events)

-------------------------------------------------------------------------------
(***************************************************************************)
(* What happens by itself.                                                 *)
(***************************************************************************)
Record(s) ==
  /\ svc[s].start = "pending" /\ svc[s].phase = "preparing"
  /\ ~svc[s].failing /\ ~Cancelling(s)
  /\ Becomes(s, [svc[s] EXCEPT !.start = "returned", !.phase = "recording"],
             <<Phase(s, "recording")>>)

\* The promises of start(), finish() and cancel() settle, possibly long after the
\* session did; a rejection always has its reason in the fate of the session.
Doomed(s) == live # s \/ svc[s].failing \/ Cancelling(s)

StartSettles(s, r) ==
  /\ svc[s].start = "pending"
  /\ \/ r = "threw" /\ Doomed(s)
     \/ r = "returned" /\ live # s
  /\ svc' = [svc EXCEPT ![s].start = r]
  /\ out' = <<>>
  /\ UNCHANGED book

FinishSettles(s, r) ==
  /\ svc[s].finish = "pending"
  /\ Doomed(s) \/ (r = "resolved" /\ svc[s].phase # "recording")
  /\ svc' = [svc EXCEPT ![s].finish = r]
  /\ out' = <<>>
  /\ UNCHANGED book

CancelSettles(s) ==
  LET done == [svc[s] EXCEPT !.cancel = "done"] IN
  /\ Cancelling(s)
  /\ \/ Settle(s, done, <<>>)
     \/ /\ live # s
        /\ svc' = [svc EXCEPT ![s] = done]
        /\ out' = <<>>
        /\ UNCHANGED book

Preview(s) == Becomes(s, svc[s], <<Event(s, "preview", "text")>>)

Recognize(s) ==
  /\ svc[s].phase = "recording" /\ svc[s].finish = "pending"
  /\ ~svc[s].failing /\ ~Cancelling(s)
  /\ Becomes(s, [svc[s] EXCEPT !.phase = "recognizing"], <<Phase(s, "recognizing")>>)

Process(s) ==
  /\ svc[s].phase = "recognizing" /\ ~Cancelling(s)
  /\ Becomes(s, [svc[s] EXCEPT !.phase = "processing"], <<Phase(s, "processing")>>)

\* The transcript is there: it is committed at once, or shown while the polisher
\* works on it.  The results of a session being cancelled are still published.
Deliver(s) ==
  LET shown == [svc[s] EXCEPT !.offered = @ \cup {"transcript"}] IN
  /\ svc[s].phase = "processing"
  /\ \/ /\ Cancelling(s)
        /\ \E v \in {"none", "transcript"} : Becomes(s, shown, <<Event(s, "results", v)>>)
     \/ /\ ~Cancelling(s)
        /\ \/ Settle(s, shown, <<Event(s, "results", "transcript"),
                                 Event(s, "completed", "transcript")>>)
           \/ Becomes(s, [shown EXCEPT !.phase = "polishing"],
                      <<Event(s, "results", "none"), Phase(s, "polishing")>>)

PolishDelta(s) ==
  /\ svc[s].phase = "polishing" /\ ~Cancelling(s)
  /\ Becomes(s, svc[s], <<Event(s, "results", "streaming")>>)

PolishEnds(s) ==
  /\ svc[s].phase = "polishing" /\ ~Cancelling(s)
  /\ \/ Becomes(s, [svc[s] EXCEPT !.phase = "choosing"],
                <<Event(s, "results", "transcript"), Phase(s, "choosing")>>)
     \/ Becomes(s, [svc[s] EXCEPT !.phase = "choosing", !.offered = Choices],
                <<Event(s, "results", "final"), Phase(s, "choosing")>>)

Fail(s) ==
  /\ ~svc[s].failing /\ ~Cancelling(s)
  /\ Becomes(s, [svc[s] EXCEPT !.failing = TRUE], <<>>)

FailSettles(s) ==
  /\ svc[s].failing
  /\ Settle(s, svc[s], <<Event(s, "error", "failure")>>)

GateMoves ==
  /\ \/ gate = "none" /\ gate' = "other"
     \/ gate = "other" /\ gate' = "none"
  /\ out' = <<>>
  /\ UNCHANGED <<live, last, svc>>

Init ==
  /\ live = None
  /\ last = None
  /\ gate = "none"
  /\ svc = [s \in Sessions |-> Fresh]
  /\ out = <<>>

Call(s) ==
  Open(s) \/ Finish(s) \/ Cancel(s) \/ (\E c \in Choices : Select(s, c)) \/ Toggle(s)

\* What a session does by itself as long as its backends answer.
Progress(s) ==
  Record(s) \/ Recognize(s) \/ Process(s) \/ Deliver(s) \/ PolishEnds(s) \/ FailSettles(s)

Promise(s) ==
  \/ \E r \in {"returned", "threw"} : StartSettles(s, r)
  \/ \E r \in {"resolved", "rejected"} : FinishSettles(s, r)
  \/ CancelSettles(s)

Next ==
  \/ \E s \in Sessions :
       Call(s) \/ Progress(s) \/ Promise(s) \/ Preview(s) \/ PolishDelta(s) \/ Fail(s)
  \/ GateMoves
  \/ Quiet

Spec == Init /\ [][Next]_vars

===============================================================================
