-------------------------- MODULE RecognitionService --------------------------
(***************************************************************************)
(* What SessionCoordinator relies on of any RealtimeAsrSession             *)
(* (asr-core/realtime-asr.ts): each call settles once; the stream of       *)
(* events is readiness, previews, and one completion or one error at most, *)
(* which is the last event; a stream that ended stays so.                  *)
(***************************************************************************)
EXTENDS Naturals, Sequences

VARIABLES
  calls,    \* [start, finish, cancel -> "idle", "pending", "resolved", "rejected"]
  events,   \* the kinds of the events that were pushed
  ended     \* no event follows

vars == <<calls, events, ended>>

Kinds == {"ready", "preview", "completed", "error"}
Terminal == {"completed", "error"}

\* start() or finish() cannot be called twice, nor be answered twice.
Settles(call) ==
  \/ UNCHANGED calls
  \/ calls[call] = "idle" /\ \E to \in {"pending", "resolved", "rejected"} :
       calls' = [calls EXCEPT ![call] = to]
  \/ calls[call] = "pending" /\ \E to \in {"resolved", "rejected"} :
       calls' = [calls EXCEPT ![call] = to]

\* cancel() also settles a start() that is not answered yet.
Cancels ==
  /\ calls.cancel # "resolved"
  /\ \E start \in {calls.start, "rejected"}, cancel \in {"pending", "resolved"} :
       /\ start # calls.start => calls.start = "pending"
       /\ calls' = [calls EXCEPT !.start = start, !.cancel = cancel]

\* A completion is not announced before readiness is.
Follows(kind) ==
  /\ events = <<>> \/ events[Len(events)] \notin Terminal
  /\ kind = "ready" <=> events = <<>> /\ kind # "error"

Pushes ==
  \E kind \in Kinds : Follows(kind) /\ events' = Append(events, kind)

Init ==
  /\ calls = [start |-> "idle", finish |-> "idle", cancel |-> "idle"]
  /\ events = <<>>
  /\ ended = FALSE

Next ==
  /\ Settles("start") \/ Settles("finish") \/ Cancels
  /\ IF ended THEN UNCHANGED <<events, ended>>
     ELSE /\ Pushes \/ UNCHANGED events
          /\ ended' \in BOOLEAN
          /\ ended' \/ events' = <<>> \/ events'[Len(events')] \notin Terminal

Spec == Init /\ [][Next]_vars

===============================================================================
