--------------------------- MODULE SessionLifecycle ---------------------------
(***************************************************************************)
(* What the daemon promises its client about voice sessions: there is one  *)
(* session at a time, a session that was opened is closed exactly once,    *)
(* and the client hears about the end of it through exactly one terminal   *)
(* notification - session.completed or session.error - unless the client   *)
(* asked for the end itself by cancelling, in which case it hears nothing. *)
(* The daemon-wide session gate is taken for precisely as long as the      *)
(* session lives; another connection of the same daemon may take it while  *)
(* no session of this one does.                                            *)
(***************************************************************************)
CONSTANT Sessions     \* identifiers of sessions, each used at most once

VARIABLES
  status,   \* status[s]: "new", "live", or how the session was settled
  told,     \* told[s]: the terminal notification the client received
  gate      \* who holds the daemon session gate

vars == <<status, told, gate>>

Outcomes == {"completed", "cancelled", "failed"}

\* The notification that goes with an outcome.
Notice == [o \in Outcomes |-> CASE o = "completed" -> "completed"
                                [] o = "cancelled" -> "none"
                                [] o = "failed"    -> "error"]

Init ==
  /\ status = [s \in Sessions |-> "new"]
  /\ told = [s \in Sessions |-> "none"]
  /\ gate = "none"

Open(s) ==
  /\ status[s] = "new"
  /\ gate = "none"
  /\ status' = [status EXCEPT ![s] = "live"]
  /\ gate' = "self"
  /\ UNCHANGED told

Close(s, o) ==
  /\ status[s] = "live"
  /\ status' = [status EXCEPT ![s] = o]
  /\ told' = [told EXCEPT ![s] = Notice[o]]
  /\ gate' = "none"

OtherOpens ==
  /\ gate = "none"
  /\ gate' = "other"
  /\ UNCHANGED <<status, told>>

OtherCloses ==
  /\ gate = "other"
  /\ gate' = "none"
  /\ UNCHANGED <<status, told>>

Next ==
  \/ \E s \in Sessions : Open(s)
  \/ \E s \in Sessions, o \in Outcomes : Close(s, o)
  \/ OtherOpens
  \/ OtherCloses

Spec == Init /\ [][Next]_vars

================================================================================
