----------------------------- MODULE VoiceSystem -----------------------------
(***************************************************************************)
(* Voice input end to end: the user, the input method, the socket and the  *)
(* daemon.  InputMethod and DaemonConnection share the two directions of   *)
(* the socket.  The socket may break and the daemon may crash; the input   *)
(* method finds out some time later and connects again with the next       *)
(* session, which gives it a fresh connection object in the daemon.        *)
(***************************************************************************)
EXTENDS Naturals, Sequences

CONSTANTS
  Contexts, Sessions, None, Backlog, Inputs,
  Breaks        \* bound: how often the connection is lost

VARIABLES
  im, focus, inputs, commits,              \* InputMethod
  live, last, gate, svc, out, rpc,        \* DaemonConnection
  requests, replies,                      \* both
  breaks,       \* how often the connection was lost so far
  spoken        \* history: the context each session was started for

addonVars == <<im, focus, inputs, commits>>
daemonVars == <<live, last, gate, svc, out, rpc>>
history == <<breaks, spoken>>
vars == <<addonVars, daemonVars, requests, replies, history>>

ASSUME SessionsAreNumbered == Sessions \subseteq Nat

\* undefined is neither a text field nor a session.
ASSUME NoneIsNobody == None \notin Contexts /\ None \notin Sessions

Addon == INSTANCE InputMethod
Daemon == INSTANCE DaemonConnection

-------------------------------------------------------------------------------
(***************************************************************************)
(* #accept and #createClient: a new connection with a coordinator of its   *)
(* own.  A session the old connection still has to cancel keeps the gate.   *)
(***************************************************************************)
ClientAccepted ==
  /\ rpc.link = "down"
  /\ rpc' = Daemon!Accepted
  /\ live' = None
  /\ last' = None
  /\ gate' = IF gate = "self" THEN "other" ELSE gate
  /\ out' = <<>>
  /\ UNCHANGED svc

\* The user speaks: the first time, the addon has to connect before it can ask.
UserHolds ==
  /\ \E c \in Contexts, dial \in {"connected", "connecting", "refused"} :
       Addon!HoldElapses(c, dial)
  /\ IF im.connection = "Disconnected" /\ im'.connection = "Connected"
     THEN ClientAccepted ELSE UNCHANGED daemonVars
  /\ UNCHANGED history

UserTypes ==
  /\ \/ \E key \in Addon!Keys : Addon!KeyPressed(key)
     \/ \E key \in {"trigger", "toggle"} : Addon!KeyReleased(key)
     \/ \E choice \in {"transcript", "polished"} : Addon!CandidateClicked(choice)
     \/ \E c \in Contexts \cup {None} : Addon!FocusMoves(c)
     \/ Addon!ContextReset
     \/ \E auto \in BOOLEAN : Addon!ConfigChanges(auto)
  /\ UNCHANGED <<daemonVars, history>>

GraceElapses ==
  /\ \E c \in Contexts : Addon!GraceElapses(c)
  /\ UNCHANGED <<daemonVars, history>>

Connects ==
  /\ Addon!ConnectionCompletes
  /\ ClientAccepted
  /\ UNCHANGED history

\* The daemon is gone, or the connection is.
NoticesBreak ==
  /\ im.connection = "Connecting" \/ rpc.link = "down"
  /\ Addon!Disconnects
  /\ UNCHANGED <<daemonVars, history>>

Reads ==
  /\ im.connection = "Connected"
  /\ Addon!MessageArrives
  /\ UNCHANGED <<daemonVars, history>>

\* A session is started for the context the request names.
DaemonStarts ==
  /\ Daemon!Start
  /\ spoken' = [spoken EXCEPT ![live'] = Head(requests).value]
  /\ UNCHANGED <<addonVars, breaks>>

DaemonHandles ==
  /\ \/ Daemon!Initialize \/ Daemon!NotInitialized
     \/ Daemon!StartRefused
     \/ Daemon!NotActive \/ Daemon!Finish \/ Daemon!Cancel
     \/ Daemon!SelectResult \/ Daemon!SetPolishingEnabled
  /\ UNCHANGED <<addonVars, history>>

SessionMoves(s) ==
  /\ Daemon!SessionMoves(s)
  /\ UNCHANGED <<addonVars, history>>

PromiseSettles(s) ==
  /\ Daemon!PromiseSettles(s)
  /\ UNCHANGED <<addonVars, history>>

DaemonCloses ==
  /\ Daemon!Closed \/ Daemon!DisposeBegins \/ Daemon!Dispose
  /\ UNCHANGED <<addonVars, history>>

\* The other session that holds the gate is settled.  (That one may take it at any
\* time is left to StartRefused.)
GateMoves ==
  /\ gate = "other"
  /\ Daemon!GateMoves
  /\ UNCHANGED <<addonVars, history>>

\* The socket breaks: what the daemon has read it still knows.
Break ==
  /\ breaks < Breaks
  /\ rpc.link = "up"
  /\ breaks' = breaks + 1
  /\ rpc' = [rpc EXCEPT !.link = "down"]
  /\ out' = <<>>
  /\ UNCHANGED <<addonVars, live, last, gate, svc, requests, replies, spoken>>

\* The daemon dies with everything it knows, and may be started again.
Crash ==
  /\ breaks < Breaks
  /\ rpc.link = "up"
  /\ breaks' = breaks + 1
  /\ rpc' = Daemon!NoConnection
  /\ live' = None
  /\ last' = None
  /\ gate' = "none"
  /\ out' = <<>>
  /\ requests' = <<>>
  /\ UNCHANGED <<addonVars, svc, replies, spoken>>

Init ==
  /\ Addon!Init
  /\ Daemon!Init
  /\ breaks = 0
  /\ spoken = [s \in Sessions |-> None]

Next ==
  \/ UserHolds \/ UserTypes
  \/ GraceElapses \/ Connects \/ NoticesBreak \/ Reads
  \/ DaemonStarts \/ DaemonHandles
  \/ \E s \in Sessions : SessionMoves(s) \/ PromiseSettles(s)
  \/ DaemonCloses \/ GateMoves
  \/ Break \/ Crash

Spec == Init /\ [][Next]_vars

-------------------------------------------------------------------------------
(***************************************************************************)
(* Fairness: the two event loops run, the socket delivers, and a session   *)
(* whose backends answer moves on by itself, strongly because the bound    *)
(* Backlog may keep it waiting and because a polisher does not stream for  *)
(* ever.  The user owes nothing.                                           *)
(***************************************************************************)
Fairness ==
  /\ WF_vars(GraceElapses)
  /\ WF_vars(Connects) /\ WF_vars(NoticesBreak) /\ WF_vars(Reads)
  /\ WF_vars(DaemonStarts \/ DaemonHandles)
  /\ WF_vars(DaemonCloses)
  /\ \A s \in Sessions :
       /\ SF_vars(Daemon!Service!Progress(s) /\ SessionMoves(s))
       /\ WF_vars(PromiseSettles(s))

FairSpec == Spec /\ Fairness

-------------------------------------------------------------------------------
(***************************************************************************)
(* Properties.                                                             *)
(***************************************************************************)
TypeOK ==
  /\ \A c \in Contexts : im.ic[c].tap \in Addon!TapPhases
  /\ focus \in Contexts \cup {None}
  /\ im.voice.ic \in Contexts \cup {None}
  /\ im.voice.id \in IF im.voice.ic = None THEN {None} ELSE Sessions \cup {None}
  /\ im.sent = <<>>
  /\ live \in Sessions \cup {None}
  /\ gate \in {"none", "self", "other"}

\* The trigger key never waits for a timer that does not run: it is swallowed or
\* replayed again, whatever the session of its context came to in the meantime.
TriggerNeverHangs ==
  \A c \in Contexts :
    /\ im.ic[c].tap = "Pending" => im.ic[c].hold
    /\ im.ic[c].tap \in {"ActiveTriggerRelease", "FailedTriggerRelease"} => im.ic[c].grace

\* A text is typed at most once, and only into the context that has the keyboard at
\* that moment, whatever the order of key, focus change and late notification.
TypedUnderKeyboard ==
  [][\A s \in Sessions : commits'[s] # commits[s] => commits[s] = <<>> /\ commits'[s] = <<focus>>]_vars

\* A text is typed only into the context its session was started for.
TypedWhereSpoken ==
  \A s \in Sessions : commits[s] \in {<<>>, <<spoken[s]>>}

\* A panel is on the screen only for the session that is shown there or for an
\* error the user has not yet dismissed by a key, and only where the keyboard is.
PanelHasReason ==
  \A c \in Contexts :
    im.ic[c].panel => focus = c /\ (im.voice.ic = c \/ im.ic[c].error)

\* A choice the addon asks for is one the daemon can still make: it never asks for a
\* text that was not announced as final, nor twice, so that a session ends with an
\* error only if the daemon has one.
SelectionsAreAvailable ==
  \A i \in DOMAIN requests :
    LET s == requests[i].session IN
    requests[i].method = "select" /\ live = s =>
      Daemon!Service!Cancelling(s) \/ Daemon!Service!CanSelect(s, requests[i].value)

\* The daemon has forgotten a client only when no session of it is left: a start
\* that was dispatched while the connection closed is cancelled as well.
NoSessionOutlivesClient == rpc.disposed => live = None

\* Once the user let go of the trigger, with a result chosen automatically, the
\* addon comes to an end with the session: a text, an error or a cancellation.
ReleaseEnds == im.voice.finish /\ im.ready /\ im.autoSelect ~> ~im.voice.finish

===============================================================================
