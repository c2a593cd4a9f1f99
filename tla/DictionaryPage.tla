----------------------------- MODULE DictionaryPage -----------------------------
(***************************************************************************)
(* The dictionary page of the desktop application (DictionaryState and its *)
(* dialogs).  Every change is a whole new dictionary, which the daemon     *)
(* checks, stores and is asked for again; entries are named by their index *)
(* in the list that is shown, also by dialogs that outlive a connection.   *)
(*                                                                         *)
(* An entry is its spelling.  The connection is what DesktopSettings shows *)
(* of it: it is lost, also when an answer takes too long, which rejects    *)
(* every request, and made again.                                          *)
(***************************************************************************)
EXTENDS Naturals, Sequences, SequencesExt

CONSTANTS
  Terms,        \* spellings the user may type
  None,
  Stored,       \* the dictionary the daemon starts with
  Events        \* bound: dialogs opened, connections lost, changes from outside

VARIABLES
  conn,         \* DaemonState.connectionPhase: "connected", "retrying" or "disposed"
  page,         \* DictionaryState
  dialog,       \* the dialog in front of the window
  daemon,       \* the dictionary in use, and the updates accepted
  events

vars == <<conn, page, dialog, daemon, events>>

Counted == events < Events /\ events' = events + 1

NoDialog == [kind |-> "none", index |-> 0, busy |-> FALSE]

NoSave == [step |-> "none", entries |-> <<>>, failure |-> FALSE]

\* The entry at an index that may lie beyond the end, as an assignment to an array does it.
Put(entries, index, entry) ==
  [ i \in 1..(IF index > Len(entries) THEN index ELSE Len(entries)) |->
      CASE i = index -> entry
        [] i # index /\ i \in DOMAIN entries -> entries[i]
        [] OTHER -> None ]

\* validateRows, for one row; a row without a spelling is refused as well.
RowError(entries, index) ==
  \/ entries[index] \notin Terms
  \/ \E i \in DOMAIN entries \ {index} : entries[i] = entries[index]

\* parseVoiceDictionary
Valid(entries) == IsInjective(entries) /\ \A i \in DOMAIN entries : entries[i] \in Terms

-------------------------------------------------------------------------------
(***************************************************************************)
(* DictionaryState.                                                        *)
(***************************************************************************)
Unloaded ==
  [phase |-> "idle", entries |-> None, loaded |-> FALSE, load |-> NoSave, save |-> NoSave]

isEditable(p) == conn = "connected" /\ p.phase \notin {"loading", "saving"}

applyLoaded(p, answer, saved) ==
  [p EXCEPT !.entries = answer.entries, !.loaded = TRUE,
            !.phase = CASE answer.failure -> "error"
                        [] ~answer.failure /\ saved -> "saved"
                        [] OTHER -> "idle"]

applyError(p) == [p EXCEPT !.phase = "error"]

load(p) == [p EXCEPT !.phase = "loading", !.load = [NoSave EXCEPT !.step = "asked"]]

persist(p, entries) ==
  [p EXCEPT !.phase = "saving", !.save = [NoSave EXCEPT !.step = "validate", !.entries = entries]]

\* Mutant of Disconnected: the phase of what was under way stays.
DisconnectedBusy(p) == [p EXCEPT !.loaded = FALSE, !.load = NoSave, !.save = NoSave]

\* applyDisconnected; then the requests under way are rejected: the answer of load() is
\* not waited for any more, and persist() reports its error.
Disconnected(p) ==
  [p EXCEPT !.loaded = FALSE, !.load = NoSave, !.save = NoSave,
            !.phase = IF p.save.step = "none" THEN "idle" ELSE "error"]

-------------------------------------------------------------------------------
(***************************************************************************)
(* The connection and the daemon.                                          *)
(***************************************************************************)
Connect ==
  /\ conn = "retrying"
  /\ conn' = "connected"
  /\ page' = IF page.loaded THEN page ELSE load(page)
  /\ UNCHANGED <<dialog, daemon, events>>

Abandoned == [i \in DOMAIN daemon.queue |-> [daemon.queue[i] EXCEPT !.waiting = FALSE]]

\* An update that was accepted is applied later, unless the daemon is gone as well.
ConnectionLost ==
  /\ conn = "connected"
  /\ Counted
  /\ conn' = "retrying"
  /\ page' = Disconnected(page)
  /\ dialog' = [dialog EXCEPT !.busy = FALSE]
  /\ \E queue \in {Abandoned, <<>>} : daemon' = [daemon EXCEPT !.queue = queue]

\* The window is destroyed: the effects and the client are disposed.
dispose ==
  /\ conn' = "disposed"
  /\ page' = Disconnected(page)
  /\ dialog' = NoDialog
  /\ daemon' = [daemon EXCEPT !.queue = Abandoned]
  /\ UNCHANGED events

\* Somebody else updates the dictionary, or its file is edited and loaded, or cannot be.
ChangedOutside ==
  /\ Counted
  /\ \/ \E entries \in {Tail(Stored), Reverse(Stored)} :
          daemon' = [daemon EXCEPT !.entries = entries, !.failure = FALSE, !.by = "other"]
     \/ daemon' = [daemon EXCEPT !.failure = TRUE, !.by = "other"]
  /\ UNCHANGED <<conn, page, dialog>>

\* dictionary.get
Answer(request) == [step |-> "answered", entries |-> daemon.entries, failure |-> daemon.failure]

DaemonReads ==
  /\ page.load.step = "asked"
  /\ page' = [page EXCEPT !.load = Answer(@)]
  /\ UNCHANGED <<conn, dialog, daemon, events>>

DaemonReadsBack ==
  /\ page.save.step = "get"
  /\ page' = [page EXCEPT !.save = Answer(@)]
  /\ UNCHANGED <<conn, dialog, daemon, events>>

\* dictionary.validate
DaemonValidates ==
  /\ page.save.step = "validate"
  /\ page' = [page EXCEPT !.save.step = IF Valid(page.save.entries) THEN "valid" ELSE "refused"]
  /\ UNCHANGED <<conn, dialog, daemon, events>>

\* dictionary.update, one after the other; the file cannot be written, or is.
DaemonApplies ==
  LET next == Head(daemon.queue) IN
  /\ daemon.queue # <<>>
  /\ \/ /\ daemon' = [entries |-> next.entries, failure |-> FALSE, by |-> "page",
                      queue |-> Tail(daemon.queue)]
        /\ page' = IF next.waiting THEN [page EXCEPT !.save.step = "applied"] ELSE page
     \/ /\ daemon' = [daemon EXCEPT !.queue = Tail(@)]
        /\ page' = IF next.waiting THEN [page EXCEPT !.save.step = "refused"] ELSE page
  /\ UNCHANGED <<conn, dialog, events>>

-------------------------------------------------------------------------------
(***************************************************************************)
(* What the requests come to.                                              *)
(***************************************************************************)
LoadReturns ==
  /\ page.load.step = "answered"
  /\ page' = applyLoaded([page EXCEPT !.load = NoSave], page.load, FALSE)
  /\ UNCHANGED <<conn, dialog, daemon, events>>

\* Mutant of SaveValidated: the dictionary is asked for without waiting for the update.
SaveValidatedAtOnce ==
  /\ page.save.step = "valid"
  /\ page' = [page EXCEPT !.save.step = "get"]
  /\ daemon' = [daemon EXCEPT !.queue =
                  Append(@, [entries |-> page.save.entries, waiting |-> FALSE])]
  /\ UNCHANGED <<conn, dialog, events>>

SaveValidated ==
  /\ page.save.step = "valid"
  /\ page' = [page EXCEPT !.save.step = "update"]
  /\ daemon' = [daemon EXCEPT !.queue =
                  Append(@, [entries |-> page.save.entries, waiting |-> TRUE])]
  /\ UNCHANGED <<conn, dialog, events>>

SaveApplied ==
  /\ page.save.step = "applied"
  /\ page' = [page EXCEPT !.save.step = "get"]
  /\ UNCHANGED <<conn, dialog, daemon, events>>

\* The dialog stays with what was typed, and shows the error.
SaveRefused ==
  /\ page.save.step = "refused"
  /\ page' = applyError([page EXCEPT !.save = NoSave])
  /\ dialog' = [dialog EXCEPT !.busy = FALSE]
  /\ UNCHANGED <<conn, daemon, events>>

SaveReturns ==
  /\ page.save.step = "answered"
  /\ page' = applyLoaded([page EXCEPT !.save = NoSave], page.save, TRUE)
  /\ dialog' = NoDialog
  /\ UNCHANGED <<conn, daemon, events>>

-------------------------------------------------------------------------------
(***************************************************************************)
(* The user.  What the list offers is drawn again at every change; dialogs *)
(* stay, and nothing behind them can be reached.                           *)
(***************************************************************************)
Opens(kind, index) ==
  /\ isEditable(page) /\ dialog.kind = "none"
  /\ Counted
  /\ dialog' = [kind |-> kind, index |-> index, busy |-> FALSE]
  /\ UNCHANGED <<conn, page, daemon>>

Rows == IF page.entries = None THEN {} ELSE DOMAIN page.entries

\* index 0: openNewEntry
showEntryDialog == \E index \in Rows \union {0} : Opens("entry", index)

confirmEntryDeletion == \E index \in Rows : Opens("delete", index)

\* Cancelled, or closed with the window's own means.
Dismissed ==
  /\ dialog.kind # "none" /\ ~dialog.busy
  /\ dialog' = NoDialog
  /\ UNCHANGED <<conn, page, daemon, events>>

\* saveEditor, behind the button of the dialog.
Candidate(entry) ==
  LET index == IF dialog.index = 0 THEN Len(page.entries) + 1 ELSE dialog.index
  IN [index |-> index, entries |-> Put(page.entries, index, entry)]

apply(entry) ==
  /\ dialog.kind = "entry" /\ ~dialog.busy
  /\ isEditable(page) /\ page.entries # None
  /\ LET candidate == Candidate(entry) IN
     /\ ~RowError(candidate.entries, candidate.index)
     /\ page' = persist(page, candidate.entries)
  /\ dialog' = [dialog EXCEPT !.busy = TRUE]
  /\ UNCHANGED <<conn, daemon, events>>

\* Whatever has become of the list in the meantime, its index is deleted.
deleteEntry ==
  /\ dialog.kind = "delete"
  /\ dialog' = NoDialog
  /\ page' = IF isEditable(page) /\ dialog.index \in Rows
             THEN persist(page, RemoveAt(page.entries, dialog.index)) ELSE page
  /\ UNCHANGED <<conn, daemon, events>>

-------------------------------------------------------------------------------
Init ==
  /\ conn = "retrying"
  /\ page = Unloaded
  /\ dialog = NoDialog
  /\ daemon = [entries |-> Stored, failure |-> FALSE, by |-> "other", queue |-> <<>>]
  /\ events = 0

User ==
  showEntryDialog \/ confirmEntryDeletion \/ Dismissed \/ deleteEntry
    \/ \E entry \in Terms : apply(entry)

Returns == LoadReturns \/ SaveValidated \/ SaveApplied \/ SaveRefused \/ SaveReturns

Daemon == DaemonReads \/ DaemonReadsBack \/ DaemonValidates \/ DaemonApplies

Next == Connect \/ ConnectionLost \/ ChangedOutside \/ User \/ Daemon \/ Returns

-------------------------------------------------------------------------------
(***************************************************************************)
(* Properties.                                                             *)
(***************************************************************************)
\* "saved" is shown only with the dictionary the daemon has, although updates of lost
\* connections may be applied late, unless somebody else changed it since.
SavedMeansStored ==
  page.phase = "saved" /\ daemon.by = "page" => page.entries = daemon.entries

\* A page that is busy, and the dialog that cannot be closed then, come free again.
Busy == page.phase \in {"loading", "saving"} \/ dialog.busy

===============================================================================
