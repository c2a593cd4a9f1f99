-------------------------- MODULE DesktopPagesProofs --------------------------
(***************************************************************************)
(* Theorems about DesktopPages, for all spellings, settings and bounds:    *)
(* what the pages call saved is what is in use.                            *)
(*                                                                         *)
(*   SavedDictionary: the daemon's updates are applied in order, so when   *)
(*     the one that the page waits for is answered none is left, of this   *)
(*     connection or of an older one (Last, Drained).                      *)
(*   SavedBehavior: no call that sets the keys follows the one that the    *)
(*     page waits for (Setting), and of the animation only one replacement *)
(*     is under way, unless a reset began while an edit was saved (Alone). *)
(***************************************************************************)
EXTENDS DesktopPages, TLAPS

-------------------------------------------------------------------------------
(***************************************************************************)
(* The dictionary.                                                         *)
(***************************************************************************)
Dictionaries == Seq(Terms \union {None})

Requests ==
  [step : {"none", "asked", "validate", "valid", "update", "applied", "get", "answered", "refused"},
   entries : Dictionaries, failure : BOOLEAN]

PageType(p) ==
  p \in [phase : {"idle", "loading", "saving", "saved", "error"},
         entries : Dictionaries \union {None}, loaded : BOOLEAN,
         load : Requests, save : Requests]

DialogType(d) == d \in [kind : {"none", "entry", "delete"}, index : Nat, busy : BOOLEAN]

Updates == [entries : Dictionaries, waiting : BOOLEAN]

DaemonType(d) ==
  d \in [entries : Dictionaries, failure : BOOLEAN, by : {"page", "other"}, queue : Seq(Updates)]

\* The page is busy with what it has asked for, and asks for nothing without a connection.
Pending(p, c) ==
  /\ p.save.step # "none" => p.phase = "saving"
  /\ p.load.step # "none" => p.phase = "loading"
  /\ c # "connected" => p.save.step = "none" /\ p.load.step = "none"

\* The update that the page waits for is the last one.
Last(p, queue) ==
  \A i \in 1..Len(queue) :
    queue[i].waiting => i = Len(queue) /\ p.save.step = "update"

\* Once it was applied none is left, and none comes while the page says "saved".
Drained(p, queue) ==
  /\ p.save.step \in {"applied", "get", "answered"} => queue = <<>>
  /\ p.phase = "saved" => queue = <<>>

\* What the daemon answered is what it has, unless somebody else changed it since.
Current(p, d) ==
  d.by = "page" =>
    /\ p.save.step = "answered" => p.save.entries = d.entries
    /\ p.phase = "saved" => p.entries = d.entries

DictionaryType == PageType(page) /\ DialogType(dialog) /\ DaemonType(daemon)

DictionaryInv ==
  /\ DictionaryType
  /\ Pending(page, conn)
  /\ Last(page, daemon.queue)
  /\ Drained(page, daemon.queue)
  /\ Current(page, daemon)

-------------------------------------------------------------------------------
\* An assignment to an array makes a dictionary of a dictionary, also beyond its end.
LEMMA PutTyped ==
  ASSUME NEW entries \in Dictionaries, NEW index \in Nat \ {0}, NEW entry \in Terms
  PROVE  Dictionary!Put(entries, index, entry) \in Dictionaries
<1> USE DEF Dictionaries
<1> DEFINE length == IF index > Len(entries) THEN index ELSE Len(entries)
<1>1. length \in Nat
  OBVIOUS
<1>2. ASSUME NEW i \in 1..length
      PROVE  (CASE i = index -> entry
                [] i # index /\ i \in DOMAIN entries -> entries[i]
                [] OTHER -> None) \in Terms \union {None}
  OBVIOUS
<1> QED BY <1>1, <1>2 DEF Dictionary!Put

\* Array.splice
LEMMA RemoveTyped ==
  ASSUME NEW entries \in Dictionaries, NEW index \in DOMAIN entries
  PROVE  Dictionary!RemoveAt(entries, index) \in Dictionaries
<1> USE DEF Dictionaries
<1>1. SubSeq(entries, 1, index - 1) \in Dictionaries
  OBVIOUS
<1>2. SubSeq(entries, index + 1, Len(entries)) \in Dictionaries
  OBVIOUS
<1> QED BY <1>1, <1>2 DEF Dictionary!RemoveAt

\* A request before it is made, and when it is.
LEMMA NoSaveTyped == Dictionary!NoSave \in Requests
<1>1. <<>> \in Dictionaries
  BY DEF Dictionaries
<1> QED BY <1>1 DEF Requests, Dictionary!NoSave

LEMMA AskedTyped ==
  ASSUME NEW request \in Requests,
         NEW step \in {"asked", "validate", "valid", "update", "applied", "get", "refused"}
  PROVE  [request EXCEPT !.step = step] \in Requests
BY DEF Requests

-------------------------------------------------------------------------------
(***************************************************************************)
(* Its steps.                                                              *)
(***************************************************************************)
\* Once nobody waits for the updates of a connection, they are only updates (Abandoned).
LEMMA AbandonedTyped ==
  ASSUME DaemonType(daemon)
  PROVE  /\ Dictionary!Abandoned \in Seq(Updates)
         /\ \A i \in 1..Len(Dictionary!Abandoned) : ~Dictionary!Abandoned[i].waiting
<1> DEFINE q == daemon.queue
           update(i) == [q[i] EXCEPT !.waiting = FALSE]
<1>1. q \in Seq(Updates)
  BY DEF DaemonType
<1>2. ASSUME NEW i \in 1..Len(q)
      PROVE  update(i) \in Updates /\ ~update(i).waiting
  <2>1. q[i] \in Updates
    BY <1>1
  <2> HIDE DEF q
  <2> QED BY <2>1 DEF Updates
<1>3. Dictionary!Abandoned = [i \in 1..Len(q) |-> update(i)]
  BY <1>1 DEF Dictionary!Abandoned
<1>4. Len(q) \in Nat
  BY <1>1
<1> HIDE DEF q, update
<1>5. Dictionary!Abandoned \in Seq(Updates) /\ Len(Dictionary!Abandoned) = Len(q)
  BY <1>2, <1>3, <1>4
<1> QED BY <1>2, <1>3, <1>4, <1>5

\* The end of a connection, and of the window.
LEMMA DisconnectKeeps ==
  ASSUME DictionaryInv, page' = Dictionary!Disconnected(page),
         DialogType(dialog'),
         NEW queue \in {Dictionary!Abandoned, <<>>}, daemon' = [daemon EXCEPT !.queue = queue]
  PROVE  DictionaryInv'
<1>1. queue \in Seq(Updates) /\ \A i \in 1..Len(queue) : ~queue[i].waiting
  <2>1. CASE queue = Dictionary!Abandoned
    BY <2>1, AbandonedTyped DEF DictionaryInv, DictionaryType
  <2>2. CASE queue = <<>>
    BY <2>2
  <2> QED BY <2>1, <2>2
<1>2. PageType(page')
  BY NoSaveTyped DEF DictionaryInv, DictionaryType, PageType, Dictionary!Disconnected
<1>3. page'.save.step = "none" /\ page'.load.step = "none" /\ page'.phase # "saved"
  BY DEF DictionaryInv, DictionaryType, PageType, Dictionary!Disconnected, Dictionary!NoSave
<1>4. DaemonType(daemon') /\ daemon'.queue = queue
  BY <1>1 DEF DictionaryInv, DictionaryType, DaemonType
<1> QED BY <1>1, <1>2, <1>3, <1>4 DEF DictionaryInv, DictionaryType, Pending, Last, Drained, Current

\* syncDaemonConnection, and somebody else's changes.
LEMMA MeetsKeeps ==
  ASSUME DictionaryInv, DictionaryMeets
  PROVE  DictionaryInv'
<1>1. CASE Dictionary!Connect
  <2>1. conn = "retrying" /\ UNCHANGED <<dialog, daemon>>
        /\ (page' = page \/ page' = Dictionary!load(page))
    BY <1>1 DEF Dictionary!Connect
  <2>2. CASE page' = page
    BY <2>1, <2>2 DEF DictionaryInv, DictionaryType, Pending, Last, Drained, Current
  <2>3. CASE page' = Dictionary!load(page)
    <3>1. PageType(page')
      BY <2>3, NoSaveTyped, AskedTyped DEF DictionaryInv, DictionaryType, PageType, Dictionary!load
    <3>2. page'.phase = "loading" /\ page'.save = page.save
      BY <2>3 DEF DictionaryInv, DictionaryType, PageType, Dictionary!load
    <3>3. conn' = "connected" /\ page.save.step = "none"
      BY <1>1, <2>1 DEF Dictionary!Connect, DictionaryInv, Pending
    <3> QED BY <2>1, <3>1, <3>2, <3>3
            DEF DictionaryInv, DictionaryType, Pending, Last, Drained, Current
  <2> QED BY <2>1, <2>2, <2>3
<1>2. CASE Dictionary!ConnectionLost
  <2>1. DialogType(dialog')
    BY <1>2 DEF Dictionary!ConnectionLost, DictionaryInv, DictionaryType, DialogType
  <2> QED BY <1>2, <2>1, DisconnectKeeps DEF Dictionary!ConnectionLost
<1>3. CASE Dictionary!ChangedOutside
  <2>1. Tail(Stored) \in Dictionaries /\ Dictionary!Reverse(Stored) \in Dictionaries
    BY StoredIsDictionary DEF Dictionary!Reverse, Dictionaries
  <2>2. DaemonType(daemon') /\ daemon'.queue = daemon.queue /\ daemon'.by = "other"
    BY <1>3, <2>1 DEF Dictionary!ChangedOutside, DictionaryInv, DictionaryType, DaemonType
  <2>3. UNCHANGED <<conn, page, dialog>>
    BY <1>3 DEF Dictionary!ChangedOutside
  <2> QED BY <2>2, <2>3 DEF DictionaryInv, DictionaryType, Pending, Last, Drained, Current
<1> QED BY <1>1, <1>2, <1>3 DEF DictionaryMeets

\* A step of persist(): only the request has changed.
AnsweredBy(step) ==
  /\ PageType(page')
  /\ page'.phase = page.phase /\ page'.entries = page.entries /\ page'.load = page.load
  /\ page'.save.step = step /\ page'.save.entries = page.save.entries

LEMMA AnsweredFacts ==
  ASSUME NEW step \in {"valid", "update", "applied", "get", "refused"},
         PageType(page), page' = [page EXCEPT !.save.step = step]
  PROVE  AnsweredBy(step)
<1>1. [page.save EXCEPT !.step = step] \in Requests
  BY AskedTyped DEF PageType
<1>2. page' = [page EXCEPT !.save = [page.save EXCEPT !.step = step]]
  BY DEF PageType
<1>3. PageType(page')
  BY <1>1, <1>2 DEF PageType
<1> QED BY <1>3 DEF AnsweredBy, PageType, Requests

\* What the daemon does with the requests.
LEMMA DaemonKeeps ==
  ASSUME DictionaryInv, Dictionary!Daemon, conn' = conn
  PROVE  DictionaryInv'
<1> USE DEF Dictionary!Answer
<1>1. CASE Dictionary!DaemonReads
  <2>1. page' = [page EXCEPT !.load = Dictionary!Answer(@)] /\ page.load.step = "asked"
        /\ UNCHANGED <<dialog, daemon>>
    BY <1>1 DEF Dictionary!DaemonReads
  <2>2. Dictionary!Answer(page.load) \in Requests
    BY DEF DictionaryInv, DictionaryType, DaemonType, Requests
  <2>3. PageType(page')
    BY <2>1, <2>2 DEF DictionaryInv, DictionaryType, PageType
  <2>4. /\ page'.phase = page.phase /\ page'.save = page.save /\ page'.entries = page.entries
        /\ page'.load.step = "answered"
    BY <2>1 DEF DictionaryInv, DictionaryType, PageType
  <2> QED BY <2>1, <2>3, <2>4 DEF DictionaryInv, DictionaryType, Pending, Last, Drained, Current
<1>2. CASE Dictionary!DaemonReadsBack
  <2>1. page' = [page EXCEPT !.save = Dictionary!Answer(@)] /\ page.save.step = "get"
        /\ UNCHANGED <<dialog, daemon>>
    BY <1>2 DEF Dictionary!DaemonReadsBack
  <2>2. Dictionary!Answer(page.save) \in Requests
    BY DEF DictionaryInv, DictionaryType, DaemonType, Requests
  <2>3. PageType(page')
    BY <2>1, <2>2 DEF DictionaryInv, DictionaryType, PageType
  <2>4. /\ page'.phase = page.phase /\ page'.load = page.load /\ page'.entries = page.entries
        /\ page'.save.step = "answered" /\ page'.save.entries = daemon.entries
    BY <2>1 DEF DictionaryInv, DictionaryType, PageType
  <2>5. page.phase = "saving" /\ daemon.queue = <<>>
    BY <2>1 DEF DictionaryInv, Pending, Drained
  <2>6. Last(page', daemon.queue)
    BY <2>5 DEF Last
  <2> QED BY <2>1, <2>3, <2>4, <2>5, <2>6
          DEF DictionaryInv, DictionaryType, Pending, Drained, Current
<1>3. CASE Dictionary!DaemonValidates
  <2>1. PICK step \in {"valid", "refused"} : page' = [page EXCEPT !.save.step = step]
    BY <1>3 DEF Dictionary!DaemonValidates
  <2>2. page.save.step = "validate" /\ UNCHANGED <<dialog, daemon>>
    BY <1>3 DEF Dictionary!DaemonValidates
  <2>3. AnsweredBy(step)
    BY <2>1, AnsweredFacts DEF DictionaryInv, DictionaryType
  <2> QED BY <2>2, <2>3
          DEF AnsweredBy, DictionaryInv, DictionaryType, Pending, Last, Drained, Current
<1>4. CASE Dictionary!DaemonApplies
  <2> DEFINE next == Head(daemon.queue)
             rest == Tail(daemon.queue)
  <2>1. /\ daemon.queue # <<>> /\ next \in Updates /\ rest \in Seq(Updates)
        /\ next = daemon.queue[1] /\ Len(rest) = Len(daemon.queue) - 1
        /\ \A i \in 1..Len(rest) : rest[i] = daemon.queue[i + 1]
        /\ Len(daemon.queue) \in Nat \ {0}
    BY <1>4 DEF Dictionary!DaemonApplies, DictionaryInv, DictionaryType, DaemonType
  <2>2. next.waiting => page.save.step = "update" /\ rest = <<>>
    BY <2>1 DEF DictionaryInv, Last
  <2>3. page.phase # "saved" /\ page.save.step \notin {"applied", "get", "answered"}
    BY <2>1 DEF DictionaryInv, Drained
  <2>4. UNCHANGED dialog /\ DaemonType(daemon') /\ daemon'.queue = rest
    <3>1. next.entries \in Dictionaries
      BY <2>1 DEF Updates
    <3>2. /\ UNCHANGED dialog
          /\ \/ daemon' = [entries |-> next.entries, failure |-> FALSE, by |-> "page", queue |-> rest]
             \/ daemon' = [daemon EXCEPT !.queue = rest]
      BY <1>4 DEF Dictionary!DaemonApplies
    <3> HIDE DEF next, rest
    <3>3. DaemonType(daemon) /\ rest \in Seq(Updates)
      BY <2>1 DEF DictionaryInv, DictionaryType
    <3>4. CASE daemon' = [entries |-> next.entries, failure |-> FALSE, by |-> "page",
                          queue |-> rest]
      BY <3>1, <3>2, <3>3, <3>4 DEF DaemonType
    <3>5. CASE daemon' = [daemon EXCEPT !.queue = rest]
      BY <3>2, <3>3, <3>5 DEF DaemonType
    <3> QED BY <3>2, <3>4, <3>5
  <2>5. CASE next.waiting
    <3>1. \/ page' = [page EXCEPT !.save.step = "applied"]
          \/ page' = [page EXCEPT !.save.step = "refused"]
      <4>1. next.waiting = TRUE
        BY <2>1, <2>5 DEF Updates
      <4> QED BY <1>4, <4>1 DEF Dictionary!DaemonApplies
    <3>2. AnsweredBy("applied") \/ AnsweredBy("refused")
      BY <3>1, AnsweredFacts DEF DictionaryInv, DictionaryType
    <3>3. page.phase = "saving" /\ conn = "connected"
      BY <2>2, <2>5 DEF DictionaryInv, Pending
    <3>4. Last(page', daemon'.queue)
      <4> HIDE DEF next, rest
      <4>1. daemon'.queue = <<>>
        BY <2>2, <2>4, <2>5
      <4> QED BY <4>1 DEF Last
    <3> QED BY <2>2, <2>4, <2>5, <3>2, <3>3, <3>4
            DEF AnsweredBy, DictionaryInv, DictionaryType, Pending, Drained, Current
  <2>6. CASE ~next.waiting
    <3>1. page' = page
      BY <1>4, <2>6 DEF Dictionary!DaemonApplies
    <3>2. Last(page, rest)
      BY <2>1 DEF DictionaryInv, Last
    <3> QED BY <2>3, <2>4, <3>1, <3>2 DEF DictionaryInv, DictionaryType, Pending, Drained, Current
  <2> QED BY <2>5, <2>6
<1> QED BY <1>1, <1>2, <1>3, <1>4 DEF Dictionary!Daemon

\* What the answers come to, in load() and persist().
LEMMA ReturnsKeep ==
  ASSUME DictionaryInv, Dictionary!Returns, conn' = conn
  PROVE  DictionaryInv'
<1>1. CASE Dictionary!LoadReturns
  <2>1. /\ page' = Dictionary!applyLoaded([page EXCEPT !.load = Dictionary!NoSave], page.load, FALSE)
        /\ page.load.step = "answered" /\ UNCHANGED <<dialog, daemon>>
    BY <1>1 DEF Dictionary!LoadReturns
  <2>2. page.load.entries \in Dictionaries
    BY DEF DictionaryInv, DictionaryType, PageType, Requests
  <2>3. PageType(page')
    BY <2>1, <2>2, NoSaveTyped DEF DictionaryInv, DictionaryType, PageType, Dictionary!applyLoaded
  <2>4. page'.save = page.save /\ page'.load.step = "none" /\ page'.phase # "saved"
    BY <2>1 DEF DictionaryInv, DictionaryType, PageType, Dictionary!applyLoaded, Dictionary!NoSave
  <2>5. page.save.step = "none"
    BY <2>1 DEF DictionaryInv, Pending
  <2> QED BY <2>1, <2>3, <2>4, <2>5
          DEF DictionaryInv, DictionaryType, Pending, Last, Drained, Current
<1>2. CASE Dictionary!SaveValidated
  <2> DEFINE queue == Append(daemon.queue, [entries |-> page.save.entries, waiting |-> TRUE])
  <2>1. /\ page.save.step = "valid" /\ page' = [page EXCEPT !.save.step = "update"]
        /\ daemon' = [daemon EXCEPT !.queue = queue] /\ dialog' = dialog
    BY <1>2 DEF Dictionary!SaveValidated
  <2>2. [entries |-> page.save.entries, waiting |-> TRUE] \in Updates
    BY DEF DictionaryInv, DictionaryType, PageType, Requests, Updates
  <2>3. daemon.queue \in Seq(Updates)
    BY DEF DictionaryInv, DictionaryType, DaemonType
  <2>4. /\ queue \in Seq(Updates) /\ Len(queue) = Len(daemon.queue) + 1
        /\ \A i \in 1..Len(daemon.queue) : queue[i] = daemon.queue[i]
        /\ Len(daemon.queue) \in Nat
    BY <2>2, <2>3
  <2>5. DaemonType(daemon') /\ daemon'.queue = queue
    BY <2>1, <2>4 DEF DictionaryInv, DictionaryType, DaemonType
  <2>6. AnsweredBy("update")
    BY <2>1, AnsweredFacts DEF DictionaryInv, DictionaryType
  <2>7. \A i \in 1..Len(daemon.queue) : ~daemon.queue[i].waiting
    BY <2>1 DEF DictionaryInv, Last
  <2> HIDE DEF queue
  <2>8. Last(page', queue)
    BY <2>4, <2>6, <2>7 DEF AnsweredBy, Last
  <2>9. page.phase = "saving" /\ conn = "connected"
    BY <2>1 DEF DictionaryInv, Pending
  <2> QED BY <2>1, <2>5, <2>6, <2>8, <2>9
          DEF AnsweredBy, DictionaryInv, DictionaryType, Pending, Drained, Current
<1>3. CASE Dictionary!SaveApplied
  <2>1. page.save.step = "applied" /\ page' = [page EXCEPT !.save.step = "get"]
        /\ UNCHANGED <<dialog, daemon>>
    BY <1>3 DEF Dictionary!SaveApplied
  <2>2. AnsweredBy("get")
    BY <2>1, AnsweredFacts DEF DictionaryInv, DictionaryType
  <2> QED BY <2>1, <2>2
          DEF AnsweredBy, DictionaryInv, DictionaryType, Pending, Last, Drained, Current
<1>4. CASE Dictionary!SaveRefused
  <2>1. /\ page' = [page EXCEPT !.save = Dictionary!NoSave, !.phase = "error"]
        /\ page.save.step = "refused" /\ dialog' = [dialog EXCEPT !.busy = FALSE] /\ daemon' = daemon
    BY <1>4 DEF Dictionary!SaveRefused, Dictionary!applyError
  <2>2. PageType(page') /\ DialogType(dialog')
    BY <2>1, NoSaveTyped DEF DictionaryInv, DictionaryType, PageType, DialogType
  <2>3. page'.save.step = "none" /\ page'.load = page.load /\ page'.phase = "error"
    BY <2>1 DEF DictionaryInv, DictionaryType, PageType, Dictionary!NoSave
  <2> QED BY <2>1, <2>2, <2>3 DEF DictionaryInv, DictionaryType, Pending, Last, Drained, Current
<1>5. CASE Dictionary!SaveReturns
  <2>1. /\ page' = Dictionary!applyLoaded([page EXCEPT !.save = Dictionary!NoSave], page.save, TRUE)
        /\ page.save.step = "answered" /\ dialog' = Dictionary!NoDialog /\ daemon' = daemon
    BY <1>5 DEF Dictionary!SaveReturns
  <2>2. page.save.entries \in Dictionaries
    BY DEF DictionaryInv, DictionaryType, PageType, Requests
  <2>3. PageType(page') /\ DialogType(dialog')
    BY <2>1, <2>2, NoSaveTyped DEF DictionaryInv, DictionaryType, PageType, DialogType,
                                   Dictionary!applyLoaded, Dictionary!NoDialog
  <2>4. /\ page'.load = page.load /\ page'.save.step = "none"
        /\ page'.entries = page.save.entries
    BY <2>1 DEF DictionaryInv, DictionaryType, PageType, Dictionary!applyLoaded, Dictionary!NoSave
  <2>5. page.load.step = "none" /\ daemon.queue = <<>>
    BY <2>1 DEF DictionaryInv, Pending, Drained
  <2> QED BY <2>1, <2>3, <2>4, <2>5
          DEF DictionaryInv, DictionaryType, Pending, Last, Drained, Current
<1> QED BY <1>1, <1>2, <1>3, <1>4, <1>5 DEF Dictionary!Returns

\* A change in the list is a new dictionary to save (persist).
LEMMA PersistKeeps ==
  ASSUME DictionaryInv, NEW entries \in Dictionaries, Dictionary!isEditable(page), conn' = conn,
         page' = Dictionary!persist(page, entries), DialogType(dialog'), daemon' = daemon
  PROVE  DictionaryInv'
<1>1. [[Dictionary!NoSave EXCEPT !.step = "validate"] EXCEPT !.entries = entries] \in Requests
  BY NoSaveTyped DEF Requests
<1>2. [Dictionary!NoSave EXCEPT !.step = "validate", !.entries = entries] \in Requests
      /\ [Dictionary!NoSave EXCEPT !.step = "validate", !.entries = entries].step = "validate"
  BY <1>1, NoSaveTyped DEF Requests
<1>3. PageType(page')
  BY <1>2 DEF DictionaryInv, DictionaryType, PageType, Dictionary!persist
<1>4. page'.phase = "saving" /\ page'.save.step = "validate" /\ page'.load = page.load
  BY <1>2 DEF DictionaryInv, DictionaryType, PageType, Dictionary!persist
<1>5. page.save.step = "none" /\ page.load.step = "none" /\ conn = "connected"
  BY DEF Dictionary!isEditable, DictionaryInv, Pending
<1> QED BY <1>3, <1>4, <1>5 DEF DictionaryInv, DictionaryType, Pending, Last, Drained, Current

\* What the user does, in the list and in the dialogs.
LEMMA UserKeeps ==
  ASSUME DictionaryInv, Dictionary!User
  PROVE  DictionaryInv'
<1> USE DEF Dictionary!NoDialog
<1>1. ASSUME page' = page, daemon' = daemon, conn' = conn, DialogType(dialog')
      PROVE  DictionaryInv'
  BY <1>1 DEF DictionaryInv, DictionaryType, Pending, Last, Drained, Current
<1>2. CASE \E kind \in {"entry", "delete"}, index \in Nat : Dictionary!Opens(kind, index)
  BY <1>1, <1>2 DEF Dictionary!Opens, DialogType
<1>3. Dictionary!Rows \subseteq Nat
  <2>1. CASE page.entries = None
    BY <2>1 DEF Dictionary!Rows
  <2>2. CASE page.entries # None
    BY <2>2 DEF Dictionary!Rows, DictionaryInv, DictionaryType, PageType, Dictionaries
  <2> QED BY <2>1, <2>2
<1>4. CASE Dictionary!showEntryDialog
  BY <1>2, <1>3, <1>4 DEF Dictionary!showEntryDialog
<1>5. CASE Dictionary!confirmEntryDeletion
  BY <1>2, <1>3, <1>5 DEF Dictionary!confirmEntryDeletion
<1>6. CASE Dictionary!Dismissed
  BY <1>1, <1>6 DEF Dictionary!Dismissed, DialogType
<1>7. CASE Dictionary!deleteEntry
  <2>1. UNCHANGED <<conn, daemon>> /\ DialogType(dialog')
    BY <1>7 DEF Dictionary!deleteEntry, DialogType
  <2>2. CASE Dictionary!isEditable(page) /\ dialog.index \in Dictionary!Rows
    <3>1. page.entries \in Dictionaries /\ dialog.index \in DOMAIN page.entries
      BY <2>2 DEF Dictionary!Rows, DictionaryInv, DictionaryType, PageType
    <3>2. page' = Dictionary!persist(page, Dictionary!RemoveAt(page.entries, dialog.index))
      BY <1>7, <2>2 DEF Dictionary!deleteEntry
    <3> QED BY <2>1, <2>2, <3>1, <3>2, RemoveTyped, PersistKeeps
  <2>3. CASE ~(Dictionary!isEditable(page) /\ dialog.index \in Dictionary!Rows)
    BY <1>1, <1>7, <2>1, <2>3 DEF Dictionary!deleteEntry
  <2> QED BY <2>2, <2>3
<1>8. ASSUME NEW entry \in Terms, Dictionary!apply(entry)
      PROVE  DictionaryInv'
  <2> DEFINE candidate == Dictionary!Candidate(entry)
             index == IF dialog.index = 0 THEN Len(page.entries) + 1 ELSE dialog.index
  <2>1. page.entries \in Dictionaries
    BY <1>8 DEF Dictionary!apply, DictionaryInv, DictionaryType, PageType
  <2>2. index \in Nat \ {0}
    BY <2>1 DEF DictionaryInv, DictionaryType, DialogType, Dictionaries
  <2>3. candidate.entries \in Dictionaries
    BY <2>1, <2>2, PutTyped DEF Dictionary!Candidate
  <2>4. /\ page' = Dictionary!persist(page, candidate.entries) /\ Dictionary!isEditable(page)
        /\ UNCHANGED <<conn, daemon>> /\ dialog' = [dialog EXCEPT !.busy = TRUE]
    BY <1>8 DEF Dictionary!apply
  <2>5. DialogType(dialog')
    BY <2>4 DEF DictionaryInv, DictionaryType, DialogType
  <2> HIDE DEF candidate
  <2> QED BY <2>3, <2>4, <2>5, PersistKeeps
<1> QED BY <1>4, <1>5, <1>6, <1>7, <1>8 DEF Dictionary!User

-------------------------------------------------------------------------------
\* No step of the window breaks it.
LEMMA DictionaryInvInductive == Spec => []DictionaryInv
<1>1. Init => DictionaryInv
  <2> SUFFICES ASSUME Init PROVE DictionaryInv
    OBVIOUS
  <2>1. Stored \in Dictionaries /\ <<>> \in Seq(Updates)
    BY StoredIsDictionary DEF Dictionaries
  <2>2. conn = "retrying" /\ page = Dictionary!Unloaded /\ dialog = Dictionary!NoDialog
        /\ daemon = [entries |-> Stored, failure |-> FALSE, by |-> "other", queue |-> <<>>]
    BY DEF Init, Dictionary!Init
  <2>3. DictionaryType
    BY <2>1, <2>2, NoSaveTyped DEF DictionaryType, PageType, DialogType, DaemonType,
                                   Dictionary!Unloaded, Dictionary!NoDialog
  <2>4. page.save.step = "none" /\ page.load.step = "none" /\ page.phase = "idle"
    BY <2>2 DEF Dictionary!Unloaded, Dictionary!NoSave
  <2> QED BY <2>2, <2>3, <2>4 DEF DictionaryInv, Pending, Last, Drained, Current
<1>2. DictionaryInv /\ [Next]_vars => DictionaryInv'
  <2> SUFFICES ASSUME DictionaryInv, [Next]_vars PROVE DictionaryInv'
    OBVIOUS
  <2>1. CASE UNCHANGED dictionaryVars
    BY <2>1 DEF dictionaryVars, DictionaryInv, DictionaryType, Pending, Last, Drained, Current
  <2>2. CASE UseDictionary
    BY <2>2, UserKeeps DEF UseDictionary
  <2>3. CASE DictionaryMeets
    BY <2>3, MeetsKeeps
  <2>4. CASE DictionaryGoesOn
    <3>1. CASE Dictionary!Daemon
      <4>1. conn' = conn
        BY <3>1 DEF Dictionary!Daemon, Dictionary!DaemonReads, Dictionary!DaemonReadsBack,
                    Dictionary!DaemonValidates, Dictionary!DaemonApplies
      <4> QED BY <3>1, <4>1, DaemonKeeps
    <3>2. CASE Dictionary!Returns
      <4>1. conn' = conn
        BY <3>2 DEF Dictionary!Returns, Dictionary!LoadReturns, Dictionary!SaveValidated,
                    Dictionary!SaveApplied, Dictionary!SaveRefused, Dictionary!SaveReturns
      <4> QED BY <3>2, <4>1, ReturnsKeep
    <3> QED BY <2>4, <3>1, <3>2 DEF DictionaryGoesOn
  <2>5. CASE Destroyed
    <3>1. DialogType(dialog')
      BY <2>5 DEF Destroyed, Dictionary!dispose, Dictionary!NoDialog, DialogType
    <3> QED BY <2>5, <3>1, DisconnectKeeps DEF Destroyed, Dictionary!dispose
  <2>6. CASE UNCHANGED vars
    BY <2>1, <2>6 DEF vars
  <2>7. UseInputBehavior \/ selectPage \/ CloseRequested \/ InputBehaviorGoesOn
          \/ FcitxAnswers \/ FcitxTimesOut => UNCHANGED dictionaryVars
    BY DEF UseInputBehavior, selectPage, CloseRequested, InputBehaviorGoesOn, FcitxAnswers,
           FcitxTimesOut
  <2> QED BY <2>1, <2>2, <2>3, <2>4, <2>5, <2>6, <2>7 DEF Next, User
<1> QED BY <1>1, <1>2, PTL DEF Spec

\* DictionaryState shows "saved" only with the dictionary the daemon has, although updates
\* of lost connections may be applied late, unless somebody else changed it since.
THEOREM SavedDictionary == Spec => []DictionarySaved
<1>1. DictionaryInv => DictionarySaved
  BY DEF DictionaryInv, Current, DictionarySaved, Dictionary!SavedMeansStored
<1> QED BY <1>1, DictionaryInvInductive, PTL

-------------------------------------------------------------------------------
(***************************************************************************)
(* The input behaviour: its keys and its animation.                        *)
(***************************************************************************)
Calls ==
  { call \in [what : {"SetConfig", "ReloadConfig"}, option : Options \union {None},
              by : {"behavior", "save", "reset", "nobody"}] :
      call.what = "SetConfig" => call.option \in Options }

Texts == Sources \union {Default, Empty, None}

FcitxType(f) == f \in [config : Options, animation : Texts, calls : Seq(Calls)]

Phases == {"loading", "idle", "saving", "saved", "error"}

Behaviors ==
  [phase : Phases, loading : BOOLEAN, config : Options \union {None},
   draft : Options \union {None}, timer : BOOLEAN, saveRequested : BOOLEAN,
   save : Options \union {None}]

Replacements ==
  [step : {"none", "read", "write", "reload", "restore", "again"}, text : Texts, previous : Texts]

Animations ==
  [phase : Phases, loading : BOOLEAN, source : Texts, draft : Texts, custom : BOOLEAN,
   timer : BOOLEAN, saveRequested : BOOLEAN, save : Replacements, reset : Replacements,
   overlapped : BOOLEAN]

\* A configuration is saved once it was loaded, and then the page shows that it is saved.
Saving(b) ==
  /\ b.loading => b.save = None /\ b.draft = None
  /\ b.draft = None => b.config = None
  /\ b.save # None => b.phase = "saving" /\ b.draft # None

\* The call that the page waits for is what it saves, and no other follows that sets the
\* keys, also none that was given up.
Setting(b, calls) ==
  \A i \in 1..Len(calls) :
    calls[i].by = "behavior" =>
      /\ calls[i].what = "SetConfig" /\ calls[i].option = b.save /\ b.save # None
      /\ \A j \in 1..Len(calls) : j > i => calls[j].what # "SetConfig"

\* When the page says "saved" no such call is left, and Fcitx has what it shows.
Settled(b, f) ==
  b.phase = "saved" =>
    /\ \A i \in 1..Len(f.calls) : f.calls[i].what # "SetConfig"
    /\ b.draft = b.config /\ b.config = f.config

Keys(b, f) ==
  /\ b \in Behaviors /\ FcitxType(f)
  /\ Saving(b) /\ Setting(b, f.calls) /\ Settled(b, f)

\* A replacement that Fcitx is asked to load is what the file holds, and none is under way
\* when the page says "saved", unless two were at once.
Alone(a, l) ==
  ~a.overlapped =>
    /\ a.save.step = "none" \/ a.reset.step = "none"
    /\ a.save.step = "reload" => l = a.save.text
    /\ a.reset.step = "reload" => l = a.reset.text
    /\ a.phase = "saved" => a.save.step = "none" /\ a.reset.step = "none"

\* "saved" is what the file and Fcitx have.
Shown(a, f, l) ==
  a.phase = "saved" /\ ~a.overlapped =>
    /\ a.draft = a.source
    /\ l = (IF a.custom THEN a.source ELSE None)
    /\ f.animation = l

\* Those who replace the file ask Fcitx for nothing but to load it.
Reloading(calls) ==
  \A i \in 1..Len(calls) :
    calls[i].by \in {"save", "reset"} => calls[i].what = "ReloadConfig"

\* A reset removes the file.
Removing(a) == a.reset.step # "none" => a.reset.text = None

Animated(a, f, l) ==
  /\ a \in Animations /\ l \in Texts
  /\ Removing(a) /\ Reloading(f.calls)
  /\ Alone(a, l) /\ Shown(a, f, l)

BehaviorInv == Keys(behavior, fcitx) /\ Animated(animation, fcitx, file)

-------------------------------------------------------------------------------
(***************************************************************************)
(* The calls.                                                              *)
(***************************************************************************)
\* The calls after the first one.
LEMMA TailFacts ==
  ASSUME NEW calls \in Seq(Calls), calls # <<>>
  PROVE  /\ Head(calls) = calls[1] /\ Head(calls) \in Calls
         /\ Tail(calls) \in Seq(Calls) /\ Len(Tail(calls)) = Len(calls) - 1
         /\ Len(calls) \in Nat \ {0}
         /\ \A i \in 1..Len(Tail(calls)) : Tail(calls)[i] = calls[i + 1]
OBVIOUS

\* Another call.
LEMMA AppendFacts ==
  ASSUME NEW calls \in Seq(Calls), NEW call \in Calls
  PROVE  /\ Append(calls, call) \in Seq(Calls)
         /\ Len(calls) \in Nat /\ Len(Append(calls, call)) = Len(calls) + 1
         /\ \A i \in 1..Len(calls) : Append(calls, call)[i] = calls[i]
         /\ Append(calls, call)[Len(calls) + 1] = call
OBVIOUS

\* A call that is not waited for any more.
GivenUp(calls, i) == [calls EXCEPT ![i].by = "nobody"]

LEMMA GivenUpFacts ==
  ASSUME NEW calls \in Seq(Calls), NEW i \in 1..Len(calls)
  PROVE  /\ GivenUp(calls, i) \in Seq(Calls) /\ Len(GivenUp(calls, i)) = Len(calls)
         /\ GivenUp(calls, i)[i].by = "nobody" /\ GivenUp(calls, i)[i].what = calls[i].what
         /\ \A j \in 1..Len(calls) : j # i => GivenUp(calls, i)[j] = calls[j]
<1>1. calls[i] \in Calls
  OBVIOUS
<1> DEFINE call == [calls[i] EXCEPT !.by = "nobody"]
<1>2. call \in Calls /\ call.by = "nobody" /\ call.what = calls[i].what
  BY <1>1 DEF Calls
<1>3. GivenUp(calls, i) = [calls EXCEPT ![i] = call]
  BY DEF GivenUp
<1> HIDE DEF call
<1> QED BY <1>2, <1>3

-------------------------------------------------------------------------------
(***************************************************************************)
(* The keys.                                                               *)
(***************************************************************************)
\* runAutoSaveLoop, up to its next call.
LEMMA BehaviorLoopFacts ==
  ASSUME NEW b \in Behaviors, b.draft = None => b.config = None,
         NEW r, r = InputBehavior!behaviorLoop(b)
  PROVE  /\ r \in Behaviors
         /\ r.loading = b.loading /\ r.config = b.config /\ r.draft = b.draft
         /\ \/ r.save = None /\ r.phase \in {b.phase, "error"}
            \/ r.save = b.draft /\ r.save # None /\ r.phase = "saving" /\ b.draft # b.config
BY DEF InputBehavior!behaviorLoop, InputBehavior!behaviorDirty, Behaviors, Phases

\* The loop goes on with another call or ends, when no call of its own is left.
LEMMA BehaviorLoopKeeps ==
  ASSUME NEW b \in Behaviors, NEW f, FcitxType(f),
         b.loading => b.draft = None, b.draft = None => b.config = None,
         \A i \in 1..Len(f.calls) : f.calls[i].by # "behavior",
         Settled(b, f),
         NEW r, r = InputBehavior!behaviorLoop(b),
         NEW g, g = IF r.save = None THEN f
                    ELSE [f EXCEPT !.calls =
                            Append(@, InputBehavior!Call("SetConfig", r.save, "behavior"))]
  PROVE  Keys(r, g)
<1>1. /\ r \in Behaviors
      /\ r.loading = b.loading /\ r.config = b.config /\ r.draft = b.draft
      /\ \/ r.save = None /\ r.phase \in {b.phase, "error"}
         \/ r.save = b.draft /\ r.save # None /\ r.phase = "saving" /\ b.draft # b.config
  BY BehaviorLoopFacts
<1>2. Saving(r)
  BY <1>1 DEF Saving
<1>3. CASE r.save = None
  BY <1>1, <1>2, <1>3 DEF Keys, Setting, Settled
<1>4. CASE r.save # None
  <2> DEFINE call == InputBehavior!Call("SetConfig", r.save, "behavior")
  <2>1. call \in Calls /\ call.what = "SetConfig" /\ call.option = r.save
    BY <1>1, <1>4 DEF InputBehavior!Call, Calls, Behaviors
  <2>2. f.calls \in Seq(Calls)
    BY DEF FcitxType
  <2> HIDE DEF call
  <2>3. g = [f EXCEPT !.calls = Append(f.calls, call)]
    BY <1>4 DEF call
  <2>4. /\ Append(f.calls, call) \in Seq(Calls)
        /\ Len(f.calls) \in Nat /\ Len(Append(f.calls, call)) = Len(f.calls) + 1
        /\ \A i \in 1..Len(f.calls) : Append(f.calls, call)[i] = f.calls[i]
        /\ Append(f.calls, call)[Len(f.calls) + 1] = call
    BY <2>1, <2>2, AppendFacts
  <2>5. FcitxType(g) /\ g.calls = Append(f.calls, call)
    BY <2>3, <2>4 DEF FcitxType
  <2>6. Setting(r, g.calls)
    BY <1>4, <2>1, <2>4, <2>5 DEF Setting
  <2>7. r.phase = "saving"
    BY <1>1, <1>4
  <2> QED BY <1>1, <1>2, <2>5, <2>6, <2>7 DEF Keys, Settled
<1> QED BY <1>3, <1>4

\* Where the page waits for no call there is none of its own.
LEMMA NoCallLeft ==
  ASSUME NEW b, NEW f, Keys(b, f), b.save = None
  PROVE  \A i \in 1..Len(f.calls) : f.calls[i].by # "behavior"
BY DEF Keys, Setting

\* flushPendingChanges, by the timer, a page or the window.
LEMMA FlushKeepsKeys ==
  ASSUME Keys(behavior, fcitx), behavior' = InputBehavior!behaviorFlushed(behavior),
         fcitx' = InputBehavior!behaviorSaves(behavior, behavior')
  PROVE  Keys(behavior', fcitx')
<1> DEFINE asked == [behavior EXCEPT !.timer = FALSE,
                       !.saveRequested = @ \/ InputBehavior!behaviorDirty(behavior)]
<1>1. /\ asked \in Behaviors
      /\ asked.loading = behavior.loading /\ asked.config = behavior.config
      /\ asked.draft = behavior.draft /\ asked.phase = behavior.phase /\ asked.save = behavior.save
  BY DEF Keys, Behaviors, InputBehavior!behaviorDirty
<1>2. behavior' = IF behavior.save # None THEN asked ELSE InputBehavior!behaviorLoop(asked)
  BY DEF InputBehavior!behaviorFlushed
<1> HIDE DEF asked
<1>3. CASE behavior.save # None
  <2>1. behavior' = asked /\ fcitx' = fcitx
    BY <1>2, <1>3 DEF InputBehavior!behaviorSaves
  <2> QED BY <1>1, <2>1 DEF Keys, Saving, Setting, Settled
<1>4. CASE behavior.save = None
  <2>1. fcitx' = IF behavior'.save = None THEN fcitx
                 ELSE [fcitx EXCEPT !.calls =
                         Append(@, InputBehavior!Call("SetConfig", behavior'.save, "behavior"))]
    BY <1>4 DEF InputBehavior!behaviorSaves, InputBehavior!Sends
  <2>2. /\ FcitxType(fcitx) /\ Settled(asked, fcitx)
        /\ asked.loading => asked.draft = None
        /\ asked.draft = None => asked.config = None
    BY <1>1 DEF Keys, Saving, Settled
  <2>3. behavior' = InputBehavior!behaviorLoop(asked)
    BY <1>2, <1>4
  <2> QED BY <1>1, <1>4, <2>1, <2>2, <2>3, NoCallLeft, BehaviorLoopKeeps
<1> QED BY <1>3, <1>4

\* Fcitx handles a call that the page does not wait for, or is asked to load the animation.
LEMMA OthersKeepKeys ==
  ASSUME NEW b, NEW f, NEW g, Keys(b, f), FcitxType(g),
         \/ /\ f.calls # <<>> /\ Head(f.calls).by # "behavior" /\ g.calls = Tail(f.calls)
            /\ g.config = f.config \/ Head(f.calls).what = "SetConfig"
         \/ /\ g.config = f.config
            /\ \E call \in Calls :
                 /\ call.by # "behavior" /\ call.what = "ReloadConfig"
                 /\ g.calls = Append(f.calls, call)
         \/ /\ g.config = f.config
            /\ \E i \in 1..Len(f.calls) :
                 /\ f.calls[i].by # "behavior"
                 /\ g.calls = GivenUp(f.calls, i)
  PROVE  Keys(b, g)
<1>1. f.calls \in Seq(Calls)
  BY DEF Keys, FcitxType
<1>2. CASE /\ f.calls # <<>> /\ Head(f.calls).by # "behavior" /\ g.calls = Tail(f.calls)
           /\ g.config = f.config \/ Head(f.calls).what = "SetConfig"
  <2>1. /\ Head(f.calls) = f.calls[1] /\ Len(g.calls) = Len(f.calls) - 1
        /\ Len(f.calls) \in Nat \ {0}
        /\ \A i \in 1..Len(g.calls) : g.calls[i] = f.calls[i + 1]
    BY <1>1, <1>2, TailFacts
  <2>2. Setting(b, g.calls)
    <3> SUFFICES ASSUME NEW i \in 1..Len(g.calls), g.calls[i].by = "behavior"
                 PROVE  /\ g.calls[i].what = "SetConfig" /\ g.calls[i].option = b.save
                        /\ b.save # None
                        /\ \A j \in 1..Len(g.calls) : j > i => g.calls[j].what # "SetConfig"
      BY DEF Setting
    <3>1. /\ i + 1 \in 1..Len(f.calls) /\ g.calls[i] = f.calls[i + 1]
          /\ \A j \in 1..Len(g.calls) :
               j + 1 \in 1..Len(f.calls) /\ g.calls[j] = f.calls[j + 1]
                 /\ (j > i => j + 1 > i + 1)
      BY <2>1
    <3> QED BY <3>1 DEF Keys, Setting
  <2>3. Settled(b, g)
    BY <1>2, <2>1 DEF Keys, Settled
  <2> QED BY <2>2, <2>3 DEF Keys
<1>3. ASSUME g.config = f.config,
             NEW call \in Calls, call.by # "behavior", call.what = "ReloadConfig",
             g.calls = Append(f.calls, call)
      PROVE  Keys(b, g)
  <2>1. /\ Len(f.calls) \in Nat /\ Len(g.calls) = Len(f.calls) + 1
        /\ \A i \in 1..Len(f.calls) : g.calls[i] = f.calls[i]
        /\ g.calls[Len(f.calls) + 1] = call
    BY <1>1, <1>3, AppendFacts
  <2>2. Setting(b, g.calls)
    BY <1>3, <2>1 DEF Keys, Setting
  <2>3. Settled(b, g)
    BY <1>3, <2>1 DEF Keys, Settled
  <2> QED BY <2>2, <2>3 DEF Keys
<1>4. ASSUME g.config = f.config,
             NEW i \in 1..Len(f.calls), f.calls[i].by # "behavior",
             g.calls = GivenUp(f.calls, i)
      PROVE  Keys(b, g)
  <2>1. /\ Len(g.calls) = Len(f.calls)
        /\ g.calls[i].by = "nobody" /\ g.calls[i].what = f.calls[i].what
        /\ \A j \in 1..Len(f.calls) : j # i => g.calls[j] = f.calls[j]
    BY <1>1, <1>4, GivenUpFacts
  <2>2. Setting(b, g.calls)
    BY <1>4, <2>1 DEF Keys, Setting
  <2>3. Settled(b, g)
    BY <1>4, <2>1 DEF Keys, Settled
  <2> QED BY <2>2, <2>3 DEF Keys
<1> QED BY <1>2, <1>3, <1>4

\* The page gets its answer: it shows "saved" only what Fcitx was told last.
LEMMA AnswerKeepsKeys ==
  ASSUME Keys(behavior, fcitx), fcitx.calls # <<>>, Head(fcitx.calls).by = "behavior",
         \/ InputBehavior!BehaviorAnswered(InputBehavior!applySaved(behavior),
                                           InputBehavior!Carried(Head(fcitx.calls)))
         \/ InputBehavior!BehaviorAnswered([behavior EXCEPT !.phase = "error"],
                                           InputBehavior!Refused)
  PROVE  Keys(behavior', fcitx')
<1> DEFINE call == Head(fcitx.calls)
<1>1. FcitxType(fcitx) /\ fcitx.calls \in Seq(Calls) /\ behavior \in Behaviors
  BY DEF Keys, FcitxType
<1>2. /\ call = fcitx.calls[1] /\ Tail(fcitx.calls) \in Seq(Calls)
      /\ Len(Tail(fcitx.calls)) = Len(fcitx.calls) - 1 /\ Len(fcitx.calls) \in Nat \ {0}
      /\ \A i \in 1..Len(Tail(fcitx.calls)) : Tail(fcitx.calls)[i] = fcitx.calls[i + 1]
  BY <1>1, TailFacts
<1>3. /\ call.what = "SetConfig" /\ call.option = behavior.save /\ behavior.save # None
      /\ \A i \in 1..Len(Tail(fcitx.calls)) : /\ Tail(fcitx.calls)[i].what # "SetConfig"
                                              /\ Tail(fcitx.calls)[i].by # "behavior"
  BY <1>2 DEF Keys, Setting
<1>4. behavior.loading = FALSE /\ behavior.draft # None /\ behavior.save \in Options
  BY <1>1, <1>3 DEF Keys, Saving, Behaviors
<1>5. CASE InputBehavior!BehaviorAnswered(InputBehavior!applySaved(behavior),
                                          InputBehavior!Carried(call))
  <2> DEFINE b == InputBehavior!applySaved(behavior)
             f == InputBehavior!Carried(call)
  <2>1. f = [fcitx EXCEPT !.calls = Tail(fcitx.calls), !.config = behavior.save]
    BY <1>3 DEF InputBehavior!Carried
  <2>2. FcitxType(f) /\ f.calls = Tail(fcitx.calls) /\ f.config = behavior.save
    BY <1>1, <1>2, <1>4, <2>1 DEF FcitxType
  <2>3. /\ b \in Behaviors /\ b.loading = FALSE /\ b.config = behavior.save
        /\ b.draft = behavior.draft /\ (b.phase = "saved" => b.draft = behavior.save)
    BY <1>1, <1>4 DEF InputBehavior!applySaved, Behaviors, Phases
  <2> HIDE DEF b, f
  <2>4. Settled(b, f)
    BY <1>3, <2>2, <2>3 DEF Settled
  <2>5. \A i \in 1..Len(f.calls) : f.calls[i].by # "behavior"
    BY <1>3, <2>2
  <2> QED BY <1>4, <1>5, <2>2, <2>3, <2>4, <2>5, BehaviorLoopKeeps
          DEF b, f, InputBehavior!BehaviorAnswered
<1>6. CASE InputBehavior!BehaviorAnswered([behavior EXCEPT !.phase = "error"],
                                          InputBehavior!Refused)
  <2> DEFINE b == [behavior EXCEPT !.phase = "error"]
             f == InputBehavior!Refused
  <2>2. FcitxType(f) /\ f.calls = Tail(fcitx.calls)
    BY <1>1, <1>2 DEF FcitxType, InputBehavior!Refused
  <2>3. /\ b \in Behaviors /\ b.loading = FALSE /\ b.config = behavior.config
        /\ b.draft = behavior.draft /\ b.phase = "error"
    BY <1>1, <1>4 DEF Behaviors, Phases
  <2> HIDE DEF b, f
  <2>4. Settled(b, f)
    BY <2>3 DEF Settled
  <2>5. \A i \in 1..Len(f.calls) : f.calls[i].by # "behavior"
    BY <1>3, <2>2
  <2> QED BY <1>4, <1>6, <2>2, <2>3, <2>4, <2>5, BehaviorLoopKeeps
          DEF b, f, InputBehavior!BehaviorAnswered
<1> QED BY <1>5, <1>6

\* The page gives its call up, which Fcitx may still carry out.
LEMMA TimeoutKeepsKeys ==
  ASSUME Keys(behavior, fcitx), NEW i \in 1..Len(fcitx.calls), fcitx.calls[i].by = "behavior",
         InputBehavior!BehaviorAnswered([behavior EXCEPT !.phase = "error"],
                                        [fcitx EXCEPT !.calls[i].by = "nobody"])
  PROVE  Keys(behavior', fcitx')
<1> DEFINE b == [behavior EXCEPT !.phase = "error"]
           f == [fcitx EXCEPT !.calls[i].by = "nobody"]
<1>1. FcitxType(fcitx) /\ fcitx.calls \in Seq(Calls) /\ behavior \in Behaviors
  BY DEF Keys, FcitxType
<1>2. f.calls = GivenUp(fcitx.calls, i) /\ f.config = fcitx.config
      /\ f = [fcitx EXCEPT !.calls = GivenUp(fcitx.calls, i)]
  <2>1. f = [fcitx EXCEPT !.calls = GivenUp(fcitx.calls, i)]
    BY DEF GivenUp
  <2> HIDE DEF f
  <2> QED BY <1>1, <2>1 DEF FcitxType
<1> HIDE DEF f
<1>3. /\ f.calls \in Seq(Calls) /\ Len(f.calls) = Len(fcitx.calls)
      /\ f.calls[i].by = "nobody"
      /\ \A j \in 1..Len(fcitx.calls) : j # i => f.calls[j] = fcitx.calls[j]
  BY <1>1, <1>2, GivenUpFacts
<1>4. \A j \in 1..Len(f.calls) : f.calls[j].by # "behavior"
  BY <1>1, <1>3 DEF Keys, Setting
<1>5. FcitxType(f)
  BY <1>1, <1>2, <1>3 DEF FcitxType
<1>6. /\ b \in Behaviors /\ b.loading = behavior.loading /\ b.config = behavior.config
      /\ b.draft = behavior.draft /\ b.phase = "error"
  BY <1>1 DEF Behaviors, Phases
<1>7. /\ b.loading => b.draft = None
      /\ b.draft = None => b.config = None
  BY <1>6 DEF Keys, Saving
<1> HIDE DEF b
<1>8. Settled(b, f)
  BY <1>6 DEF Settled
<1> QED BY <1>4, <1>5, <1>6, <1>7, <1>8, BehaviorLoopKeeps DEF b, f, InputBehavior!BehaviorAnswered

\* The page is loaded or edited, or the window is destroyed.
LEMMA PageKeepsKeys ==
  ASSUME Keys(behavior, fcitx), fcitx' = fcitx,
         \/ InputBehavior!BehaviorLoaded
         \/ \E option \in Options : InputBehavior!editBehavior(option)
         \/ InputBehavior!dispose
  PROVE  Keys(behavior', fcitx')
<1>1. behavior \in Behaviors /\ FcitxType(fcitx) /\ fcitx.config \in Options
  BY DEF Keys, FcitxType
<1>2. CASE InputBehavior!BehaviorLoaded
  <2>1. behavior.loading /\ behavior.save = None /\ behavior.draft = None /\ behavior.config = None
    BY <1>2 DEF InputBehavior!BehaviorLoaded, Keys, Saving
  <2>2. /\ behavior' \in Behaviors /\ behavior'.save = None /\ behavior'.loading = FALSE
        /\ behavior'.phase \in {"idle", "error"} /\ behavior'.draft = behavior'.config
    BY <1>1, <1>2, <2>1 DEF InputBehavior!BehaviorLoaded, Behaviors, Phases
  <2>3. Saving(behavior')
    BY <2>2 DEF Saving
  <2> QED BY <1>1, <2>1, <2>2, <2>3 DEF Keys, Setting, Settled
<1>3. ASSUME NEW option \in Options, InputBehavior!editBehavior(option)
      PROVE  Keys(behavior', fcitx')
  <2>1. /\ behavior' \in Behaviors /\ behavior'.save = behavior.save
        /\ behavior'.loading = behavior.loading /\ behavior'.config = behavior.config
        /\ behavior'.draft = option
        /\ behavior'.phase = IF behavior.phase = "saving" THEN "saving" ELSE "idle"
    BY <1>1, <1>3 DEF InputBehavior!editBehavior, InputBehavior!behaviorEdited, Behaviors, Phases
  <2>2. behavior.draft # None /\ option # None
    BY <1>3, NoneIsNothing DEF InputBehavior!editBehavior
  <2>3. Saving(behavior')
    BY <2>1, <2>2 DEF Keys, Saving
  <2> QED BY <1>1, <2>1, <2>3 DEF Keys, Setting, Settled
<1>4. CASE InputBehavior!dispose
  <2>1. /\ behavior' \in Behaviors /\ behavior'.save = behavior.save
        /\ behavior'.loading = FALSE /\ behavior'.config = behavior.config
        /\ behavior'.draft = behavior.draft /\ behavior'.phase = behavior.phase
    BY <1>1, <1>4 DEF InputBehavior!dispose, Behaviors
  <2>2. Saving(behavior')
    BY <2>1 DEF Keys, Saving
  <2> QED BY <1>1, <2>1, <2>2 DEF Keys, Setting, Settled
<1> QED BY <1>2, <1>3, <1>4

-------------------------------------------------------------------------------
(***************************************************************************)
(* The animation.                                                          *)
(***************************************************************************)
\* runAutoSaveLoop, up to its next replacement.
LEMMA AnimationLoopFacts ==
  ASSUME NEW a \in Animations, NEW r, r = InputBehavior!animationLoop(a)
  PROVE  /\ r \in Animations
         /\ r.source = a.source /\ r.draft = a.draft /\ r.custom = a.custom /\ r.reset = a.reset
         /\ \/ /\ r.save.step = "none" /\ r.phase \in {a.phase, "error"}
               /\ r.overlapped = a.overlapped
            \/ /\ r.save.step = "read" /\ r.phase = "saving"
               /\ r.overlapped = (a.overlapped \/ a.reset.step # "none")
<1>1. /\ InputBehavior!NoReplacement \in Replacements
      /\ InputBehavior!NoReplacement.step = "none"
  BY DEF InputBehavior!NoReplacement, InputBehavior!Replacing, Replacements, Texts
<1>2. /\ InputBehavior!Replacing("read", a.draft) \in Replacements
      /\ InputBehavior!Replacing("read", a.draft).step = "read"
  BY DEF InputBehavior!Replacing, Replacements, Animations, Texts
<1> QED BY <1>1, <1>2 DEF InputBehavior!animationLoop, InputBehavior!animationError,
                          Animations, Phases

\* What is left when a save has come to its end, before the loop goes on.
Ending(a, f, l) ==
  /\ a \in Animations /\ l \in Texts
  /\ Removing(a) /\ Reloading(f.calls) /\ Shown(a, f, l)
  /\ ~a.overlapped => /\ a.reset.step = "reload" => l = a.reset.text
                      /\ a.phase = "saved" => a.reset.step = "none"

LEMMA AnimationLoopKeeps ==
  ASSUME NEW a, NEW f, NEW l, Ending(a, f, l)
  PROVE  Animated(InputBehavior!animationLoop(a), f, l)
<1> DEFINE r == InputBehavior!animationLoop(a)
<1>1. a \in Animations
  BY DEF Ending
<1>2. /\ r \in Animations
      /\ r.source = a.source /\ r.draft = a.draft /\ r.custom = a.custom /\ r.reset = a.reset
      /\ \/ /\ r.save.step = "none" /\ r.phase \in {a.phase, "error"}
            /\ r.overlapped = a.overlapped
         \/ /\ r.save.step = "read" /\ r.phase = "saving"
            /\ r.overlapped = (a.overlapped \/ a.reset.step # "none")
  BY <1>1, AnimationLoopFacts
<1> HIDE DEF r
<1>3. Alone(r, l)
  BY <1>2 DEF Ending, Alone
<1>4. Shown(r, f, l)
  BY <1>2 DEF Ending, Shown
<1> QED BY <1>2, <1>3, <1>4 DEF Animated, Ending, Removing, r

\* flushPendingChanges, by the timer, a page or the window.
LEMMA FlushKeepsAnimation ==
  ASSUME NEW a, NEW f, NEW l, Animated(a, f, l)
  PROVE  Animated(InputBehavior!animationFlushed(a), f, l)
<1> DEFINE asked == [a EXCEPT !.timer = FALSE,
                       !.saveRequested = @ \/ InputBehavior!animationDirty(a)]
<1>1. /\ asked \in Animations
      /\ asked.source = a.source /\ asked.draft = a.draft /\ asked.custom = a.custom
      /\ asked.phase = a.phase /\ asked.overlapped = a.overlapped
      /\ asked.save = a.save /\ asked.reset = a.reset
  BY DEF Animated, Animations, InputBehavior!animationDirty
<1>2. InputBehavior!animationFlushed(a) =
        IF a.save.step # "none" THEN asked ELSE InputBehavior!animationLoop(asked)
  BY <1>1 DEF InputBehavior!animationFlushed
<1> HIDE DEF asked
<1>3. Animated(asked, f, l)
  BY <1>1 DEF Animated, Alone, Shown, Removing
<1>4. Ending(asked, f, l)
  BY <1>3 DEF Ending, Animated, Alone
<1> QED BY <1>2, <1>3, <1>4, AnimationLoopKeeps

\* A replacement fails.
LEMMA FailedKeeps ==
  ASSUME NEW a, NEW f, NEW l, Animated(a, f, l), NEW by \in {"save", "reset"}
  PROVE  Animated(InputBehavior!Failed(a, by), f, l)
<1>1. a \in Animations
  BY DEF Animated
<1>2. CASE by = "save"
  <2> DEFINE e == InputBehavior!animationError(a)
  <2>1. /\ e \in Animations /\ e.phase = "error"
        /\ e.overlapped = a.overlapped /\ e.reset = a.reset
    BY <1>1 DEF InputBehavior!animationError, Animations, Phases
  <2>2. InputBehavior!Failed(a, by) = InputBehavior!animationLoop(e)
    BY <1>2 DEF InputBehavior!Failed
  <2> HIDE DEF e
  <2>3. Ending(e, f, l)
    BY <2>1 DEF Ending, Animated, Alone, Shown, Removing
  <2> QED BY <2>2, <2>3, AnimationLoopKeeps
<1>3. CASE by = "reset"
  <2> DEFINE e == InputBehavior!Failed(a, by)
  <2>1. InputBehavior!NoReplacement \in Replacements /\ InputBehavior!NoReplacement.step = "none"
    BY DEF InputBehavior!NoReplacement, InputBehavior!Replacing, Replacements, Texts
  <2>2. /\ e \in Animations /\ e.phase = "error" /\ e.overlapped = a.overlapped
        /\ e.save = a.save /\ e.reset.step = "none"
    BY <1>1, <1>3, <2>1 DEF InputBehavior!Failed, InputBehavior!animationError, Animations, Phases
  <2> HIDE DEF e
  <2>3. Animated(e, f, l)
    BY <2>2 DEF Animated, Alone, Shown, Removing
  <2> QED BY <2>3 DEF e
<1> QED BY <1>2, <1>3

\* The next step of a replacement.
Stepped(a, by, step) == [a EXCEPT ![by].step = step]

LEMMA StepFacts ==
  ASSUME NEW a \in Animations, NEW by \in {"save", "reset"},
         NEW step \in {"write", "reload", "restore", "again"}
  PROVE  LET r == Stepped(a, by, step) IN
         /\ r \in Animations
         /\ r.phase = a.phase /\ r.overlapped = a.overlapped /\ r.custom = a.custom
         /\ r.source = a.source /\ r.draft = a.draft
         /\ by = "save" => r.reset = a.reset /\ r.save.step = step /\ r.save.text = a.save.text
         /\ by = "reset" => r.save = a.save /\ r.reset.step = step /\ r.reset.text = a.reset.text
<1>1. CASE by = "save"
  BY <1>1 DEF Animations, Replacements, Stepped
<1>2. CASE by = "reset"
  BY <1>2 DEF Animations, Replacements, Stepped
<1> QED BY <1>1, <1>2

\* Fcitx does not load the animation: the file is put back, or the replacement fails.
LEMMA NotReloadedKeeps ==
  ASSUME NEW a, NEW f, NEW l, Animated(a, f, l), NEW by \in {"save", "reset"}
  PROVE  Animated(InputBehavior!NotReloaded(a, by), f, l)
<1>1. CASE a[by].step = "reload"
  <2> DEFINE r == Stepped(a, by, "restore")
  <2>1. InputBehavior!NotReloaded(a, by) = r
    BY <1>1 DEF InputBehavior!NotReloaded, Stepped
  <2>2. a \in Animations
    BY DEF Animated
  <2>3. /\ r \in Animations
        /\ r.phase = a.phase /\ r.overlapped = a.overlapped /\ r.custom = a.custom
        /\ r.source = a.source /\ r.draft = a.draft
        /\ by = "save" => r.reset = a.reset /\ r.save.step = "restore" /\ a.save.step = "reload"
        /\ by = "reset" => /\ r.save = a.save /\ r.reset.step = "restore"
                           /\ a.reset.step = "reload" /\ r.reset.text = a.reset.text
    BY <1>1, <2>2, StepFacts
  <2> HIDE DEF r
  <2> QED BY <2>1, <2>3 DEF Animated, Alone, Shown, Removing
<1>2. CASE a[by].step # "reload"
  BY <1>2, FailedKeeps DEF InputBehavior!NotReloaded
<1> QED BY <1>1, <1>2

\* Fcitx has loaded the animation: the page shows it as saved, or the replacement fails.
LEMMA ReloadedKeeps ==
  ASSUME NEW a, NEW f, NEW l, Animated(a, f, l), f.animation = l, NEW by \in {"save", "reset"}
  PROVE  Animated(InputBehavior!Reloaded(a, by), f, l)
<1>1. a \in Animations /\ Default \in Texts
  BY DEF Animated, Texts
<1>2. CASE a[by].step = "reload" /\ by = "save"
  <2> DEFINE e == [a EXCEPT !.source = a.save.text, !.custom = TRUE,
                     !.phase = IF a.draft = a.save.text THEN "saved" ELSE "idle"]
  <2>1. InputBehavior!Reloaded(a, by) = InputBehavior!animationLoop(e)
    BY <1>2 DEF InputBehavior!Reloaded, InputBehavior!Replaced
  <2>2. /\ e \in Animations /\ e.source = a.save.text /\ e.custom = TRUE
        /\ e.draft = a.draft /\ e.overlapped = a.overlapped /\ e.reset = a.reset
        /\ e.phase = "saved" => a.draft = a.save.text
    BY <1>1 DEF Animations, Phases, Replacements
  <2>3. a.save.step = "reload"
    BY <1>1, <1>2
  <2> HIDE DEF e
  <2>4. Ending(e, f, l)
    BY <2>2, <2>3 DEF Ending, Animated, Alone, Shown, Removing
  <2> QED BY <2>1, <2>4, AnimationLoopKeeps
<1>3. CASE a[by].step = "reload" /\ by = "reset"
  <2> DEFINE e == InputBehavior!Reloaded(a, by)
  <2>1. InputBehavior!NoReplacement \in Replacements /\ InputBehavior!NoReplacement.step = "none"
    BY DEF InputBehavior!NoReplacement, InputBehavior!Replacing, Replacements, Texts
  <2>2. /\ e \in Animations /\ e.source = Default /\ e.draft = Default /\ e.custom = FALSE
        /\ e.overlapped = a.overlapped /\ e.save = a.save /\ e.reset.step = "none"
    BY <1>1, <1>3, <2>1 DEF InputBehavior!Reloaded, InputBehavior!Replaced, Animations, Phases
  <2>3. a.reset.step = "reload"
    BY <1>1, <1>3
  <2> HIDE DEF e
  <2>4. Animated(e, f, l)
    BY <2>2, <2>3 DEF Animated, Alone, Shown, Removing
  <2> QED BY <2>4 DEF e
<1>4. CASE a[by].step # "reload"
  BY <1>4, FailedKeeps DEF InputBehavior!Reloaded
<1> QED BY <1>2, <1>3, <1>4

\* The page is loaded or edited, the animation is reset, or the window is destroyed.
LEMMA PageKeepsAnimation ==
  ASSUME Animated(animation, fcitx, file), UNCHANGED <<fcitx, file>>,
         \/ InputBehavior!AnimationLoaded
         \/ \E text \in Sources : InputBehavior!updateDraft(text)
         \/ InputBehavior!reset \/ InputBehavior!openEditor
         \/ InputBehavior!dispose
  PROVE  Animated(animation', fcitx', file')
<1>1. animation \in Animations /\ file \in Texts /\ Default \in Texts
  BY DEF Animated, Texts
<1>2. CASE InputBehavior!AnimationLoaded
  <2>1. /\ animation' \in Animations /\ animation'.phase \in {"idle", "error"}
        /\ animation'.overlapped = animation.overlapped
        /\ animation'.save = animation.save /\ animation'.reset = animation.reset
    <3> DEFINE text == IF file = None THEN Default ELSE file
               custom == file # None
               phase == IF InputBehavior!Valid(text) THEN "idle" ELSE "error"
    <3>1. text \in Texts /\ custom \in BOOLEAN /\ phase \in {"idle", "error"}
      BY <1>1
    <3>2. \/ animation' = [animation EXCEPT !.loading = FALSE, !.custom = custom,
                             !.source = text, !.draft = text, !.phase = phase]
          \/ animation' = [animation EXCEPT !.loading = FALSE, !.phase = "error"]
      BY <1>2 DEF InputBehavior!AnimationLoaded, InputBehavior!animationError
    <3> HIDE DEF text, custom, phase
    <3> QED BY <1>1, <3>1, <3>2 DEF Animations, Phases
  <2> QED BY <1>1, <2>1 DEF Animated, Alone, Shown, Removing
<1>3. ASSUME NEW text \in Sources, InputBehavior!updateDraft(text)
      PROVE  Animated(animation', fcitx', file')
  <2>1. text \in Texts
    BY DEF Texts
  <2>2. /\ animation' \in Animations /\ animation'.phase # "saved"
        /\ animation'.overlapped = animation.overlapped
        /\ animation'.save = animation.save /\ animation'.reset = animation.reset
    BY <1>1, <1>3, <2>1 DEF InputBehavior!updateDraft, InputBehavior!animationEdited,
                            Animations, Phases
  <2> QED BY <1>1, <2>2 DEF Animated, Alone, Shown, Removing
<1>4. CASE InputBehavior!reset
  <2>1. /\ InputBehavior!Replacing("read", None) \in Replacements
        /\ InputBehavior!Replacing("read", None).step = "read"
        /\ InputBehavior!Replacing("read", None).text = None
    BY DEF InputBehavior!Replacing, Replacements, Texts
  <2>2. /\ animation' \in Animations /\ animation'.phase = "saving"
        /\ animation'.overlapped = (animation.overlapped \/ animation.save.step # "none")
        /\ animation'.save = animation.save
        /\ animation'.reset.step = "read" /\ animation'.reset.text = None
    BY <1>1, <1>4, <2>1 DEF InputBehavior!reset, Animations, Phases
  <2> QED BY <1>1, <2>2 DEF Animated, Alone, Shown, Removing
<1>5. CASE InputBehavior!openEditor
  <2>1. /\ animation' \in Animations /\ animation'.phase = "error"
        /\ animation'.overlapped = animation.overlapped
        /\ animation'.save = animation.save /\ animation'.reset = animation.reset
    BY <1>1, <1>5 DEF InputBehavior!openEditor, InputBehavior!animationError, Animations, Phases
  <2> QED BY <1>1, <2>1 DEF Animated, Alone, Shown, Removing
<1>6. CASE InputBehavior!dispose
  <2>1. /\ animation' \in Animations /\ animation'.phase = animation.phase
        /\ animation'.source = animation.source /\ animation'.draft = animation.draft
        /\ animation'.custom = animation.custom
        /\ animation'.overlapped = animation.overlapped
        /\ animation'.save = animation.save /\ animation'.reset = animation.reset
    BY <1>1, <1>6 DEF InputBehavior!dispose, Animations
  <2> QED BY <1>1, <2>1 DEF Animated, Alone, Shown, Removing
<1> QED BY <1>2, <1>3, <1>4, <1>5, <1>6

\* Whatever becomes of the calls, those who replace the file have asked for nothing else.
LEMMA ReloadingKept ==
  ASSUME NEW calls \in Seq(Calls), Reloading(calls)
  PROVE  /\ calls # <<>> => Reloading(Tail(calls))
         /\ \A i \in 1..Len(calls) : Reloading(GivenUp(calls, i))
         /\ \A call \in Calls :
              (call.by \in {"save", "reset"} => call.what = "ReloadConfig")
                => Reloading(Append(calls, call))
<1>1. ASSUME calls # <<>>
      PROVE  Reloading(Tail(calls))
  <2>1. /\ Len(Tail(calls)) = Len(calls) - 1 /\ Len(calls) \in Nat \ {0}
        /\ \A i \in 1..Len(Tail(calls)) : Tail(calls)[i] = calls[i + 1]
    BY <1>1, TailFacts
  <2>2. \A i \in 1..Len(Tail(calls)) : i + 1 \in 1..Len(calls)
    BY <2>1
  <2> QED BY <2>1, <2>2 DEF Reloading
<1>2. ASSUME NEW i \in 1..Len(calls)
      PROVE  Reloading(GivenUp(calls, i))
  <2>1. /\ Len(GivenUp(calls, i)) = Len(calls) /\ GivenUp(calls, i)[i].by = "nobody"
        /\ \A j \in 1..Len(calls) : j # i => GivenUp(calls, i)[j] = calls[j]
    BY GivenUpFacts
  <2> QED BY <2>1 DEF Reloading
<1>3. ASSUME NEW call \in Calls, call.by \in {"save", "reset"} => call.what = "ReloadConfig"
      PROVE  Reloading(Append(calls, call))
  BY <1>3, AppendFacts DEF Reloading
<1> QED BY <1>1, <1>2, <1>3

\* The calls are others; Fcitx has the same animation as before, or that of the file.
LEMMA CallsKeepAnimation ==
  ASSUME NEW a, NEW f, NEW l, NEW g, Animated(a, f, l), Reloading(g.calls),
         g.animation = f.animation \/ g.animation = l
  PROVE  Animated(a, g, l)
BY DEF Animated, Shown

\* The keys are set.
LEMMA SetKeepsAnimation ==
  ASSUME NEW a, NEW f, NEW l, Animated(a, f, l), FcitxType(f),
         NEW r \in Behaviors, NEW g,
         g = IF r.save = None THEN f
             ELSE [f EXCEPT !.calls =
                     Append(@, InputBehavior!Call("SetConfig", r.save, "behavior"))]
  PROVE  Animated(a, g, l)
<1> DEFINE call == InputBehavior!Call("SetConfig", r.save, "behavior")
<1>1. r.save # None => call \in Calls /\ call.by = "behavior"
  BY DEF InputBehavior!Call, Calls, Behaviors
<1> HIDE DEF call
<1>2. f.calls \in Seq(Calls) /\ Reloading(f.calls)
  BY DEF FcitxType, Animated
<1>3. CASE r.save # None
  <2>1. g.calls = Append(f.calls, call) /\ g.animation = f.animation
    BY <1>3 DEF FcitxType, call
  <2>2. Reloading(g.calls)
    BY <1>1, <1>2, <1>3, <2>1, ReloadingKept
  <2> QED BY <2>1, <2>2, CallsKeepAnimation
<1>4. CASE r.save = None
  BY <1>4
<1> QED BY <1>3, <1>4

-------------------------------------------------------------------------------
(***************************************************************************)
(* Steps of both.                                                          *)
(***************************************************************************)
\* #replaceConfig, up to its next call.
LEMMA ReplacementKeeps ==
  ASSUME BehaviorInv, InputBehavior!Replacement
  PROVE  BehaviorInv'
<1>1. PICK by \in {"save", "reset"} : \/ InputBehavior!ReadPrevious(by)
                                      \/ InputBehavior!WriteNew(by) \/ InputBehavior!WriteBack(by)
  BY DEF InputBehavior!Replacement, InputBehavior!Replacers
<1>2. animation \in Animations /\ file \in Texts /\ FcitxType(fcitx) /\ Keys(behavior, fcitx)
      /\ Animated(animation, fcitx, file) /\ behavior' = behavior
  BY <1>1 DEF BehaviorInv, Animated, Keys, InputBehavior!ReadPrevious, InputBehavior!WriteNew,
              InputBehavior!WriteBack, InputBehavior!Writes
<1>3. CASE animation' = InputBehavior!Failed(animation, by) /\ UNCHANGED <<fcitx, file>>
  BY <1>2, <1>3, FailedKeeps DEF BehaviorInv
<1>4. CASE InputBehavior!ReadPrevious(by)
  <2>1. CASE animation' = [animation EXCEPT ![by].step = "write", ![by].previous = file]
    <3>1. CASE by = "save"
      <4>1. /\ animation.save.step = "read" /\ UNCHANGED <<fcitx, file>>
            /\ animation' = [animation EXCEPT !.save.step = "write", !.save.previous = file]
        BY <1>2, <1>4, <2>1, <3>1 DEF InputBehavior!ReadPrevious
      <4>2. /\ animation' \in Animations /\ animation'.phase = animation.phase
            /\ animation'.overlapped = animation.overlapped
            /\ animation'.reset = animation.reset /\ animation'.save.step = "write"
        BY <1>2, <4>1 DEF Animations, Replacements
      <4> QED BY <1>2, <4>1, <4>2 DEF BehaviorInv, Animated, Alone, Shown, Removing
    <3>2. CASE by = "reset"
      <4>1. /\ animation.reset.step = "read" /\ UNCHANGED <<fcitx, file>>
            /\ animation' = [animation EXCEPT !.reset.step = "write", !.reset.previous = file]
        BY <1>2, <1>4, <2>1, <3>2 DEF InputBehavior!ReadPrevious
      <4>2. /\ animation' \in Animations /\ animation'.phase = animation.phase
            /\ animation'.overlapped = animation.overlapped
            /\ animation'.save = animation.save /\ animation'.reset.step = "write"
            /\ animation'.reset.text = animation.reset.text
        BY <1>2, <4>1 DEF Animations, Replacements
      <4> QED BY <1>2, <4>1, <4>2 DEF BehaviorInv, Animated, Alone, Shown, Removing
    <3> QED BY <3>1, <3>2
  <2> QED BY <1>3, <1>4, <2>1 DEF InputBehavior!ReadPrevious
<1>5. ASSUME NEW step \in {"write", "restore"}, NEW next \in {"reload", "again"},
             NEW text \in Texts, next = "reload" => text = animation[by].text,
             animation[by].step = step, file' = text,
             animation' = [animation EXCEPT ![by].step = next],
             fcitx' = InputBehavior!Sends(InputBehavior!Call("ReloadConfig", None, by))
      PROVE  BehaviorInv'
  <2> DEFINE call == InputBehavior!Call("ReloadConfig", None, by)
  <2>1. call \in Calls /\ call.by # "behavior" /\ call.what = "ReloadConfig"
    BY DEF InputBehavior!Call, Calls
  <2> HIDE DEF call
  <2>2. fcitx.calls \in Seq(Calls) /\ Reloading(fcitx.calls)
    BY <1>2 DEF FcitxType, Animated
  <2>3. /\ fcitx'.calls = Append(fcitx.calls, call)
        /\ fcitx'.config = fcitx.config /\ fcitx'.animation = fcitx.animation
        /\ fcitx' = [fcitx EXCEPT !.calls = Append(fcitx.calls, call)]
    BY <1>2, <1>5 DEF call, InputBehavior!Sends, FcitxType
  <2>4. Append(fcitx.calls, call) \in Seq(Calls)
    BY <2>1, <2>2, AppendFacts
  <2>5. FcitxType(fcitx')
    BY <1>2, <2>3, <2>4 DEF FcitxType
  <2>6. Keys(behavior', fcitx')
    BY <1>2, <2>1, <2>3, <2>5, OthersKeepKeys
  <2>7. Reloading(fcitx'.calls)
    BY <2>1, <2>2, <2>3, ReloadingKept
  <2>8. /\ animation' \in Animations
        /\ animation'.phase = animation.phase /\ animation'.overlapped = animation.overlapped
        /\ by = "save" => /\ animation'.reset = animation.reset /\ animation'.save.step = next
                          /\ animation'.save.text = animation.save.text
        /\ by = "reset" => /\ animation'.save = animation.save /\ animation'.reset.step = next
                           /\ animation'.reset.text = animation.reset.text
    <3>1. animation' = Stepped(animation, by, next)
      BY <1>5 DEF Stepped
    <3> QED BY <1>2, <3>1, StepFacts
  <2>9. Animated(animation', fcitx', file')
    <3>1. CASE by = "save"
      <4>1. animation.save.step = step /\ (next = "reload" => text = animation.save.text)
        BY <1>2, <1>5, <3>1
      <4> QED BY <1>2, <1>5, <2>7, <2>8, <3>1, <4>1 DEF Animated, Alone, Shown, Removing
    <3>2. CASE by = "reset"
      <4>1. animation.reset.step = step /\ (next = "reload" => text = animation.reset.text)
        BY <1>2, <1>5, <3>2
      <4> QED BY <1>2, <1>5, <2>7, <2>8, <3>2, <4>1 DEF Animated, Alone, Shown, Removing
    <3> QED BY <3>1, <3>2
  <2> QED BY <2>6, <2>9 DEF BehaviorInv
<1>6. animation[by] \in Replacements
  <2>1. CASE by = "save"
    BY <1>2, <2>1 DEF Animations
  <2>2. CASE by = "reset"
    BY <1>2, <2>2 DEF Animations
  <2> QED BY <2>1, <2>2
<1>7. animation[by].text \in Texts /\ animation[by].previous \in Texts
  BY <1>6 DEF Replacements
<1>8. CASE InputBehavior!WriteNew(by)
  BY <1>3, <1>5, <1>7, <1>8 DEF InputBehavior!WriteNew, InputBehavior!Writes
<1>9. CASE InputBehavior!WriteBack(by)
  BY <1>3, <1>5, <1>7, <1>9 DEF InputBehavior!WriteBack, InputBehavior!Writes
<1> QED BY <1>1, <1>4, <1>8, <1>9

\* What an answer of updateInputBehavior leaves of the calls.
LEMMA AnsweredKeepsAnimation ==
  ASSUME Animated(animation, fcitx, file), NEW b, NEW rest, FcitxType(rest),
         Reloading(rest.calls), rest.animation = fcitx.animation \/ rest.animation = file,
         behavior' \in Behaviors, InputBehavior!BehaviorAnswered(b, rest)
  PROVE  Animated(animation, fcitx', file)
<1>1. Animated(animation, rest, file)
  BY CallsKeepAnimation
<1>2. fcitx' = IF behavior'.save = None THEN rest
               ELSE [rest EXCEPT !.calls =
                       Append(@, InputBehavior!Call("SetConfig", behavior'.save, "behavior"))]
  BY DEF InputBehavior!BehaviorAnswered
<1> QED BY <1>1, <1>2, SetKeepsAnimation

\* What Fcitx makes of its first call.
LEMMA HandledFacts ==
  ASSUME FcitxType(fcitx), fcitx.calls # <<>>, Reloading(fcitx.calls), file \in Texts,
         NEW call, call = Head(fcitx.calls),
         NEW rest \in {InputBehavior!Carried(call), InputBehavior!Refused}
  PROVE  /\ FcitxType(rest) /\ rest.calls = Tail(fcitx.calls) /\ Reloading(rest.calls)
         /\ rest.animation = fcitx.animation \/ rest.animation = file
         /\ call.what = "ReloadConfig" /\ rest # InputBehavior!Refused => rest.animation = file
         /\ rest.config = fcitx.config \/ call.what = "SetConfig"
<1>1. fcitx.calls \in Seq(Calls)
  BY DEF FcitxType
<1>2. call \in Calls /\ Tail(fcitx.calls) \in Seq(Calls) /\ Reloading(Tail(fcitx.calls))
  BY <1>1, TailFacts, ReloadingKept
<1>3. \/ rest = [fcitx EXCEPT !.calls = Tail(fcitx.calls), !.config = call.option]
         /\ call.what = "SetConfig" /\ call.option \in Options
      \/ rest = [fcitx EXCEPT !.calls = Tail(fcitx.calls), !.animation = file]
         /\ call.what = "ReloadConfig"
      \/ rest = [fcitx EXCEPT !.calls = Tail(fcitx.calls)] /\ rest = InputBehavior!Refused
  BY <1>2 DEF InputBehavior!Carried, InputBehavior!Refused, Calls
<1> QED BY <1>2, <1>3 DEF FcitxType

\* Fcitx carries a call out, or refuses it.
LEMMA AnswersKeep ==
  ASSUME BehaviorInv, InputBehavior!FcitxAnswers
  PROVE  BehaviorInv'
<1> DEFINE call == Head(fcitx.calls)
<1>1. /\ Keys(behavior, fcitx) /\ Animated(animation, fcitx, file) /\ FcitxType(fcitx)
      /\ Reloading(fcitx.calls) /\ file \in Texts /\ fcitx.calls \in Seq(Calls)
  BY DEF BehaviorInv, Keys, Animated, FcitxType
<1>2. fcitx.calls # <<>> /\ file' = file
  BY DEF InputBehavior!FcitxAnswers
<1>3. call \in Calls /\ (call.by \in {"save", "reset"} => call.what = "ReloadConfig")
  <2>1. call = fcitx.calls[1] /\ call \in Calls /\ Len(fcitx.calls) \in Nat \ {0}
    BY <1>1, <1>2, TailFacts
  <2> QED BY <1>1, <2>1 DEF Reloading
<1>4. ASSUME NEW rest \in {InputBehavior!Carried(call), InputBehavior!Refused}
      PROVE  /\ FcitxType(rest) /\ rest.calls = Tail(fcitx.calls) /\ Reloading(rest.calls)
             /\ rest.animation = fcitx.animation \/ rest.animation = file
             /\ call.what = "ReloadConfig" /\ rest # InputBehavior!Refused
                  => rest.animation = file
             /\ rest.config = fcitx.config \/ call.what = "SetConfig"
  BY <1>1, <1>2, HandledFacts
<1>5. ASSUME NEW rest \in {InputBehavior!Carried(call), InputBehavior!Refused},
             call.by # "behavior"
      PROVE  Keys(behavior, rest)
  BY <1>1, <1>2, <1>4, <1>5, OthersKeepKeys
<1>6. ASSUME NEW rest \in {InputBehavior!Carried(call), InputBehavior!Refused}
      PROVE  Animated(animation, rest, file)
  BY <1>1, <1>4, CallsKeepAnimation
<1> HIDE DEF call
<1>7. CASE call.by = "behavior"
  <2>1. /\ animation' = animation
        /\ \/ InputBehavior!BehaviorAnswered(InputBehavior!applySaved(behavior),
                                             InputBehavior!Carried(call))
           \/ InputBehavior!BehaviorAnswered([behavior EXCEPT !.phase = "error"],
                                             InputBehavior!Refused)
    BY <1>7 DEF InputBehavior!FcitxAnswers, InputBehavior!Replacers, call
  <2>2. Keys(behavior', fcitx')
    BY <1>1, <1>2, <1>7, <2>1, AnswerKeepsKeys DEF call
  <2>3. behavior' \in Behaviors
    BY <2>2 DEF Keys
  <2>4. Animated(animation, fcitx', file)
    BY <1>1, <1>4, <2>1, <2>3, AnsweredKeepsAnimation
  <2> QED BY <1>2, <2>1, <2>2, <2>4 DEF BehaviorInv
<1>8. CASE call.by \in {"save", "reset"}
  <2>1. /\ behavior' = behavior
        /\ \/ /\ animation' = InputBehavior!Reloaded(animation, call.by)
              /\ fcitx' = InputBehavior!Carried(call)
           \/ /\ animation' = InputBehavior!NotReloaded(animation, call.by)
              /\ fcitx' = InputBehavior!Refused
    BY <1>8 DEF InputBehavior!FcitxAnswers, InputBehavior!Replacers, call
  <2>2. Keys(behavior', fcitx')
    BY <1>5, <1>8, <2>1
  <2>3. CASE /\ animation' = InputBehavior!Reloaded(animation, call.by)
             /\ fcitx' = InputBehavior!Carried(call)
    <3>1. fcitx'.animation = file
      <4>1. call.what = "ReloadConfig"
        BY <1>3, <1>8
      <4>2. fcitx' = [fcitx EXCEPT !.calls = Tail(@), !.animation = file]
        BY <2>3, <4>1 DEF InputBehavior!Carried
      <4> QED BY <1>1, <4>2 DEF FcitxType
    <3>2. Animated(animation, fcitx', file)
      BY <1>6, <2>3
    <3> QED BY <1>2, <1>8, <2>2, <2>3, <3>1, <3>2, ReloadedKeeps DEF BehaviorInv
  <2>4. CASE /\ animation' = InputBehavior!NotReloaded(animation, call.by)
             /\ fcitx' = InputBehavior!Refused
    <3>1. Animated(animation, fcitx', file)
      BY <1>6, <2>4
    <3> QED BY <1>2, <1>8, <2>2, <2>4, <3>1, NotReloadedKeeps DEF BehaviorInv
  <2> QED BY <2>1, <2>3, <2>4
<1>9. CASE call.by = "nobody"
  <2>1. /\ UNCHANGED <<behavior, animation>>
        /\ fcitx' \in {InputBehavior!Carried(call), InputBehavior!Refused}
    BY <1>9 DEF InputBehavior!FcitxAnswers, InputBehavior!Replacers, call
  <2> QED BY <1>2, <1>5, <1>6, <1>9, <2>1 DEF BehaviorInv
<1> QED BY <1>3, <1>7, <1>8, <1>9 DEF Calls

\* Nobody waits any longer for a call, which stays.
LEMMA TimesOutKeeps ==
  ASSUME BehaviorInv, InputBehavior!TimesOut
  PROVE  BehaviorInv'
<1>1. /\ Keys(behavior, fcitx) /\ Animated(animation, fcitx, file) /\ FcitxType(fcitx)
      /\ Reloading(fcitx.calls) /\ fcitx.calls \in Seq(Calls)
  BY DEF BehaviorInv, Keys, Animated, FcitxType
<1>2. PICK i \in DOMAIN fcitx.calls :
        /\ fcitx.calls[i].by # "nobody" /\ file' = file
        /\ \/ /\ fcitx.calls[i].by = "behavior" /\ animation' = animation
              /\ InputBehavior!BehaviorAnswered([behavior EXCEPT !.phase = "error"],
                                                [fcitx EXCEPT !.calls[i].by = "nobody"])
           \/ /\ fcitx.calls[i].by # "behavior" /\ behavior' = behavior
              /\ animation' = InputBehavior!NotReloaded(animation, fcitx.calls[i].by)
              /\ fcitx' = [fcitx EXCEPT !.calls[i].by = "nobody"]
  BY DEF InputBehavior!TimesOut
<1>3. i \in 1..Len(fcitx.calls) /\ fcitx.calls[i] \in Calls
  BY <1>1
<1> DEFINE rest == [fcitx EXCEPT !.calls[i].by = "nobody"]
<1>4. rest = [fcitx EXCEPT !.calls = GivenUp(fcitx.calls, i)]
  BY DEF GivenUp
<1> HIDE DEF rest
<1>5. GivenUp(fcitx.calls, i) \in Seq(Calls)
  BY <1>1, <1>3, GivenUpFacts
<1>6. /\ FcitxType(rest) /\ rest.calls = GivenUp(fcitx.calls, i)
      /\ rest.config = fcitx.config /\ rest.animation = fcitx.animation
  BY <1>1, <1>4, <1>5 DEF FcitxType
<1>7. Reloading(rest.calls)
  BY <1>1, <1>3, <1>6, ReloadingKept
<1>8. CASE fcitx.calls[i].by = "behavior"
  <2>1. Keys(behavior', fcitx')
    BY <1>1, <1>2, <1>3, <1>8, TimeoutKeepsKeys
  <2>2. behavior' \in Behaviors
    BY <2>1 DEF Keys
  <2>3. InputBehavior!BehaviorAnswered([behavior EXCEPT !.phase = "error"], rest)
    BY <1>2, <1>8 DEF rest
  <2>4. Animated(animation, fcitx', file)
    BY <1>1, <1>6, <1>7, <2>2, <2>3, AnsweredKeepsAnimation
  <2> QED BY <1>2, <1>8, <2>1, <2>4 DEF BehaviorInv
<1>9. CASE fcitx.calls[i].by # "behavior"
  <2>1. fcitx' = rest /\ behavior' = behavior
        /\ animation' = InputBehavior!NotReloaded(animation, fcitx.calls[i].by)
    BY <1>2, <1>9 DEF rest
  <2>2. Keys(behavior', fcitx')
    BY <1>1, <1>3, <1>6, <1>9, <2>1, OthersKeepKeys
  <2>3. fcitx.calls[i].by \in {"save", "reset"}
    BY <1>2, <1>3, <1>9 DEF Calls
  <2>4. Animated(animation, rest, file)
    BY <1>1, <1>6, <1>7, CallsKeepAnimation
  <2>5. Animated(animation', fcitx', file')
    BY <1>2, <2>1, <2>3, <2>4, NotReloadedKeeps
  <2> QED BY <2>2, <2>5 DEF BehaviorInv
<1> QED BY <1>8, <1>9

\* No step of the window breaks it.
LEMMA BehaviorInvInductive == Spec => []BehaviorInv
<1>1. Init => BehaviorInv
  <2> SUFFICES ASSUME Init PROVE BehaviorInv
    OBVIOUS
  <2>1. PICK option \in Configured, text \in (Sources \ {Empty}) \union {None} :
          fcitx = [config |-> option, animation |-> text, calls |-> <<>>] /\ file = text
    BY DEF Init, InputBehavior!Init
  <2>2. option \in Options /\ text \in Texts /\ <<>> \in Seq(Calls)
    BY ConfiguredIsSet DEF Texts
  <2>3. FcitxType(fcitx) /\ fcitx.calls = <<>>
    BY <2>1, <2>2 DEF FcitxType
  <2>4. behavior = InputBehavior!Behavior /\ animation = InputBehavior!Animation
    BY DEF Init, InputBehavior!Init
  <2>5. Keys(behavior, fcitx)
    BY <2>3, <2>4 DEF Keys, Behaviors, Phases, InputBehavior!Behavior, Saving, Setting, Settled
  <2>6. InputBehavior!NoReplacement \in Replacements /\ InputBehavior!NoReplacement.step = "none"
    BY DEF InputBehavior!NoReplacement, InputBehavior!Replacing, Replacements, Texts
  <2>7. /\ animation \in Animations /\ animation.phase = "loading"
        /\ animation.save.step = "none" /\ animation.reset.step = "none"
    BY <2>4, <2>6 DEF Animations, Phases, Texts, InputBehavior!Animation
  <2>8. Animated(animation, fcitx, file)
    BY <2>1, <2>2, <2>3, <2>7 DEF Animated, Alone, Shown, Removing, Reloading
  <2> QED BY <2>5, <2>8 DEF BehaviorInv
<1>2. BehaviorInv /\ [Next]_vars => BehaviorInv'
  <2> SUFFICES ASSUME BehaviorInv, [Next]_vars PROVE BehaviorInv'
    OBVIOUS
  <2>1. Keys(behavior, fcitx) /\ Animated(animation, fcitx, file) /\ FcitxType(fcitx)
    BY DEF BehaviorInv, Keys
  <2>2. CASE UNCHANGED behaviorVars
    BY <2>2 DEF behaviorVars, BehaviorInv
  <2>3. ASSUME Keys(behavior', fcitx'), fcitx' = fcitx, UNCHANGED <<animation, file>>
        PROVE  BehaviorInv'
    BY <2>1, <2>3 DEF BehaviorInv
  <2>4. ASSUME Animated(animation', fcitx', file'), UNCHANGED <<behavior, fcitx>>
        PROVE  BehaviorInv'
    BY <2>1, <2>4 DEF BehaviorInv
  <2>5. ASSUME behavior' = InputBehavior!behaviorFlushed(behavior),
               fcitx' = InputBehavior!behaviorSaves(behavior, behavior')
        PROVE  Keys(behavior', fcitx') /\ Animated(animation, fcitx', file)
    <3>1. Keys(behavior', fcitx')
      BY <2>1, <2>5, FlushKeepsKeys
    <3>2. behavior' \in Behaviors
      BY <3>1 DEF Keys
    <3>3. \/ fcitx' = fcitx
          \/ fcitx' = IF behavior'.save = None THEN fcitx
                      ELSE [fcitx EXCEPT !.calls =
                              Append(@, InputBehavior!Call("SetConfig", behavior'.save,
                                                           "behavior"))]
      BY <2>5 DEF InputBehavior!behaviorSaves, InputBehavior!Sends
    <3> QED BY <2>1, <3>1, <3>2, <3>3, SetKeepsAnimation
  <2>6. ASSUME InputBehavior!flushPendingChanges PROVE BehaviorInv'
    <3>1. Keys(behavior', fcitx') /\ Animated(animation, fcitx', file)
      BY <2>5, <2>6 DEF InputBehavior!flushPendingChanges
    <3> QED BY <2>6, <3>1, FlushKeepsAnimation DEF InputBehavior!flushPendingChanges, BehaviorInv
  <2>7. CASE UseInputBehavior
    <3>1. CASE \E option \in Options : InputBehavior!editBehavior(option)
      <4>1. UNCHANGED <<animation, fcitx, file>>
        BY <3>1 DEF InputBehavior!editBehavior
      <4> QED BY <2>1, <2>3, <3>1, <4>1, PageKeepsKeys
    <3>2. CASE (\E text \in Sources : InputBehavior!updateDraft(text))
                 \/ InputBehavior!reset \/ InputBehavior!openEditor
      <4>1. UNCHANGED <<behavior, fcitx, file>>
        BY <3>2 DEF InputBehavior!updateDraft, InputBehavior!reset, InputBehavior!openEditor
      <4> QED BY <2>1, <2>4, <3>2, <4>1, PageKeepsAnimation
    <3> QED BY <2>7, <3>1, <3>2 DEF UseInputBehavior, InputBehavior!User
  <2>8. CASE selectPage \/ CloseRequested
    BY <2>6, <2>8 DEF selectPage, CloseRequested
  <2>9. CASE Destroyed
    <3>1. InputBehavior!dispose /\ UNCHANGED <<fcitx, file>>
      BY <2>9 DEF Destroyed, InputBehavior!dispose
    <3> QED BY <2>1, <3>1, PageKeepsKeys, PageKeepsAnimation DEF BehaviorInv
  <2>10. CASE InputBehaviorGoesOn
    <3>1. CASE InputBehavior!BehaviorLoaded
      <4>1. UNCHANGED <<animation, fcitx, file>>
        BY <3>1 DEF InputBehavior!BehaviorLoaded
      <4> QED BY <2>1, <2>3, <3>1, <4>1, PageKeepsKeys
    <3>2. CASE InputBehavior!AnimationLoaded
      <4>1. UNCHANGED <<behavior, fcitx, file>>
        BY <3>2 DEF InputBehavior!AnimationLoaded
      <4> QED BY <2>1, <2>4, <3>2, <4>1, PageKeepsAnimation
    <3>3. CASE InputBehavior!BehaviorTimer
      BY <2>5, <3>3 DEF InputBehavior!BehaviorTimer, BehaviorInv
    <3>4. CASE InputBehavior!AnimationTimer
      BY <2>1, <2>4, <3>4, FlushKeepsAnimation DEF InputBehavior!AnimationTimer
    <3>5. CASE InputBehavior!Replacement
      BY <3>5, ReplacementKeeps
    <3> QED BY <2>10, <3>1, <3>2, <3>3, <3>4, <3>5 DEF InputBehaviorGoesOn, InputBehavior!Returns
  <2>11. CASE FcitxAnswers
    BY <2>11, AnswersKeep DEF FcitxAnswers
  <2>12. CASE FcitxTimesOut
    BY <2>12, TimesOutKeeps DEF FcitxTimesOut
  <2>13. UseDictionary \/ DictionaryMeets \/ DictionaryGoesOn \/ UNCHANGED vars
           => UNCHANGED behaviorVars
    BY DEF UseDictionary, DictionaryMeets, DictionaryGoesOn, vars
  <2> QED BY <2>2, <2>7, <2>8, <2>9, <2>10, <2>11, <2>12, <2>13 DEF Next, User
<1> QED BY <1>1, <1>2, PTL DEF Spec

\* InputBehaviorState and StatusAnimationState show "saved" only while Fcitx uses what the
\* page shows, although calls that were given up may be carried out late; the animation
\* then is the file's, too, unless a reset and a save were under way together.
THEOREM SavedBehavior == Spec => []BehaviorSaved
<1>1. BehaviorInv => BehaviorSaved
  BY DEF BehaviorInv, Keys, Settled, Animated, Shown, BehaviorSaved,
         InputBehavior!KeysSaved, InputBehavior!AnimationSaved
<1> QED BY <1>1, BehaviorInvInductive, PTL

===============================================================================
