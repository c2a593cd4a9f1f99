------------------------------ MODULE DesktopPages ------------------------------
(***************************************************************************)
(* The dictionary and the input behaviour in the window of the desktop     *)
(* application: the user sees one page at a time, but everything goes on   *)
(* behind it.  To select another page saves what was edited; so does to    *)
(* close the window, which waits for the saves it has asked for, and then  *)
(* disposes both pages and the connection (DesktopState, AppWindowView).   *)
(***************************************************************************)
EXTENDS Naturals, Sequences

CONSTANTS
  Terms, Stored,
  Options, Configured, Unset, Sources, Broken, Default, Empty, None, Events

\* There is an entry that somebody else may take away (ChangedOutside).
ASSUME StoredIsDictionary == Stored \in Seq(Terms) /\ Stored # <<>>

\* Fcitx reports keys that the page can show, and no absence of them.
ASSUME ConfiguredIsSet == Configured \subseteq Options
ASSUME NoneIsNothing == None \notin Options

VARIABLES
  conn, page, dialog, daemon,                 \* DictionaryPage
  behavior, animation, fcitx, file,             \* InputBehaviorPage
  events,
  currentPage,  \* "dictionary" or "input-behavior"
  window,       \* "open", "closing" (close-request was seen) or "closed"
  waits,        \* the saves that the closing window waits for
  explored      \* bound: the page that gets past being loaded; they share only the window

Dictionary == INSTANCE DictionaryPage
InputBehavior == INSTANCE InputBehaviorPage

dictionaryVars == <<conn, page, dialog, daemon>>
behaviorVars == <<behavior, animation, fcitx, file>>
windowVars == <<currentPage, window, waits, explored>>
vars == <<dictionaryVars, behaviorVars, windowVars, events>>

Pages == {"dictionary", "input-behavior"}

-------------------------------------------------------------------------------
\* A dialog that is open is in front of the rest of the window.
Reachable == window # "closed" /\ dialog.kind = "none"

UseDictionary ==
  /\ window # "closed" /\ currentPage = "dictionary"
  /\ Dictionary!User
  /\ UNCHANGED <<behaviorVars, windowVars>>

UseInputBehavior ==
  /\ Reachable /\ currentPage = "input-behavior"
  /\ InputBehavior!User
  /\ UNCHANGED <<dictionaryVars, windowVars>>

selectPage ==
  /\ Reachable
  /\ events < Events /\ events' = events + 1
  /\ currentPage' \in Pages \ {currentPage}
  /\ InputBehavior!flushPendingChanges
  /\ UNCHANGED <<dictionaryVars, window, waits, explored>>

\* flushPendingChanges() returns at once where nothing was edited.
Awaited ==
  { save \in {"behavior", "animation"} :
      \/ save = "behavior" /\ InputBehavior!behaviorDirty(behavior) /\ behavior'.save # None
      \/ save = "animation" /\ InputBehavior!animationDirty(animation)
                            /\ animation'.save.step # "none" }

CloseRequested ==
  /\ Reachable /\ window = "open"
  /\ window' = "closing"
  /\ InputBehavior!flushPendingChanges
  /\ waits' = Awaited
  /\ UNCHANGED <<dictionaryVars, currentPage, explored, events>>

Ended(save) ==
  CASE save = "behavior" -> behavior.save = None
    [] save = "animation" -> animation.save.step = "none"

\* destroy, and dispose() of every state.
Destroyed ==
  /\ window = "closing" /\ \A save \in waits : Ended(save)
  /\ window' = "closed"
  /\ Dictionary!dispose
  /\ InputBehavior!dispose
  /\ UNCHANGED <<currentPage, waits, explored>>

-------------------------------------------------------------------------------
Init ==
  /\ Dictionary!Init
  /\ InputBehavior!Init
  /\ explored \in Pages
  /\ currentPage = explored
  /\ window = "open"
  /\ waits = {}

DictionaryGoesOn ==
  /\ Dictionary!Daemon \/ Dictionary!Returns
  /\ UNCHANGED <<behaviorVars, windowVars>>

DictionaryMeets ==
  /\ explored = "dictionary"
  /\ Dictionary!Connect \/ Dictionary!ConnectionLost \/ Dictionary!ChangedOutside
  /\ UNCHANGED <<behaviorVars, windowVars>>

InputBehaviorGoesOn ==
  /\ explored = "input-behavior"
  /\ InputBehavior!Returns
  /\ UNCHANGED <<dictionaryVars, windowVars>>

FcitxAnswers == InputBehavior!FcitxAnswers /\ UNCHANGED <<dictionaryVars, windowVars>>

FcitxTimesOut == InputBehavior!TimesOut /\ UNCHANGED <<dictionaryVars, windowVars>>

User == UseDictionary \/ UseInputBehavior \/ selectPage \/ CloseRequested

Next ==
  \/ User \/ Destroyed
  \/ DictionaryMeets \/ DictionaryGoesOn
  \/ InputBehaviorGoesOn \/ FcitxAnswers \/ FcitxTimesOut

Spec == Init /\ [][Next]_vars

\* The daemon answers while it is connected; Fcitx may be silent, which its client notices.
Fairness ==
  /\ WF_vars(DictionaryGoesOn) /\ WF_vars(InputBehaviorGoesOn)
  /\ WF_vars(FcitxTimesOut) /\ WF_vars(Destroyed)

FairSpec == Spec /\ Fairness

-------------------------------------------------------------------------------
(***************************************************************************)
(* Properties.                                                             *)
(***************************************************************************)
\* DictionaryState shows "saved" only with the dictionary the daemon has, although updates
\* of lost connections may be applied late, unless somebody else changed it since.
DictionarySaved == Dictionary!SavedMeansStored

\* InputBehaviorState and StatusAnimationState show "saved" only while Fcitx uses what the
\* page shows, although calls that were given up may be carried out late; the animation
\* then is the file's, too, unless a reset and a save were under way together.
BehaviorSaved == InputBehavior!KeysSaved /\ InputBehavior!AnimationSaved

\* A dictionary page that is busy, and the dialog that cannot be closed then, come free
\* again, whatever becomes of the connection (persist, load and applyDisconnected).
BusyEnds == Dictionary!Busy ~> ~Dictionary!Busy

\* A window that was asked to close does so, although Fcitx may never answer and the
\* replacement of a file may be undone, if the user leaves the pages alone in the end.
PagesClose ==
  <>[][~User]_vars => (window = "closing" ~> window = "closed")

===============================================================================
