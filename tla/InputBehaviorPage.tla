--------------------------- MODULE InputBehaviorPage ---------------------------
(***************************************************************************)
(* The page of the input behaviour: the keys of the addon, which Fcitx is  *)
(* told over D-Bus (InputBehaviorState), and the status animation, a file  *)
(* that is replaced and that Fcitx is asked to load, or put back if Fcitx  *)
(* does not (StatusAnimationState, FileStatusAnimationConfigClient).  Both *)
(* save what was edited by themselves; the animation can be reset, too.    *)
(*                                                                         *)
(* Calls of one client reach Fcitx in order.  A call that is not answered  *)
(* in time fails for the caller, and may be carried out later.             *)
(***************************************************************************)
EXTENDS Naturals, Sequences

CONSTANTS
  Options,      \* configurations of the keys
  Configured,   \* those that Fcitx may have at the start
  Unset,        \* those without a key, which are not saved
  Sources,      \* texts of an animation
  Broken,       \* those that are not valid
  Default,      \* DEFAULT_STATUS_ANIMATION_SOURCE
  Empty,        \* the text before one is loaded, among the broken ones
  None,
  Events        \* bound: edits, resets and failures of the editor

VARIABLES
  behavior,     \* InputBehaviorState
  animation,    \* StatusAnimationState
  fcitx,        \* what Fcitx uses, and the calls it has not handled yet
  file,         \* the animation file; None: there is none
  events

vars == <<behavior, animation, fcitx, file, events>>

\* A replacement of the file by a text, or by nothing; `previous`: what it held before.
Replacing(step, text) == [step |-> step, text |-> text, previous |-> None]
NoReplacement == Replacing("none", None)

Call(what, option, by) == [what |-> what, option |-> option, by |-> by]
Sends(call) == [fcitx EXCEPT !.calls = Append(@, call)]

-------------------------------------------------------------------------------
(***************************************************************************)
(* InputBehaviorState.                                                     *)
(***************************************************************************)
Behavior ==
  [ phase |-> "loading", loading |-> TRUE, config |-> None, draft |-> None, timer |-> FALSE,
    saveRequested |-> FALSE, save |-> None ]

behaviorDirty(b) == b.config # b.draft

\* scheduleAutoSave and clearOperationResult
behaviorEdited(b, option) ==
  [b EXCEPT !.draft = option, !.timer = TRUE, !.phase = IF @ = "saving" THEN @ ELSE "idle"]

\* runAutoSaveLoop, up to the call of persistCurrentDraft.
behaviorLoop(b) ==
  LET asked == [b EXCEPT !.saveRequested = FALSE, !.save = None]
  IN CASE ~b.saveRequested \/ ~behaviorDirty(b) -> asked
       [] b.saveRequested /\ behaviorDirty(b) /\ b.draft \in Unset -> [asked EXCEPT !.phase = "error"]
       [] OTHER -> [asked EXCEPT !.phase = "saving", !.save = b.draft]

\* flushPendingChanges
behaviorFlushed(b) ==
  LET asked == [b EXCEPT !.timer = FALSE, !.saveRequested = @ \/ behaviorDirty(b)]
  IN IF b.save # None THEN asked ELSE behaviorLoop(asked)

\* Mutant of applySaved: what was edited in the meantime counts as saved.
applySavedBlindly(b) == [b EXCEPT !.config = b.save, !.phase = "saved"]

applySaved(b) ==
  [b EXCEPT !.config = b.save, !.phase = IF b.draft = b.save THEN "saved" ELSE "idle"]

\* The call that a step of the loop has made, if any.
behaviorSaves(before, after) ==
  IF after.save # None /\ before.save = None
  THEN Sends(Call("SetConfig", after.save, "behavior")) ELSE fcitx

-------------------------------------------------------------------------------
(***************************************************************************)
(* StatusAnimationState.                                                   *)
(***************************************************************************)
Animation ==
  [ phase |-> "loading", loading |-> TRUE, source |-> Empty, draft |-> Empty, custom |-> FALSE,
    timer |-> FALSE, saveRequested |-> FALSE, save |-> NoReplacement, reset |-> NoReplacement,
    overlapped |-> FALSE ]

animationDirty(a) == a.source # a.draft

\* validateStatusAnimationSource
Valid(text) == text \notin Broken

animationError(a) == [a EXCEPT !.phase = "error"]

animationEdited(a, text) ==
  [a EXCEPT !.draft = text, !.timer = TRUE, !.phase = IF @ = "saving" THEN @ ELSE "idle"]

animationLoop(a) ==
  LET asked == [a EXCEPT !.saveRequested = FALSE, !.save = NoReplacement]
  IN CASE ~a.saveRequested \/ ~animationDirty(a) -> asked
       [] a.saveRequested /\ animationDirty(a) /\ ~Valid(a.draft) -> animationError(asked)
       [] OTHER -> [asked EXCEPT !.phase = "saving", !.save = Replacing("read", a.draft),
                                 !.overlapped = @ \/ a.reset.step # "none"]

animationFlushed(a) ==
  LET asked == [a EXCEPT !.timer = FALSE, !.saveRequested = @ \/ animationDirty(a)]
  IN IF a.save.step # "none" THEN asked ELSE animationLoop(asked)

\* What a replacement by `by` comes to.
Replaced(a, by) ==
  CASE by = "save" ->
         animationLoop([a EXCEPT !.source = a.save.text, !.custom = TRUE,
                                 !.phase = IF a.draft = a.save.text THEN "saved" ELSE "idle"])
    [] by = "reset" ->
         [a EXCEPT !.source = Default, !.draft = Default, !.custom = FALSE, !.phase = "saved",
                   !.reset = NoReplacement]

Failed(a, by) ==
  CASE by = "save" -> animationLoop(animationError(a))
    [] by = "reset" -> animationError([a EXCEPT !.reset = NoReplacement])

-------------------------------------------------------------------------------
(***************************************************************************)
(* #replaceConfig of FileStatusAnimationConfigClient.                      *)
(***************************************************************************)
Replacers == {"save", "reset"}

ReadPrevious(by) ==
  /\ animation[by].step = "read"
  /\ \/ animation' = [animation EXCEPT ![by].step = "write", ![by].previous = file]
     \/ animation' = Failed(animation, by)
  /\ UNCHANGED <<behavior, fcitx, file, events>>

Writes(by, step, next, text) ==
  /\ animation[by].step = step
  /\ \/ /\ file' = text
        /\ animation' = [animation EXCEPT ![by].step = next]
        /\ fcitx' = Sends(Call("ReloadConfig", None, by))
     \/ /\ animation' = Failed(animation, by)
        /\ UNCHANGED <<file, fcitx>>
  /\ UNCHANGED <<behavior, events>>

WriteNew(by) == Writes(by, "write", "reload", animation[by].text)

WriteBack(by) == Writes(by, "restore", "again", animation[by].previous)

\* The answer to ReloadConfig, or that there is none.
Reloaded(a, by) == IF a[by].step = "reload" THEN Replaced(a, by) ELSE Failed(a, by)

NotReloaded(a, by) ==
  IF a[by].step = "reload" THEN [a EXCEPT ![by].step = "restore"] ELSE Failed(a, by)

-------------------------------------------------------------------------------
(***************************************************************************)
(* Fcitx.                                                                  *)
(***************************************************************************)
Carried(call) ==
  CASE call.what = "SetConfig" -> [fcitx EXCEPT !.calls = Tail(@), !.config = call.option]
    [] call.what = "ReloadConfig" -> [fcitx EXCEPT !.calls = Tail(@), !.animation = file]

\* The calls that are left once the first one is answered with an error.
Refused == [fcitx EXCEPT !.calls = Tail(@)]

\* The end of updateInputBehavior; the loop may go on with another call.
BehaviorAnswered(saved, rest) ==
  LET after == behaviorLoop(saved) IN
  /\ behavior' = after
  /\ fcitx' = IF after.save = None THEN rest
              ELSE [rest EXCEPT !.calls = Append(@, Call("SetConfig", after.save, "behavior"))]

FcitxAnswers ==
  LET call == Head(fcitx.calls) IN
  /\ fcitx.calls # <<>>
  /\ CASE call.by = "behavior" ->
            /\ \/ BehaviorAnswered(applySaved(behavior), Carried(call))
               \/ BehaviorAnswered([behavior EXCEPT !.phase = "error"], Refused)
            /\ UNCHANGED animation
       [] call.by \in Replacers ->
            /\ \/ animation' = Reloaded(animation, call.by) /\ fcitx' = Carried(call)
               \/ animation' = NotReloaded(animation, call.by) /\ fcitx' = Refused
            /\ UNCHANGED behavior
       [] call.by = "nobody" ->
            /\ fcitx' \in {Carried(call), Refused}
            /\ UNCHANGED <<behavior, animation>>
  /\ UNCHANGED <<file, events>>

\* Mutant of TimesOut: the calls that reload the animation are waited for without a limit.
TimesOutForKeys ==
  \E i \in DOMAIN fcitx.calls :
    /\ fcitx.calls[i].by = "behavior"
    /\ BehaviorAnswered([behavior EXCEPT !.phase = "error"],
                        [fcitx EXCEPT !.calls[i].by = "nobody"])
    /\ UNCHANGED <<animation, file, events>>

\* CALL_TIMEOUT_MS
TimesOut ==
  \E i \in DOMAIN fcitx.calls :
    LET by == fcitx.calls[i].by
        rest == [fcitx EXCEPT !.calls[i].by = "nobody"]
    IN /\ by # "nobody"
       /\ IF by = "behavior"
          THEN /\ BehaviorAnswered([behavior EXCEPT !.phase = "error"], rest)
               /\ UNCHANGED animation
          ELSE /\ animation' = NotReloaded(animation, by)
               /\ fcitx' = rest
               /\ UNCHANGED behavior
       /\ UNCHANGED <<file, events>>

-------------------------------------------------------------------------------
(***************************************************************************)
(* Loading, once, and the timers.                                          *)
(***************************************************************************)
BehaviorLoaded ==
  /\ behavior.loading
  /\ behavior' \in { [behavior EXCEPT !.loading = FALSE, !.phase = "idle",
                                      !.config = fcitx.config, !.draft = fcitx.config],
                     [behavior EXCEPT !.loading = FALSE, !.phase = "error"] }
  /\ UNCHANGED <<animation, fcitx, file, events>>

AnimationLoaded ==
  LET text == IF file = None THEN Default ELSE file IN
  /\ animation.loading
  /\ animation' \in { [animation EXCEPT !.loading = FALSE, !.custom = file # None,
                                        !.source = text, !.draft = text,
                                        !.phase = IF Valid(text) THEN "idle" ELSE "error"],
                      animationError([animation EXCEPT !.loading = FALSE]) }
  /\ UNCHANGED <<behavior, fcitx, file, events>>

BehaviorTimer ==
  /\ behavior.timer
  /\ behavior' = behaviorFlushed(behavior)
  /\ fcitx' = behaviorSaves(behavior, behavior')
  /\ UNCHANGED <<animation, file, events>>

AnimationTimer ==
  /\ animation.timer
  /\ animation' = animationFlushed(animation)
  /\ UNCHANGED <<behavior, fcitx, file, events>>

-------------------------------------------------------------------------------
(***************************************************************************)
(* The user.                                                               *)
(***************************************************************************)
Counted == events < Events /\ events' = events + 1

editBehavior(option) ==
  /\ behavior.phase # "loading" /\ behavior.draft # None
  /\ option \in Unset => behavior.draft \in Unset
  /\ Counted
  /\ behavior' = behaviorEdited(behavior, option)
  /\ UNCHANGED <<animation, fcitx, file>>

updateDraft(text) ==
  /\ animation.phase # "loading"
  /\ Counted
  /\ animation' = animationEdited(animation, text)
  /\ UNCHANGED <<behavior, fcitx, file>>

reset ==
  /\ animation.custom /\ animation.phase \notin {"saving", "loading"}
  /\ Counted
  /\ animation' = [animation EXCEPT !.phase = "saving", !.timer = FALSE,
                                    !.reset = Replacing("read", None),
                                    !.overlapped = @ \/ animation.save.step # "none"]
  /\ UNCHANGED <<behavior, fcitx, file>>

\* The editor cannot be opened.
openEditor ==
  /\ animation.phase # "loading"
  /\ Counted
  /\ animation' = animationError(animation)
  /\ UNCHANGED <<behavior, fcitx, file>>

\* Another page is selected, or the window is asked to close.
flushPendingChanges ==
  /\ behavior' = behaviorFlushed(behavior)
  /\ fcitx' = behaviorSaves(behavior, behavior')
  /\ animation' = animationFlushed(animation)
  /\ UNCHANGED file

\* No timer fires and nothing is loaded any more; what is being saved comes to its end.
dispose ==
  /\ behavior' = [behavior EXCEPT !.timer = FALSE, !.saveRequested = FALSE, !.loading = FALSE]
  /\ animation' = [animation EXCEPT !.timer = FALSE, !.saveRequested = FALSE, !.loading = FALSE]
  /\ UNCHANGED <<fcitx, file, events>>

-------------------------------------------------------------------------------
Init ==
  /\ behavior = Behavior
  /\ animation = Animation
  /\ \E option \in Configured, text \in (Sources \ {Empty}) \union {None} :
       /\ fcitx = [config |-> option, animation |-> text, calls |-> <<>>]
       /\ file = text
  /\ events = 0

User ==
  \/ \E option \in Options : editBehavior(option)
  \/ \E text \in Sources : updateDraft(text)
  \/ reset \/ openEditor

Replacement ==
  \E by \in Replacers : ReadPrevious(by) \/ WriteNew(by) \/ WriteBack(by)

Returns ==
  BehaviorLoaded \/ AnimationLoaded \/ BehaviorTimer \/ AnimationTimer \/ Replacement

Next == User \/ Returns \/ FcitxAnswers \/ TimesOut

-------------------------------------------------------------------------------
(***************************************************************************)
(* Properties.                                                             *)
(***************************************************************************)
\* "saved" is shown only while Fcitx has what the page shows, although calls that were
\* given up may be carried out late.
KeysSaved ==
  behavior.phase = "saved" =>
    behavior.draft = behavior.config /\ behavior.config = fcitx.config

\* So with the animation, unless a reset and a save of an edit were under way together.
AnimationSaved ==
  animation.phase = "saved" /\ ~animation.overlapped =>
    /\ animation.draft = animation.source
    /\ file = (IF animation.custom THEN animation.source ELSE None)
    /\ fcitx.animation = file

===============================================================================
