---------------------------- MODULE MCVoiceSystem ----------------------------
(***************************************************************************)
(* Instances of VoiceSystem: two text fields, and as many sessions as the  *)
(* trigger is held.  The text fields are alike.                            *)
(***************************************************************************)
EXTENDS VoiceSystem, TLC

CONSTANTS c1, c2, none

OneContext == {c1}
TwoContexts == {c1, c2}
OneSession == {1}
TwoSessions == {1, 2}

Alike == Permutations(TwoContexts)

===============================================================================
