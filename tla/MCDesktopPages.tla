---------------------------- MODULE MCDesktopPages ----------------------------
(***************************************************************************)
(* Instances of DesktopPages: a dictionary of two entries, two settings of *)
(* the keys and two without a key, one good and one broken animation.      *)
(***************************************************************************)
EXTENDS DesktopPages

CONSTANT none

TwoEntries == <<"first", "second">>

===============================================================================
