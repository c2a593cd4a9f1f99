-------------------------- MODULE MCDesktopSettings --------------------------
(***************************************************************************)
(* Instances of DesktopSettings: two valid options, one of which is the    *)
(* trimmed form of a third, and one the page itself rejects.               *)
(***************************************************************************)
EXTENDS DesktopSettings

CONSTANT none

TrimmedOptions == [o \in Options |-> IF o = "padded" THEN "second" ELSE o]

===============================================================================
