------------------------- MODULE MCSessionCoordinator -------------------------
(***************************************************************************)
(* Instances of SessionCoordinator.  One session meets every polishing     *)
(* configuration and toggle.  Two sessions overlap: whatever still runs    *)
(* for the first, settled one meets the second in every state of it; they  *)
(* are interchangeable, and are always polished unless they are too short. *)
(***************************************************************************)
EXTENDS SessionCoordinator, TLC

CONSTANTS s1, s2, none

OneSession == {s1}
TwoSessions == {s1, s2}

Interchangeable == Permutations(TwoSessions)

===============================================================================
