------------------------- MODULE MCConfigurationStore -------------------------
(***************************************************************************)
(* Instances of ConfigurationStore: the default configuration needs a      *)
(* credential; two name a polisher as well, which needs another and is     *)
(* enabled in one of them; and an unfinished one lacks a setting, but no   *)
(* credential.                                                             *)
(***************************************************************************)
EXTENDS ConfigurationStore

CONSTANTS none, invalid

AsrCredentials ==
  [c \in Configs |-> IF c = "unfinished" THEN {} ELSE {"asr key"}]

PolisherCredentials ==
  [c \in Configs |-> IF c \in Polished THEN {"polisher key"} ELSE {}]

===============================================================================
