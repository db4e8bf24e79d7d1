---------------------------- MODULE MCHostKeyPin ----------------------------
(***************************************************************************)
(* Values of HostKeyPin's constants for TLC.                               *)
(***************************************************************************)
EXTENDS HostKeyPin

CONSTANT ed25519  \* a kind of key

(* The keys are of one kind, so a login refuses one where another is known. *)
OneKind == [key \in Keys |-> ed25519]
============================================================================
