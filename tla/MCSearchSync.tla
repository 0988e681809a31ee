---------------------------- MODULE MCSearchSync ----------------------------
(* Small instances of SearchSync for TLC. *)
EXTENDS SearchSync

CONSTANTS e1, ta

OneTypeOf == [e \in {e1} |-> ta]
=============================================================================
