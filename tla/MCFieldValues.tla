---------------------------- MODULE MCFieldValues ----------------------------
(* Parameters of FieldValues for TLC. *)
EXTENDS FieldValues

MCMatchType == {"exact", "ternary"}
=============================================================================
