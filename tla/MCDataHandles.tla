---------------------------- MODULE MCDataHandles ----------------------------
(* Parameters of DataHandles for TLC. *)
EXTENDS DataHandles

\* Enough for a container in a container next to another one, and a new
\* object in the place of a freed one.
MCObj == 1..5
=============================================================================
