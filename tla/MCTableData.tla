----------------------------- MODULE MCTableData -----------------------------
(* Parameters of TableData for TLC. *)
EXTENDS TableData

CONSTANTS f1, f2, f3, f4, f5

\* Two oneofs, of two and of two members, and a field of its own.
MCOneofs == {{f1, f2}, {f3, f4}}
=============================================================================
