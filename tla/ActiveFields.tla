---------------------------- MODULE ActiveFields ----------------------------
(***************************************************************************)
(* What a TableData promises about which of its fields take part in an     *)
(* operation: one set of active fields, chosen when the object is made or  *)
(* reset (naming no field means all of them), from which fields may be     *)
(* taken out one by one and to which none returns before the next reset.   *)
(***************************************************************************)
CONSTANT Field

VARIABLES
  choice,           \* the fields named last
  active            \* those of them that have not been taken out

vars == <<choice, active>>

Chosen(fields) == IF fields = {} THEN Field ELSE fields

Init ==
  /\ choice \in SUBSET Field
  /\ active = Chosen(choice)

Choose(fields) ==
  /\ choice' = fields
  /\ active' = Chosen(fields)

Remove(fields) ==
  /\ active' = active \ fields
  /\ UNCHANGED choice

Next == \E fields \in SUBSET Field : Choose(fields) \/ Remove(fields)

Spec == Init /\ [][Next]_vars
=============================================================================
