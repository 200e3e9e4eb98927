----------------------------- MODULE MCSequential -----------------------------
(***************************************************************************)
(* The parts of the library that one thread uses at a time: the names of   *)
(* the registry, and of a data object its active fields, its handle and    *)
(* the values of its fields.  NameMaps, TableData, DataHandles and         *)
(* FieldValues share no variable, and no action of one looks at another;   *)
(* each behaviour is therefore about one of them, and the others stay in   *)
(* an initial state.                                                       *)
(***************************************************************************)
EXTENDS MCNameMaps, MCTableData, MCDataHandles, MCFieldValues

VARIABLE part       \* what the behaviour is about

NamesIdle == Init /\ infoMap = EmptyMap
FieldsIdle == FieldsInit /\ actionId = NoId /\ containerId = NoId /\ choice = {}
ValuesIdle == ValuesInit /\ field = [type |-> "BOOL", width |-> 1, match |-> NoMatch]

SequentialInit ==
  /\ HandlesInit
  /\ \/ part = "names" /\ FieldsIdle /\ ValuesIdle /\ Init
     \/ part = "fields" /\ NamesIdle /\ ValuesIdle /\ FieldsInit
     \/ part = "handles" /\ NamesIdle /\ FieldsIdle /\ ValuesIdle
     \/ part = "values" /\ NamesIdle /\ FieldsIdle /\ ValuesInit

SequentialNext ==
  /\ UNCHANGED part
  /\ \/ part = "names" /\ Next /\ UNCHANGED <<fieldVars, handleVars, valueVars>>
     \/ part = "fields" /\ FieldsNext /\ UNCHANGED <<vars, handleVars, valueVars>>
     \/ part = "handles" /\ HandlesNext /\ UNCHANGED <<vars, fieldVars, valueVars>>
     \/ part = "values" /\ ValuesNext /\ UNCHANGED <<vars, fieldVars, handleVars>>

SequentialSpec ==
  SequentialInit /\ [][SequentialNext]_<<part, vars, fieldVars, handleVars, valueVars>>
=============================================================================
