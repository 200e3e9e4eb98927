---------------------------- MODULE MCTableWalk -----------------------------
(* Instances of TableWalk for TLC. *)
EXTENDS TableWalk

MCId == {1, 2}
MCName == {"a", "b"}
MCFeature == {1, 2}
MCKnown == {1}

MapsTo(ids, element(_, _)) ==
  {[i \in AnyId |-> IF i \in DOMAIN m /\ m[i] # NoName THEN element(i, m[i]) ELSE Null] :
     m \in [ids -> AnyName]}

Params == MapsTo(MCId, LAMBDA i, n : [id |-> i, name |-> n])
Fields == MapsTo(MCId, LAMBDA i, n : [id |-> i, name |-> n, siblings |-> {}])

Notifications1 ==
  [NoFields EXCEPT ![1] = [id |-> 1, name |-> "a", registration |-> NoFields,
                           callback |-> NoFields]]

TableOf(keys, data, acts) ==
  [name |-> "a", keys |-> keys, data |-> data, actions |-> acts,
   notifications |-> Notifications1, skipped |-> FALSE]

ActionOf(i, n, f) == [id |-> i, name |-> n, fields |-> f]

\* No action, or one: it may have the id 0, for a missing one.
OneAction ==
  {[NoFields EXCEPT ![i] = ActionOf(i, n, f)] : i \in AnyId, n \in MCName, f \in Fields}
    \union {NoFields}

\* Two actions.
TwoActions ==
  {[NoFields EXCEPT ![i] = ActionOf(i, n, f), ![2] = ActionOf(2, m, g)] :
     i \in {0, 1}, n, m \in MCName, f, g \in Fields}

\* All keys, without data; all common fields with up to two actions.
MCSchema ==
  {TableOf(k, NoFields, NoFields) : k \in Params}
    \union {TableOf(NoFields, d, a) : d \in Fields, a \in OneAction \union TwoActions}
=============================================================================
