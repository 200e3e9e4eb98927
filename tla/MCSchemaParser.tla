--------------------------- MODULE MCSchemaParser ---------------------------
(* Instances of SchemaParser for TLC. *)
EXTENDS SchemaParser

MCId == 1..3
MCName == {"a", "b"}

F(id, n) == [id |-> id, name |-> n]
Single(id, n) == [oneof |-> FALSE, members |-> <<F(id, n)>>]
Oneof(ms) == [oneof |-> TRUE, members |-> ms]

\* Single fields, oneofs of two that overlap in a field, one that repeats an
\* id, one of a single field, and an empty one.
MCElement ==
  {Single(1, "a"), Single(2, "a"), Single(2, "b")}
    \union {Oneof(<<F(1, "a"), F(2, "b")>>), Oneof(<<F(2, "b"), F(3, "a")>>),
            Oneof(<<F(1, "a"), F(1, "b")>>), Oneof(<<F(3, "a")>>), Oneof(<<>>)}
=============================================================================
