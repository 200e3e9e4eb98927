------------------------------ MODULE MCDevices ------------------------------
(* Instances of Devices for TLC. *)
EXTENDS Devices

\* One thread adds and removes devices, the others look them up.
MCCalls ==
  LET driver == CHOOSE t \in Thread : TRUE
  IN  [t \in Thread |-> IF t = driver THEN {"add", "remove"}
                        ELSE Function \ {"add", "remove"}]
=============================================================================
