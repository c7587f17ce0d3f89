-------------------------- MODULE MCLogicalOperations -------------------------
(***************************************************************************)
(* Instances of LogicalOperations for TLC: operation as the client first   *)
(* sends it, again in other bytes, and with another command; and a request *)
(* of an older client, without an operation_id.                            *)
(***************************************************************************)
EXTENDS LogicalOperations

CONSTANTS operation, first, again, other, legacy, p1, p2

MCOpOf == [c \in Contents |-> IF c = legacy THEN None ELSE operation]
MCAsks == [c \in Contents |-> IF c = again THEN first ELSE c]
=============================================================================
