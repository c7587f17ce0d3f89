---------------------------- MODULE MCSelfUpdate ----------------------------
(* Instance of SelfUpdate: u2 descends from u1.                *)
EXTENDS SelfUpdate

CONSTANTS u1, u2

MCUpdates == {u1, u2}
MCCommitOf == [u \in MCUpdates |-> IF u = u1 THEN Append(Base, u1)
                                   ELSE Append(Append(Base, u1), u2)]
=============================================================================
