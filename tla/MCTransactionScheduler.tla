----------------------- MODULE MCTransactionScheduler -----------------------
(* Instances of TransactionScheduler for TLC.                               *)
EXTENDS TransactionScheduler

MCNames == <<"a1", "a2", "b1", "c1", "m1">>
MCRepoOf == [a1 |-> "A", a2 |-> "A", b1 |-> "B", c1 |-> "C", m1 |-> "A"]

\* A small instance for liveness.
FewNames == <<"a1", "a2", "b1", "m1">>
FewRepoOf == [a1 |-> "A", a2 |-> "A", b1 |-> "B", m1 |-> "B"]
=============================================================================
