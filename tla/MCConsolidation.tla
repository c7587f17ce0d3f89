--------------------------- MODULE MCConsolidation ---------------------------
(* Instance of Consolidation: the label of the keeper is declared by two      *)
(* files, "rival" uses the same state and locks the same mailbox, "legacy"    *)
(* is a build with a state and a lock of its own.                             *)
EXTENDS Consolidation

MCIdentities == [keeper |-> {"root"}, rival |-> {"root", "instance"}, legacy |-> {"mailbox"}]
MCLabelOf == [f1 |-> "keeper", f2 |-> "keeper", f3 |-> "rival", f4 |-> "legacy"]
=============================================================================
