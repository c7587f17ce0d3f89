------------------------- MODULE MCGitTransaction -------------------------
(* Instance of GitTransaction: q1 and q2 carry one transaction id with        *)
(* different bytes and target the branch "ai"; q3 targets the checked-out      *)
(* branch "main"; q1 runs commands, q1 and q3 ask for a push.                 *)
EXTENDS GitTransaction

CONSTANTS q1, q2, q3, t1, t2

MCRequests == {q1, q2, q3}
MCIdOf == [q \in MCRequests |-> IF q = q3 THEN t2 ELSE t1]
MCTargetOf == [q \in MCRequests |-> IF q = q3 THEN "main" ELSE "ai"]
MCPushRequests == {q1, q3}
MCRunRequests == {q1}
MCBranches == {"main", "topic", "ai"}
MCSafeBranches == {"ai"}
=============================================================================
