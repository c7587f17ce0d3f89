-------------------------- MODULE MCRequestJournal --------------------------
(***************************************************************************)
(* Instances of RequestJournal for TLC.  Three kinds of contents: "plain"  *)
(* runs or is refused as the policy of the moment says, "gated" always     *)
(* needs the operator, for a payload that follows the helpers installed at *)
(* the moment, "big" exceeds max_request_bytes.                            *)
(***************************************************************************)
EXTENDS RequestJournal

CONSTANTS plain, gated, big, prompt

MCVerdicts == [b \in Bytes |-> CASE b = plain -> {"run", "reject"}
                                 [] b = gated -> Payloads
                                 [] OTHER     -> {"reject"}]
=============================================================================
