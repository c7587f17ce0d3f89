-------------------------- MODULE RequestLifecycle --------------------------
(***************************************************************************)
(* What the bridge promises about one request, without files, threads or   *)
(* crashes: it is admitted at most once, runs at most once and only after  *)
(* its admission, gets one verdict that never changes, and the client is   *)
(* told nothing but that verdict.                                          *)
(***************************************************************************)
CONSTANTS Requests, None

VARIABLES
  life,     \* life[r]: "open", "started" (admitted to execution), "closed"
  ran,      \* ran[r]: a shell was spawned for r
  verdict,  \* verdict[r]: the terminal status
  told      \* told[r]: the status the client sees for r

vars == <<life, ran, verdict, told>>

Init ==
  /\ life    = [r \in Requests |-> "open"]
  /\ ran     = [r \in Requests |-> FALSE]
  /\ verdict = [r \in Requests |-> None]
  /\ told    = [r \in Requests |-> None]

Admit(r) ==
  /\ life[r] = "open"
  /\ life' = [life EXCEPT ![r] = "started"]
  /\ UNCHANGED <<ran, verdict, told>>

Run(r) ==
  /\ life[r] = "started" /\ ~ran[r]
  /\ ran' = [ran EXCEPT ![r] = TRUE]
  /\ UNCHANGED <<life, verdict, told>>

\* Only what ran can be completed, only what was never admitted can be
\* rejected; anything short of a verdict may turn out indeterminate.
Close(r, status) ==
  /\ life[r] # "closed"
  /\ \/ status = "completed" /\ ran[r]
     \/ status = "rejected" /\ life[r] = "open"
     \/ status = "indeterminate"
  /\ life'    = [life EXCEPT ![r] = "closed"]
  /\ verdict' = [verdict EXCEPT ![r] = status]
  /\ UNCHANGED <<ran, told>>

Tell(r) ==
  /\ life[r] = "closed"
  /\ told' = [told EXCEPT ![r] = verdict[r]]
  /\ UNCHANGED <<life, ran, verdict>>

\* Another use of the same id was refused; the refusal hides the verdict
\* until the request is published again.
Hide(r) ==
  /\ told' = [told EXCEPT ![r] = None]
  /\ UNCHANGED <<life, ran, verdict>>

Next ==
  \E r \in Requests :
    \/ Admit(r) \/ Run(r) \/ Tell(r) \/ Hide(r)
    \/ \E status \in {"completed", "rejected", "indeterminate"} : Close(r, status)

Spec == Init /\ [][Next]_vars
=============================================================================
