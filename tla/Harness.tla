------------------------------- MODULE Harness -------------------------------
(***************************************************************************)
(* The conversation harness (src/llm_git_bridge/harness/service.py): jobs  *)
(* that outlive the conversations working on them.  A conversation holds a *)
(* lease, may hand the job off with a one-time nonce that a browser turns  *)
(* into the next conversation, and journals every operation it performs.   *)
(*                                                                         *)
(* Each method is one BEGIN IMMEDIATE transaction; a call that raises is   *)
(* rolled back and leaves nothing, so only calls that return are steps.    *)
(* A call reads the clock before it gets the write lock: a call that is    *)
(* "late" saw an expiry that has passed, any other read the clock before.  *)
(* lease_id, generation and nonce are fresh at every grant and handoff, so *)
(* tokens are kept as the conversations whose token is the current one.    *)
(***************************************************************************)
EXTENDS Naturals, FiniteSets

CONSTANTS
  Jobs,
  Holders,   \* conversations, by holder_id
  Browsers,  \* paired browser clients
  Keys,      \* idempotency keys of operations
  None

VARIABLES
  lifecycle,  \* jobs.lifecycle, None before create_job
  lease,      \* the row of leases, or None
  token,      \* token[j]: the conversations that know the current lease
  handoff,    \* the latest row of handoffs, or None; older ones are closed
  known,      \* known[j]: the conversations given the nonce of handoff[j]
  operation,  \* operation[j][k]: operations.status, or None
  told,       \* told[j][k]: how often start_operation answered "created" (history)
  claimed     \* claimed[j]: leases granted for the nonce of handoff[j] (history)

vars == <<lifecycle, lease, token, handoff, known, operation, told, claimed>>

\* "active" stands for waiting too, "failed" for cancelled.
Closed == {"completed", "failed"}
Lifecycles == {"active", "blocked"} \cup Closed
Open == {"pending", "starting"}
Unresolved == {"started", "indeterminate"}
Statuses == Unresolved \cup {"completed", "failed"}

ASSUME NoneAssumption == None \notin Browsers \cup Statuses \cup Lifecycles

Lease == [holder : Holders, past : BOOLEAN]

Handoff == [state : Open \cup {"claimed", "expired"}, past : BOOLEAN,
            browser : Browsers \cup {None}, startPast : BOOLEAN]

TypeOK ==
  /\ lifecycle \in [Jobs -> Lifecycles \cup {None}]
  /\ lease \in [Jobs -> Lease \cup {None}]
  /\ token \in [Jobs -> SUBSET Holders]
  /\ handoff \in [Jobs -> Handoff \cup {None}]
  /\ known \in [Jobs -> SUBSET Holders]
  /\ operation \in [Jobs -> [Keys -> Statuses \cup {None}]]
  /\ told \in [Jobs -> [Keys -> Nat]]
  /\ claimed \in [Jobs -> Nat]

Init ==
  /\ lifecycle = [j \in Jobs |-> None]
  /\ lease = [j \in Jobs |-> None] /\ token = [j \in Jobs |-> {}]
  /\ handoff = [j \in Jobs |-> None] /\ known = [j \in Jobs |-> {}]
  /\ operation = [j \in Jobs |-> [k \in Keys |-> None]]
  /\ told = [j \in Jobs |-> [k \in Keys |-> 0]]
  /\ claimed = [j \in Jobs |-> 0]

-----------------------------------------------------------------------------
Leased(j) == lease[j] # None
IsOpen(f) == f # None /\ f.state \in Open
IsPending(f) == f # None /\ f.state = "pending"
Live(j) == lifecycle[j] \notin Closed \cup {None}
AllResolved(j) == \A k \in Keys : operation[j][k] \notin Unresolved

Unreserved(f, state) ==
  [f EXCEPT !.state = state, !.browser = None, !.startPast = FALSE]
Shut(f, state) == [Unreserved(f, state) EXCEPT !.past = FALSE]

\* _expire: what a transaction finds after deleting an expired lease,
\* expiring an open handoff and returning a stale reservation to pending.
Lapsed(j, late) == late /\ Leased(j) /\ lease[j].past
LeaseSeen(j, late) == IF Lapsed(j, late) THEN None ELSE lease[j]
TokenSeen(j, late) == IF Lapsed(j, late) THEN {} ELSE token[j]

\* Variant: only a pending handoff expires.
HandoffSeenPending(j, late) ==
  IF late /\ IsPending(handoff[j]) /\ handoff[j].past THEN Shut(handoff[j], "expired")
  ELSE handoff[j]

HandoffSeen(j, late) ==
  LET f == handoff[j] IN
    IF ~late \/ ~IsOpen(f) THEN f
    ELSE IF f.past THEN Shut(f, "expired")
    ELSE IF f.startPast THEN Unreserved(f, "pending")
    ELSE f

\* The rest of a transaction on j that leaves the lease and the handoff alone.
KeepLease(j, late) ==
  /\ lease' = [lease EXCEPT ![j] = LeaseSeen(j, late)]
  /\ token' = [token EXCEPT ![j] = TokenSeen(j, late)]
KeepHandoff(j, late) ==
  /\ handoff' = [handoff EXCEPT ![j] = HandoffSeen(j, late)]
  /\ UNCHANGED <<known, claimed>>

\* _require_lease
Holds(h, j, late) == LeaseSeen(j, late) # None /\ h \in TokenSeen(j, late)

\* A lease under a fresh lease_id; the answer with it may be lost.
Grant(h, j) ==
  /\ lease' = [lease EXCEPT ![j] = [holder |-> h, past |-> FALSE]]
  /\ \E told_to \in {{}, {h}} : token' = [token EXCEPT ![j] = told_to]

Drop(j) ==
  /\ lease' = [lease EXCEPT ![j] = None]
  /\ token' = [token EXCEPT ![j] = {}]

-----------------------------------------------------------------------------
CreateJob(j, lc) ==
  /\ lifecycle[j] = None
  /\ lifecycle' = [lifecycle EXCEPT ![j] = lc]
  /\ UNCHANGED <<lease, token, handoff, known, operation, told, claimed>>

\* get_job and continuation: a read keeps what it expired.
Read(j, late) ==
  /\ lifecycle[j] # None
  /\ KeepLease(j, late) /\ KeepHandoff(j, late)
  /\ UNCHANGED <<lifecycle, operation, told>>

\* A holder_id that asks again gets its own lease back.
AcquireLease(h, j, late) ==
  LET current == LeaseSeen(j, late) IN
    /\ Live(j) /\ ~IsOpen(HandoffSeen(j, late))
    /\ KeepHandoff(j, late)
    /\ \/ /\ current # None /\ current.holder = h
          /\ lease' = [lease EXCEPT ![j] = [holder |-> h, past |-> FALSE]]
          /\ \E told_to \in {{}, {h}} : token' = [token EXCEPT ![j] = @ \cup told_to]
       \/ current = None /\ Grant(h, j)
    /\ UNCHANGED <<lifecycle, operation, told>>

RenewLease(h, j, late) ==
  /\ Holds(h, j, late)
  /\ lease' = [lease EXCEPT ![j].past = FALSE]
  /\ KeepHandoff(j, late)
  /\ UNCHANGED <<lifecycle, token, operation, told>>

ReleaseLease(h, j, late) ==
  /\ Holds(h, j, late)
  /\ Drop(j)
  /\ KeepHandoff(j, late)
  /\ UNCHANGED <<lifecycle, operation, told>>

\* LIFECYCLE_TRANSITIONS
MayBecome(from, to) ==
  from = to \/ (from \notin Closed /\ <<from, to>> # <<"blocked", "completed">>)

\* A call whose expected_version is the job's; any other raises Conflict.
UpdateJob(h, j, lc, late) ==
  /\ Holds(h, j, late) /\ Live(j) /\ AllResolved(j)
  /\ MayBecome(lifecycle[j], lc)
  /\ lifecycle' = [lifecycle EXCEPT ![j] = lc]
  /\ KeepLease(j, late) /\ KeepHandoff(j, late)
  /\ UNCHANGED <<operation, told>>

\* A handoff row with a fresh nonce, which nobody has been given yet.
Offer(j) ==
  /\ handoff' = [handoff EXCEPT ![j] =
       [state |-> "pending", past |-> FALSE, browser |-> None, startPast |-> FALSE]]
  /\ known' = [known EXCEPT ![j] = {}]
  /\ claimed' = [claimed EXCEPT ![j] = 0]

\* Variant: the lease is left to expire.
CreateHandoffLeased(h, j, late) ==
  /\ Holds(h, j, late) /\ Live(j) /\ ~IsOpen(HandoffSeen(j, late))
  /\ Offer(j) /\ KeepLease(j, late)
  /\ UNCHANGED <<lifecycle, operation, told>>

CreateHandoff(h, j, late) ==
  /\ Holds(h, j, late) /\ Live(j) /\ ~IsOpen(HandoffSeen(j, late))
  /\ Offer(j)
  /\ Drop(j)
  /\ UNCHANGED <<lifecycle, operation, told>>

\* Variant: the nonce is not spent.
ClaimHandoffAgain(h, j, late) ==
  /\ Live(j) /\ IsOpen(HandoffSeen(j, late)) /\ h \in known[j]
  /\ LeaseSeen(j, late) = None
  /\ Grant(h, j)
  /\ claimed' = [claimed EXCEPT ![j] = @ + 1]
  /\ UNCHANGED <<lifecycle, handoff, known, operation, told>>

\* Any conversation that has the nonce claims the handoff, reserved by a
\* browser or not; the nonce is spent.
ClaimHandoff(h, j, late) ==
  /\ Live(j) /\ IsOpen(HandoffSeen(j, late)) /\ h \in known[j]
  /\ LeaseSeen(j, late) = None
  /\ Grant(h, j)
  /\ handoff' = [handoff EXCEPT ![j] = Shut(@, "claimed")]
  /\ claimed' = [claimed EXCEPT ![j] = @ + 1]
  /\ UNCHANGED <<lifecycle, known, operation, told>>

\* Variant: what a predecessor left indeterminate is performed again.
StartOperationAgain(h, j, k, late) ==
  /\ Holds(h, j, late) /\ Live(j)
  /\ \/ operation[j][k] \notin {None, "indeterminate"} /\ UNCHANGED <<operation, told>>
     \/ /\ operation[j][k] \in {None, "indeterminate"}
        /\ \A l \in Keys \ {k} : operation[j][l] \notin Unresolved
        /\ operation' = [operation EXCEPT ![j][k] = "started"]
        /\ told' = [told EXCEPT ![j][k] = @ + 1]
  /\ KeepLease(j, late) /\ KeepHandoff(j, late)
  /\ UNCHANGED lifecycle

\* created = True tells the caller to perform the operation.
StartOperation(h, j, k, late) ==
  /\ Holds(h, j, late) /\ Live(j)
  /\ \/ operation[j][k] # None /\ UNCHANGED <<operation, told>>
     \/ /\ operation[j][k] = None /\ AllResolved(j)
        /\ operation' = [operation EXCEPT ![j][k] = "started"]
        /\ told' = [told EXCEPT ![j][k] = @ + 1]
  /\ KeepLease(j, late) /\ KeepHandoff(j, late)
  /\ UNCHANGED lifecycle

\* An indeterminate operation is reconciled to what it was; a terminal one stays.
FinishOperation(h, j, k, status, late) ==
  /\ Holds(h, j, late)
  /\ \/ operation[j][k] \in Unresolved
     \/ operation[j][k] = status
  /\ operation' = [operation EXCEPT ![j][k] = status]
  /\ KeepLease(j, late) /\ KeepHandoff(j, late)
  /\ UNCHANGED <<lifecycle, told>>
-----------------------------------------------------------------------------
(***************************************************************************)
(* The browser API: threads with connections of their own.                 *)
(***************************************************************************)
\* _expire_open_handoffs: only jobs whose handoff is open are visited.
Swept(late) == [j \in Jobs |-> HandoffSeen(j, late)]

SweepLeases(late) ==
  /\ lease' = [j \in Jobs |-> IF IsOpen(handoff[j]) THEN LeaseSeen(j, late) ELSE lease[j]]
  /\ token' = [j \in Jobs |-> IF IsOpen(handoff[j]) THEN TokenSeen(j, late) ELSE token[j]]

ReservedBy(f, b) == f # None /\ f.state = "starting" /\ f.browser = b

\* reserve_reentry: the browser's own reservation again, else a pending handoff.
ReserveReentry(b, late) ==
  /\ SweepLeases(late)
  /\ \/ /\ \E j \in Jobs : ReservedBy(Swept(late)[j], b)
        /\ handoff' = Swept(late)
     \/ /\ \A j \in Jobs : ~ReservedBy(Swept(late)[j], b)
        /\ \E j \in {i \in Jobs : IsPending(Swept(late)[i])} :
             handoff' = [Swept(late) EXCEPT ![j] =
               [@ EXCEPT !.state = "starting", !.browser = b]]
  /\ UNCHANGED <<lifecycle, known, operation, told, claimed>>

ReleaseReentry(b, j, late) ==
  /\ ReservedBy(Swept(late)[j], b)
  /\ SweepLeases(late)
  /\ handoff' = [Swept(late) EXCEPT ![j] = Unreserved(@, "pending")]
  /\ UNCHANGED <<lifecycle, known, operation, told, claimed>>

PendingReentries(late) ==
  /\ SweepLeases(late) /\ handoff' = Swept(late)
  /\ UNCHANGED <<lifecycle, known, operation, told, claimed>>

\* The prompt with the nonce reaches a conversation: the answer of
\* create_handoff, or of a browser that submits it, perhaps more than once.
Prompt(h, j) ==
  /\ IsOpen(handoff[j])
  /\ known' = [known EXCEPT ![j] = @ \cup {h}]
  /\ UNCHANGED <<lifecycle, lease, token, handoff, operation, told, claimed>>

\* Time passes an expiry.  A reservation never outlives its handoff.
LeaseLapses(j) ==
  /\ Leased(j) /\ ~lease[j].past
  /\ lease' = [lease EXCEPT ![j].past = TRUE]
  /\ UNCHANGED <<lifecycle, token, handoff, known, operation, told, claimed>>

HandoffLapses(j) ==
  /\ IsOpen(handoff[j]) /\ ~handoff[j].past
  /\ handoff' = [handoff EXCEPT ![j].past = TRUE, ![j].startPast = handoff[j].state = "starting"]
  /\ UNCHANGED <<lifecycle, lease, token, known, operation, told, claimed>>

ReservationLapses(j) ==
  /\ IsOpen(handoff[j]) /\ handoff[j].state = "starting" /\ ~handoff[j].startPast
  /\ handoff' = [handoff EXCEPT ![j].startPast = TRUE]
  /\ UNCHANGED <<lifecycle, lease, token, known, operation, told, claimed>>
-----------------------------------------------------------------------------
HolderStep(h, j, late) ==
  \/ AcquireLease(h, j, late) \/ RenewLease(h, j, late) \/ ReleaseLease(h, j, late)
  \/ \E lc \in Lifecycles : UpdateJob(h, j, lc, late)
  \/ CreateHandoff(h, j, late) \/ ClaimHandoff(h, j, late)
  \/ \E k \in Keys : StartOperation(h, j, k, late)
  \/ \E k \in Keys, s \in Statuses \ {"started"} : FinishOperation(h, j, k, s, late)

BrowserStep(b, late) ==
  ReserveReentry(b, late) \/ \E j \in Jobs : ReleaseReentry(b, j, late)

Time(j) == LeaseLapses(j) \/ HandoffLapses(j) \/ ReservationLapses(j)

Next ==
  \/ \E j \in Jobs, lc \in Lifecycles : CreateJob(j, lc)
  \/ \E j \in Jobs, late \in BOOLEAN : Read(j, late)
  \/ \E h \in Holders, j \in Jobs, late \in BOOLEAN : HolderStep(h, j, late)
  \/ \E b \in Browsers, late \in BOOLEAN : BrowserStep(b, late)
  \/ \E late \in BOOLEAN : PendingReentries(late)
  \/ \E h \in Holders, j \in Jobs : Prompt(h, j)
  \/ \E j \in Jobs : Time(j)

Spec == Init /\ [][Next]_vars

\* Time passes, and conversations keep asking for a lease that nobody holds.
Asks(j) == \E h \in Holders : AcquireLease(h, j, TRUE)
Fairness ==
  \A j \in Jobs : WF_vars(LeaseLapses(j)) /\ WF_vars(HandoffLapses(j)) /\ WF_vars(Asks(j))
FairSpec == Spec /\ Fairness
-----------------------------------------------------------------------------
\* A job is held, offered or free: an open handoff never coexists with a lease
\* (acquire_lease, create_handoff, claim_handoff), however expiries,
\* reservations and calls with an old clock interleave.
HeldOrOffered == \A j \in Jobs : ~(Leased(j) /\ IsOpen(handoff[j]))

\* A closed job is never offered to a browser: reserve_reentry does not look
\* at the lifecycle, it relies on what update_job and create_handoff require.
ClosedIsNotOffered ==
  \A j \in Jobs : lifecycle[j] \in Closed => ~IsOpen(handoff[j])

\* Whoever takes a job over resolves what its predecessor left in flight
\* before it starts anything else (start_operation, finish_operation).
OneUnresolvedOperation ==
  \A j \in Jobs, k, l \in Keys :
    (operation[j][k] \in Unresolved /\ operation[j][l] \in Unresolved) => k = l

\* A job is closed only when all its operations are resolved, and none is
\* started or reopened afterwards (update_job, start_operation, finish_operation).
ClosedIsResolved ==
  \A j \in Jobs : lifecycle[j] \in Closed => AllResolved(j)

\* An idempotency key is performed at most once, by whichever conversations
\* hold the job one after the other (start_operation answers "created" once).
PerformedOnce == \A j \in Jobs, k \in Keys : told[j][k] <= 1

\* A conversation that vanishes between "created" and its report leaves an operation
\* nobody knows the outcome of.  Whoever takes the job over is not told to perform it
\* again, and starts no other and does not close the job before it is resolved.
SuccessorReconciles == PerformedOnce /\ OneUnresolvedOperation /\ ClosedIsResolved

\* A nonce grants at most one lease, whoever replays its prompt (claim_handoff).
NonceSpentOnce == \A j \in Jobs : claimed[j] <= 1

\* one_starting_handoff_per_client: a browser opens one conversation at a
\* time; reserve_reentry never runs into the index.
OneReservationPerBrowser ==
  \A b \in Browsers, i, j \in Jobs :
    (ReservedBy(handoff[i], b) /\ ReservedBy(handoff[j], b)) => i = j

\* A conversation or a browser that disappears, in the middle of a handoff or
\* not, never wedges a job: an open job is leased again and again.
NeverWedged ==
  \A j \in Jobs :
    []<>(lifecycle[j] \in Closed \cup {None} \/ (Leased(j) /\ ~lease[j].past))
=============================================================================
