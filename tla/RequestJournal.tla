--------------------------- MODULE RequestJournal ---------------------------
(***************************************************************************)
(* The per-request journal of the Local Executor Bridge daemon             *)
(* (shell_bridge/bridge.py): how one mailbox request is claimed, admitted, *)
(* approved, STARTED, executed in a process group, FINISHED, published and *)
(* deleted, and what a crash, a shutdown, a failing disk, a failing        *)
(* transport or a second daemon on the same journal do to it.              *)
(*                                                                         *)
(* A worker is a pair <<d, r>>: daemon d keeps the set active_names, so it *)
(* never runs two threads for one request name.  The requests here carry   *)
(* no operation_id; module LogicalOperations adds that layer.              *)
(***************************************************************************)
EXTENDS Naturals, FiniteSets

CONSTANTS
  Requests,     \* request ids; the mailbox holds requests/<id>.json
  Bytes,        \* request contents a client may upload (their SHA-256)
  Daemons,      \* daemon processes that may ever share the journal
  Payloads,     \* approval payload hashes (command, category, helper pin)
  None,         \* an absent file
  Oversize,     \* the contents longer than max_request_bytes
  Verdicts,     \* Verdicts[b]: what policy may answer for b: "reject",
                \* "run", or the payload the operator must approve
  MaxActive,    \* max_active_requests
  Exclusive,    \* TRUE: the mailbox lock admits one daemon at a time
  StableClaims, \* TRUE: request-claims/<id>.lock is never replaced
  MaxSubmits,   \* bound: uploads by clients
  MaxStops,     \* bound: crashes and shutdowns
  MaxClicks     \* bound: operator decisions per request

Statuses == {"completed", "rejected", "indeterminate"}

\* result_envelope: "journal" results are result.json, "refusal" ones are the
\* conflict-result.json and oversize-result.json that never touch the journal.
Result == [status : Statuses, sha : Bytes, kind : {"journal", "refusal"}]

Pending  == [payload : Payloads, expired : BOOLEAN]
Decision == [choice : {"allow", "cancel"}, payload : Payloads]

ASSUME ConstantsAssumption ==
  /\ None \notin Bytes \cup Daemons \cup Payloads
  /\ None \notin Statuses \cup Result \cup Pending \cup Decision
  /\ Oversize \subseteq Bytes
  /\ {"reject", "run"} \cap Payloads = {}
  /\ Verdicts \in [Bytes -> SUBSET ({"reject", "run"} \cup Payloads)]
  /\ MaxActive \in Nat \ {0}
  /\ Exclusive \in BOOLEAN /\ StableClaims \in BOOLEAN
  /\ MaxSubmits \in Nat /\ MaxStops \in Nat /\ MaxClicks \in Nat

VARIABLES
  mailbox,   \* mailbox[r]: contents of requests/<r>.json on the Drive
  answer,    \* answer[r]: results/<r>.json on the Drive
  request,   \* request[r]: contents of the journalled request.json
  started,   \* started[r]: the SHA in started.json
  active,    \* active[r]: active.json records the process group
  result,    \* result[r]: result.json
  finished,  \* finished[r]: the SHA in finished.json
  pending,   \* pending[r]: approvals/pending/<r>.json
  decision,  \* decision[r]: approvals/decisions/<r>.json
  grants,    \* grants[r]: the payloads the operator allowed so far (history)
  child,     \* child[r]: the process group spawned for r, as its leader
  runs,      \* runs[r]: how often a shell was spawned for r (history)
  claim,     \* claim[r]: holder of the flock request-claims/<r>.lock
  phase,     \* phase[d]: where the daemon's main thread is
  todo,      \* todo[d]: requests its sweep or signal loop has yet to visit
  pc,        \* pc[d][r]: where d's worker for r is
  raw,       \* raw[d][r]: the bytes that worker fetched
  out,       \* out[d][r]: the status that worker is about to record
  demand,    \* demand[d][r]: the payload that worker wants approved
  submits, stops, clicks   \* counters of the bounds

mailboxVars == <<mailbox, answer>>
journalVars == <<request, started, active, result, finished>>
approvalVars == <<pending, decision, clicks, grants>>
childVars   == <<child, runs>>
daemonVars  == <<phase, todo, stops>>
workerVars  == <<pc, raw, out, demand>>
vars == <<mailboxVars, journalVars, approvalVars, childVars, claim,
          daemonVars, workerVars, submits>>

PCs == {"idle", "fetch", "claim", "inspect", "admit", "plan", "await", "start",
        "spawn", "spawned", "running", "ended", "persist", "finish", "upload",
        "refuse", "delete"}

Phases == {"down", "sweep", "up", "stopping", "draining", "lost"}

TypeOK ==
  /\ mailbox  \in [Requests -> Bytes \cup {None}]
  /\ answer   \in [Requests -> Result \cup {None}]
  /\ request  \in [Requests -> Bytes \cup {None}]
  /\ started  \in [Requests -> Bytes \cup {None}]
  /\ active   \in [Requests -> BOOLEAN]
  /\ result   \in [Requests -> Result \cup {None}]
  /\ finished \in [Requests -> Bytes \cup {None}]
  /\ pending  \in [Requests -> Pending \cup {None}]
  /\ decision \in [Requests -> Decision \cup {None}]
  /\ demand   \in [Daemons -> [Requests -> Payloads \cup {None}]]
  /\ grants   \in [Requests -> SUBSET Payloads]
  /\ child    \in [Requests -> {"none", "running", "exited", "killed"}]
  /\ runs     \in [Requests -> Nat]
  /\ claim    \in [Requests -> Daemons \cup {None}]
  /\ phase    \in [Daemons -> Phases]
  /\ todo     \in [Daemons -> SUBSET Requests]
  /\ pc       \in [Daemons -> [Requests -> PCs]]
  /\ raw      \in [Daemons -> [Requests -> Bytes \cup {None}]]
  /\ out      \in [Daemons -> [Requests -> Statuses \cup {None}]]
  /\ submits \in Nat /\ stops \in Nat
  /\ clicks   \in [Requests -> Nat]

Init ==
  /\ mailbox  = [r \in Requests |-> None]
  /\ answer   = [r \in Requests |-> None]
  /\ request  = [r \in Requests |-> None]
  /\ started  = [r \in Requests |-> None]
  /\ active   = [r \in Requests |-> FALSE]
  /\ result   = [r \in Requests |-> None]
  /\ finished = [r \in Requests |-> None]
  /\ pending  = [r \in Requests |-> None]
  /\ decision = [r \in Requests |-> None]
  /\ demand   = [d \in Daemons |-> [r \in Requests |-> None]]
  /\ grants   = [r \in Requests |-> {}]
  /\ child    = [r \in Requests |-> "none"]
  /\ runs     = [r \in Requests |-> 0]
  /\ claim    = [r \in Requests |-> None]
  /\ phase    = [d \in Daemons |-> "down"]
  /\ todo     = [d \in Daemons |-> {}]
  /\ pc       = [d \in Daemons |-> [r \in Requests |-> "idle"]]
  /\ raw      = [d \in Daemons |-> [r \in Requests |-> None]]
  /\ out      = [d \in Daemons |-> [r \in Requests |-> None]]
  /\ submits = 0 /\ stops = 0
  /\ clicks   = [r \in Requests |-> 0]

-----------------------------------------------------------------------------
(***************************************************************************)
(* Worker steps.  Goto moves the worker; EndWorker ends its thread, which  *)
(* closes the claim's file descriptor and so releases the flock.           *)
(***************************************************************************)
Goto(d, r, label) == pc' = [pc EXCEPT ![d][r] = label]

\* Variant: the thread ends without closing the claim's file descriptor.
EndWorkerHolding(d, r) ==
  /\ pc'  = [pc EXCEPT ![d][r] = "idle"]
  /\ raw' = [raw EXCEPT ![d][r] = None]
  /\ out' = [out EXCEPT ![d][r] = None]
  /\ demand' = [demand EXCEPT ![d][r] = None]
  /\ UNCHANGED claim

EndWorker(d, r) ==
  /\ pc'  = [pc EXCEPT ![d][r] = "idle"]
  /\ raw' = [raw EXCEPT ![d][r] = None]
  /\ out' = [out EXCEPT ![d][r] = None]
  /\ demand' = [demand EXCEPT ![d][r] = None]
  /\ claim' = [claim EXCEPT ![r] = IF @ = d THEN None ELSE @]

At(d, r, label) == phase[d] # "down" /\ pc[d][r] = label

Record(d, r, status, label) ==
  /\ out' = [out EXCEPT ![d][r] = status]
  /\ Goto(d, r, label)

\* _copy_request: read requests/<r>.json, when it is still there.
Fetch(d, r) ==
  /\ At(d, r, "fetch")
  /\ mailbox[r] # None
  /\ raw' = [raw EXCEPT ![d][r] = mailbox[r]]
  /\ Goto(d, r, "claim")
  /\ UNCHANGED <<mailboxVars, journalVars, approvalVars, childVars, claim,
                 daemonVars, out, demand, submits>>

\* _claim_request: a non-blocking flock.  A busy claim leaves the request to
\* its owner.  A replaced lock file (~StableClaims) names a fresh inode.
Claim(d, r) ==
  /\ At(d, r, "claim")
  /\ IF claim[r] = None \/ ~StableClaims
     THEN /\ claim' = [claim EXCEPT ![r] = d]
          /\ Goto(d, r, "inspect")
          /\ UNCHANGED <<raw, out, demand>>
     ELSE EndWorker(d, r)
  /\ UNCHANGED <<mailboxVars, journalVars, approvalVars, childVars,
                 daemonVars, submits>>

\* The SHA the journal already binds to this request id.
PriorSha(r) == IF started[r] # None THEN started[r] ELSE request[r]

\* Variant: recovery forgets the recorded process group without killing it.
ContainNothing(r) == child

\* _contain_recorded_active: the recorded process group is killed.
Contain(r) == [child EXCEPT ![r] = IF active[r] /\ @ = "running"
                                   THEN "killed" ELSE @]

\* _process_claimed_request up to the first write: refuse oversized bytes and
\* reused ids, republish a FINISHED request, close a STARTED one as
\* indeterminate after containing its recorded process group.
Inspect(d, r) ==
  /\ At(d, r, "inspect")
  /\ LET conflict == PriorSha(r) \notin {None, raw[d][r]}
         closed   == finished[r] # None /\ result[r] # None
         broken   == started[r] # None /\ finished[r] = None
     IN  \/ /\ raw[d][r] \in Oversize \/ conflict
            /\ Goto(d, r, "refuse")
            /\ UNCHANGED <<out, active, child>>
         \/ /\ raw[d][r] \notin Oversize /\ ~conflict /\ closed
            /\ Goto(d, r, "upload")
            /\ UNCHANGED <<out, active, child>>
         \/ /\ raw[d][r] \notin Oversize /\ ~conflict /\ ~closed /\ broken
            /\ child' = Contain(r)
            /\ active' = [active EXCEPT ![r] = FALSE]
            /\ Record(d, r, "indeterminate", "persist")
         \/ /\ raw[d][r] \notin Oversize /\ ~conflict /\ ~closed /\ ~broken
            /\ Goto(d, r, "admit")
            /\ UNCHANGED <<out, active, child>>
  /\ UNCHANGED <<mailboxVars, request, started, result, finished,
                 approvalVars, runs, claim, daemonVars, raw, demand, submits>>

\* atomic_write(local_request, raw)
Admit(d, r) ==
  /\ At(d, r, "admit")
  /\ request' = [request EXCEPT ![r] = raw[d][r]]
  /\ Goto(d, r, "plan")
  /\ UNCHANGED <<mailboxVars, started, active, result, finished, approvalVars,
                 childVars, claim, daemonVars, raw, out, demand, submits>>

\* request_operator_confirmation up to its waiting loop: a pending approval
\* found on disk is reused within its first expiry; another payload, an
\* expired one, or a helper that cannot be launched is a rejection.
Ask(d, r, payload) ==
  LET ask   == IF pending[r] = None
               THEN [payload |-> payload, expired |-> FALSE] ELSE pending[r]
      valid == ask.payload = payload /\ ~ask.expired
  IN  /\ pending' = [pending EXCEPT ![r] = ask]
      /\ \/ /\ valid
            /\ Goto(d, r, "await")
            /\ UNCHANGED out
         \/ /\ ~valid \/ decision[r] = None
            /\ Record(d, r, "rejected", "persist")

\* Validation, policy and resolve_write_plan answer with a verdict that may
\* differ from one attempt to the next, because it reads the configuration,
\* the repositories and the installed helpers.
Plan(d, r) ==
  /\ At(d, r, "plan")
  /\ \E v \in Verdicts[raw[d][r]] :
       /\ demand' = [demand EXCEPT ![d][r] = IF v \in Payloads THEN v ELSE None]
       /\ \/ v = "reject" /\ Record(d, r, "rejected", "persist") /\ UNCHANGED pending
          \/ v = "run" /\ Goto(d, r, "start") /\ UNCHANGED <<out, pending>>
          \/ v \in Payloads /\ Ask(d, r, v)
  /\ UNCHANGED <<mailboxVars, journalVars, decision, clicks, grants, childVars,
                 claim, daemonVars, raw, submits>>

\* consume_decision: an "allow" for exactly the payload this worker asked for.
\* pending.json is written once and never removed, so a request has one nonce.
Consents(d, r) ==
  decision[r] = [choice |-> "allow", payload |-> demand[d][r]]

\* Variant: any decision counts as consent.
AwaitAny(d, r) ==
  /\ At(d, r, "await")
  /\ \/ /\ decision[r] # None /\ ~pending[r].expired
        /\ Goto(d, r, "start")
        /\ UNCHANGED out
     \/ /\ pending[r].expired
        /\ Record(d, r, "rejected", "persist")
  /\ UNCHANGED <<mailboxVars, journalVars, approvalVars, childVars, claim,
                 daemonVars, raw, demand, submits>>

\* Variant: the wait has no deadline.
AwaitOperator(d, r) ==
  /\ At(d, r, "await") /\ decision[r] # None
  /\ \/ Consents(d, r) /\ Goto(d, r, "start") /\ UNCHANGED out
     \/ Record(d, r, "rejected", "persist")
  /\ UNCHANGED <<mailboxVars, journalVars, approvalVars, childVars, claim,
                 daemonVars, raw, demand, submits>>

\* request_operator_confirmation: poll for a decision until the expiry.  The
\* helper may fail to launch, and an approved trusted helper is verified once
\* more: both end in "rejected".  The wait does not look at _SHUTDOWN.
Await(d, r) ==
  /\ At(d, r, "await")
  /\ \/ /\ Consents(d, r) /\ ~pending[r].expired
        /\ Goto(d, r, "start")
        /\ UNCHANGED out
     \/ /\ decision[r] # None \/ pending[r].expired
        /\ Record(d, r, "rejected", "persist")
  /\ UNCHANGED <<mailboxVars, journalVars, approvalVars, childVars, claim,
                 daemonVars, raw, demand, submits>>

\* Variant: execution begins before STARTED is on disk.
StartUnmarked(d, r) ==
  /\ At(d, r, "start")
  /\ IF started[r] = None
     THEN Goto(d, r, "spawn") /\ UNCHANGED <<raw, out, demand, claim>>
     ELSE EndWorker(d, r)
  /\ UNCHANGED <<mailboxVars, journalVars, approvalVars, childVars, daemonVars,
                 submits>>

\* atomic_create(started_marker): link(2) refuses an existing marker.  When
\* only the directory sync fails, STARTED exists and the worker dies.
Start(d, r) ==
  /\ At(d, r, "start")
  /\ IF started[r] = None
     THEN /\ started' = [started EXCEPT ![r] = raw[d][r]]
          /\ \/ Goto(d, r, "spawn") /\ UNCHANGED <<raw, out, demand, claim>>
             \/ EndWorker(d, r)
     ELSE EndWorker(d, r) /\ UNCHANGED started
  /\ UNCHANGED <<mailboxVars, request, active, result, finished,
                 approvalVars, childVars, daemonVars, submits>>

\* run_shell: Popen in a new session, or an exception before any child exists.
Spawn(d, r) ==
  /\ At(d, r, "spawn")
  /\ \/ /\ runs'  = [runs EXCEPT ![r] = @ + 1]
        /\ child' = [child EXCEPT ![r] = "running"]
        /\ Goto(d, r, "spawned")
        /\ UNCHANGED out
     \/ Record(d, r, "indeterminate", "ended") /\ UNCHANGED childVars
  /\ UNCHANGED <<mailboxVars, journalVars, approvalVars, claim, daemonVars,
                 raw, demand, submits>>

\* on_spawn: active.json and _ACTIVE.  It runs before run_shell's try block,
\* so when it raises nobody terminates the child; when it is the directory sync
\* that fails, active.json is there all the same.
RecordSpawn(d, r) ==
  /\ At(d, r, "spawned")
  /\ \/ /\ active' = [active EXCEPT ![r] = TRUE]
        /\ \/ Goto(d, r, "running") /\ UNCHANGED out
           \/ Record(d, r, "indeterminate", "ended")
     \/ Record(d, r, "indeterminate", "ended") /\ UNCHANGED active
  /\ UNCHANGED <<mailboxVars, request, started, result, finished, approvalVars,
                 childVars, claim, daemonVars, raw, demand, submits>>

\* run_shell raises with the child still there: a reader or writer thread that
\* cannot be started, before the try block, or a group that cannot be signalled.
RunRaises(d, r) ==
  /\ At(d, r, "running")
  /\ Record(d, r, "indeterminate", "ended")
  /\ UNCHANGED <<mailboxVars, journalVars, approvalVars, childVars, claim,
                 daemonVars, raw, demand, submits>>

\* run_shell's loop saw the child gone and aborted is still FALSE: the result
\* is "completed", or "indeterminate" when a descendant holds the pipes.
ChildGone(d, r) ==
  /\ At(d, r, "running") /\ child[r] # "running"
  /\ \E status \in {"completed", "indeterminate"} : Record(d, r, status, "ended")
  /\ UNCHANGED <<mailboxVars, journalVars, approvalVars, childVars, claim,
                 daemonVars, raw, demand, submits>>

\* The deadline: the worker kills its own child; still a completed run.
Deadline(d, r) ==
  /\ At(d, r, "running") /\ child[r] = "running"
  /\ child' = [child EXCEPT ![r] = "exited"]
  /\ \E status \in {"completed", "indeterminate"} : Record(d, r, status, "ended")
  /\ UNCHANGED <<mailboxVars, journalVars, approvalVars, runs, claim,
                 daemonVars, raw, demand, submits>>

ShuttingDown(d) == phase[d] \in {"stopping", "draining"}

\* The loop saw _SHUTDOWN before it saw the child gone.
Abort(d, r) ==
  /\ At(d, r, "running") /\ child[r] = "running" /\ ShuttingDown(d)
  /\ child' = [child EXCEPT ![r] = "killed"]
  /\ Record(d, r, "indeterminate", "ended")
  /\ UNCHANGED <<mailboxVars, journalVars, approvalVars, runs, claim,
                 daemonVars, raw, demand, submits>>

\* finally: active_marker.unlink, _ACTIVE.pop
Ended(d, r) ==
  /\ At(d, r, "ended")
  /\ active' = [active EXCEPT ![r] = FALSE]
  /\ Goto(d, r, "persist")
  /\ UNCHANGED <<mailboxVars, request, started, result, finished, approvalVars,
                 childVars, claim, daemonVars, raw, out, demand, submits>>

Journalled(d, r) == [status |-> out[d][r], sha |-> raw[d][r], kind |-> "journal"]

\* Variant: the result is published before FINISHED is durable.
PersistOnly(d, r) ==
  /\ At(d, r, "persist")
  /\ result' = [result EXCEPT ![r] = Journalled(d, r)]
  /\ Goto(d, r, "upload")
  /\ UNCHANGED <<mailboxVars, request, started, active, finished, approvalVars,
                 childVars, claim, daemonVars, raw, out, demand, submits>>

\* _persist_then_publish, first write
Persist(d, r) ==
  /\ At(d, r, "persist")
  /\ result' = [result EXCEPT ![r] = Journalled(d, r)]
  /\ Goto(d, r, "finish")
  /\ UNCHANGED <<mailboxVars, request, started, active, finished, approvalVars,
                 childVars, claim, daemonVars, raw, out, demand, submits>>

\* _persist_then_publish, second write
Finish(d, r) ==
  /\ At(d, r, "finish")
  /\ finished' = [finished EXCEPT ![r] = raw[d][r]]
  /\ Goto(d, r, "upload")
  /\ UNCHANGED <<mailboxVars, request, started, active, result, approvalVars,
                 childVars, claim, daemonVars, raw, out, demand, submits>>

\* A transport or local file error is an exception that ends the thread; the
\* next poll starts over from the journal.  A busy claim and an existing
\* STARTED marker are no errors.
IoError(d, r) ==
  /\ \/ \E label \in {"fetch", "inspect", "admit", "plan", "await", "ended",
                      "persist", "finish"} : At(d, r, label)
     \/ At(d, r, "claim") /\ claim[r] = None
     \/ At(d, r, "start") /\ started[r] = None
  /\ EndWorker(d, r)
  /\ UNCHANGED <<mailboxVars, journalVars, approvalVars, childVars, daemonVars,
                 submits>>

Refusal(d, r) == [status |-> "rejected", sha |-> raw[d][r], kind |-> "refusal"]

\* What the worker's upload puts into results/<r>.json: the journalled result,
\* read from result.json at that moment, or the refusal of _write_upload_delete.
Uploaded(d, r) == IF pc[d][r] = "refuse" THEN Refusal(d, r) ELSE result[r]

Uploading(d, r) == At(d, r, "upload") \/ At(d, r, "refuse")

\* Variant: a failed upload does not keep the request in the mailbox.
UploadIgnored(d, r) ==
  /\ Uploading(d, r)
  /\ answer' \in {answer, [answer EXCEPT ![r] = Uploaded(d, r)]}
  /\ Goto(d, r, "delete")
  /\ UNCHANGED <<mailbox, journalVars, approvalVars, childVars, claim,
                 daemonVars, raw, out, demand, submits>>

Upload(d, r) ==
  /\ Uploading(d, r)
  /\ answer' = [answer EXCEPT ![r] = Uploaded(d, r)]
  /\ Goto(d, r, "delete")
  /\ UNCHANGED <<mailbox, journalVars, approvalVars, childVars, claim,
                 daemonVars, raw, out, demand, submits>>

\* delete_remote, by name: it removes whatever the file holds by now.
Delete(d, r) ==
  /\ At(d, r, "delete")
  /\ mailbox' = [mailbox EXCEPT ![r] = None]
  /\ EndWorker(d, r)
  /\ UNCHANGED <<answer, journalVars, approvalVars, childVars, daemonVars, submits>>

\* rclone fails or times out, and may have taken effect all the same.
TransportError(d, r) ==
  /\ \/ Uploading(d, r)
        /\ answer' \in {answer, [answer EXCEPT ![r] = Uploaded(d, r)]}
        /\ UNCHANGED mailbox
     \/ At(d, r, "delete")
        /\ mailbox' \in {mailbox, [mailbox EXCEPT ![r] = None]}
        /\ UNCHANGED answer
  /\ EndWorker(d, r)
  /\ UNCHANGED <<journalVars, approvalVars, childVars, daemonVars, submits>>

-----------------------------------------------------------------------------
(***************************************************************************)
(* The daemon's main thread.                                               *)
(***************************************************************************)

\* daemon(): take the mailbox lock, then sweep.  Without exclusivity every
\* lock file was replaced since the other daemon last verified it.
Boot(d) ==
  /\ phase[d] = "down"
  /\ Exclusive => \A e \in Daemons : phase[e] = "down"
  /\ phase' = [phase EXCEPT ![d] = "sweep"]
  /\ todo'  = [todo EXCEPT ![d] = Requests]
  /\ UNCHANGED <<mailboxVars, journalVars, approvalVars, childVars, claim,
                 stops, workerVars, submits>>

\* sweep_incomplete_processes, one request directory: it takes no claim.
Sweep(d, r) ==
  /\ phase[d] = "sweep" /\ r \in todo[d]
  /\ todo' = [todo EXCEPT ![d] = @ \ {r}]
  /\ IF started[r] # None /\ finished[r] = None
     THEN child' = Contain(r) /\ active' = [active EXCEPT ![r] = FALSE]
     ELSE UNCHANGED <<child, active>>
  /\ UNCHANGED <<mailboxVars, request, started, result, finished, approvalVars,
                 runs, claim, phase, stops, workerVars, submits>>

EnterLoop(d) ==
  /\ phase[d] = "sweep" /\ todo[d] = {}
  /\ phase' = [phase EXCEPT ![d] = "up"]
  /\ UNCHANGED <<mailboxVars, journalVars, approvalVars, childVars, claim,
                 todo, stops, workerVars, submits>>

\* active_names
Busy(d) == {r \in Requests : pc[d][r] # "idle"}

\* The keys of _ACTIVE, a snapshot of which _signal_shutdown terminates.
Registered(d) == {r \in Requests : pc[d][r] = "running"}

\* One name of the listing: not already active, and below the limit.  The poll
\* loop runs in phase "up"; a signal handled between its _SHUTDOWN test and
\* thread start lets one more worker start before it leaves the loop.
Dispatch(d, r) ==
  /\ phase[d] = "up" \/ (phase[d] = "stopping" /\ todo[d] = {})
  /\ mailbox[r] # None /\ r \notin Busy(d)
  /\ Cardinality(Busy(d)) < MaxActive
  /\ Goto(d, r, "fetch")
  /\ IF phase[d] = "up" THEN UNCHANGED <<phase, todo>>
     ELSE /\ phase' = [phase EXCEPT ![d] = "draining"]
          /\ todo'  = [todo EXCEPT ![d] = Registered(d)]
  /\ UNCHANGED <<mailboxVars, journalVars, approvalVars, childVars, claim,
                 stops, raw, out, demand, submits>>

\* SIGTERM: _signal_shutdown sets _SHUTDOWN and snapshots _ACTIVE.
Shutdown(d) ==
  /\ phase[d] \in {"up", "lost"} /\ stops < MaxStops
  /\ phase' = [phase EXCEPT ![d] = IF @ = "up" THEN "stopping" ELSE "draining"]
  /\ todo'  = [todo EXCEPT ![d] = Registered(d)]
  /\ stops' = stops + 1
  /\ UNCHANGED <<mailboxVars, journalVars, approvalVars, childVars, claim,
                 workerVars, submits>>

\* ... and terminates the process groups of the snapshot one by one.
Signal(d, r) ==
  /\ ShuttingDown(d) /\ r \in todo[d]
  /\ todo'  = [todo EXCEPT ![d] = @ \ {r}]
  /\ child' = [child EXCEPT ![r] = IF @ = "running" THEN "killed" ELSE @]
  /\ UNCHANGED <<mailboxVars, journalVars, approvalVars, runs, claim, phase,
                 stops, workerVars, submits>>

\* The finally block of daemon() calls _signal_shutdown a second time.
LeaveLoop(d) ==
  /\ phase[d] = "stopping" /\ todo[d] = {}
  /\ phase' = [phase EXCEPT ![d] = "draining"]
  /\ todo'  = [todo EXCEPT ![d] = Registered(d)]
  /\ UNCHANGED <<mailboxVars, journalVars, approvalVars, childVars, claim,
                 stops, workerVars, submits>>

\* verify() failed: no new admissions, admitted work runs on.
LoseLock(d) ==
  /\ phase[d] = "up"
  /\ \E e \in Daemons \ {d} : phase[e] # "down"
  /\ phase' = [phase EXCEPT ![d] = "lost"]
  /\ UNCHANGED <<mailboxVars, journalVars, approvalVars, childVars, claim,
                 todo, stops, workerVars, submits>>

\* _drain_workers_before_unlock joined every worker: release the lock, exit.
Exit(d) ==
  /\ phase[d] \in {"draining", "lost"} /\ todo[d] = {} /\ Busy(d) = {}
  /\ phase' = [phase EXCEPT ![d] = "down"]
  /\ UNCHANGED <<mailboxVars, journalVars, approvalVars, childVars, claim,
                 todo, stops, workerVars, submits>>

\* The process dies: threads and flocks vanish, files and children stay.
Crash(d) ==
  /\ phase[d] # "down" /\ stops < MaxStops
  /\ phase' = [phase EXCEPT ![d] = "down"]
  /\ todo'  = [todo EXCEPT ![d] = {}]
  /\ stops' = stops + 1
  /\ pc'  = [pc EXCEPT ![d] = [r \in Requests |-> "idle"]]
  /\ raw' = [raw EXCEPT ![d] = [r \in Requests |-> None]]
  /\ out' = [out EXCEPT ![d] = [r \in Requests |-> None]]
  /\ demand' = [demand EXCEPT ![d] = [r \in Requests |-> None]]
  /\ claim' = [r \in Requests |-> IF claim[r] = d THEN None ELSE claim[r]]
  /\ UNCHANGED <<mailboxVars, journalVars, approvalVars, childVars, submits>>

-----------------------------------------------------------------------------
(***************************************************************************)
(* Everybody else: the client, the operator, the clock and the child.      *)
(***************************************************************************)

\* A client uploads a request, or replaces one that is still in the mailbox.
Submit(r, b) ==
  /\ mailbox[r] # b /\ submits < MaxSubmits
  /\ mailbox' = [mailbox EXCEPT ![r] = b]
  /\ submits' = submits + 1
  /\ UNCHANGED <<answer, journalVars, approvalVars, childVars, claim,
                 daemonVars, workerVars>>

\* approval_helper.decide: any unexpired pending record may be decided, and
\* decided again, because the queue keeps showing it.  The decision repeats the
\* payload of the record.
Decide(r, choice) ==
  /\ pending[r] # None /\ ~pending[r].expired /\ clicks[r] < MaxClicks
  /\ decision' = [decision EXCEPT ![r] = [choice  |-> choice,
                                          payload |-> pending[r].payload]]
  /\ clicks'   = [clicks EXCEPT ![r] = @ + 1]
  /\ grants'   = [grants EXCEPT ![r] = IF choice = "allow"
                                       THEN @ \cup {pending[r].payload} ELSE @]
  /\ UNCHANGED <<mailboxVars, journalVars, pending, childVars, claim,
                 daemonVars, workerVars, submits>>

Expire(r) ==
  /\ pending[r] # None /\ ~pending[r].expired
  /\ pending' = [pending EXCEPT ![r].expired = TRUE]
  /\ UNCHANGED <<mailboxVars, journalVars, decision, clicks, grants,
                 childVars, claim, daemonVars, workerVars, submits>>

ChildExits(r) ==
  /\ child[r] = "running"
  /\ child' = [child EXCEPT ![r] = "exited"]
  /\ UNCHANGED <<mailboxVars, journalVars, approvalVars, runs, claim,
                 daemonVars, workerVars, submits>>

-----------------------------------------------------------------------------
WorkerStep(d, r) ==
  \/ Fetch(d, r)  \/ Claim(d, r)       \/ Inspect(d, r)   \/ Admit(d, r)
  \/ Plan(d, r)   \/ Await(d, r)       \/ Start(d, r)     \/ Spawn(d, r)
  \/ RecordSpawn(d, r) \/ RunRaises(d, r) \/ ChildGone(d, r)
  \/ Deadline(d, r) \/ Abort(d, r)
  \/ Ended(d, r)  \/ Persist(d, r)     \/ Finish(d, r)    \/ Upload(d, r)
  \/ Delete(d, r)

WorkerFault(d, r) == IoError(d, r) \/ TransportError(d, r)

DaemonStep(d) ==
  \/ Boot(d) \/ EnterLoop(d) \/ Shutdown(d) \/ LeaveLoop(d) \/ LoseLock(d)
  \/ Exit(d) \/ Crash(d)
  \/ \E r \in Requests : Sweep(d, r) \/ Dispatch(d, r) \/ Signal(d, r)

Environment ==
  \E r \in Requests :
    \/ \E b \in Bytes : Submit(r, b)
    \/ \E choice \in {"allow", "cancel"} : Decide(r, choice)
    \/ Expire(r) \/ ChildExits(r)

Next ==
  \/ \E d \in Daemons, r \in Requests : WorkerStep(d, r) \/ WorkerFault(d, r)
  \/ \E d \in Daemons : DaemonStep(d)
  \/ Environment

Spec == Init /\ [][Next]_vars

(***************************************************************************)
(* Fairness.  Threads are scheduled; launchd restarts the daemon; approvals *)
(* expire by the clock.  Every poll retries what failed, which helps only   *)
(* if disk and transport errors end at some time.  Clients, operators,      *)
(* signals, crashes and the child's own exit owe nothing: every run has a   *)
(* deadline.                                                               *)
(***************************************************************************)
Fairness ==
  /\ <>[][\A d \in Daemons, r \in Requests : ~WorkerFault(d, r)]_vars
  /\ \A d \in Daemons, r \in Requests :
       /\ WF_vars(WorkerStep(d, r)) /\ SF_vars(Dispatch(d, r))
       /\ WF_vars(Sweep(d, r)) /\ WF_vars(Signal(d, r))
  /\ \A d \in Daemons :
       WF_vars(Boot(d)) /\ WF_vars(EnterLoop(d)) /\ WF_vars(LeaveLoop(d)) /\ WF_vars(Exit(d))
  /\ \A r \in Requests : WF_vars(Expire(r))

FairSpec == Spec /\ Fairness

-----------------------------------------------------------------------------
(***************************************************************************)
(* Properties.                                                             *)
(***************************************************************************)

\* No request is executed twice, whatever crashes, retries and overlapping
\* daemons do: STARTED is created with link(2) and never removed.
AtMostOnce == \A r \in Requests : runs[r] <= 1

\* A terminal result is immutable: once finished.json exists, neither it nor
\* result.json is ever rewritten by a retry, a recovery or a reused id.
TerminalIsFinal ==
  [][\A r \in Requests : finished[r] # None =>
       result'[r] = result[r] /\ finished'[r] = finished[r]]_vars

\* Durable FINISHED precedes publication, and what the client sees as the
\* outcome of its request is exactly the journalled result.
AnswerIsJournalled ==
  \A r \in Requests : (answer[r] # None /\ answer[r].kind = "journal") =>
    answer[r] = result[r] /\ finished[r] = answer[r].sha

\* "rejected: the request did not run": no contents a client sees rejected
\* were ever admitted to execution.
RejectedNeverRan ==
  \A r \in Requests : (answer[r] # None /\ answer[r].status = "rejected") =>
    started[r] # answer[r].sha

\* The bridge deletes a mailbox request only after it answered the bytes its
\* worker fetched, also when an upload or a deletion fails half way: what the
\* client left alone since then is gone only with an answer to it.
AnsweredBeforeDeleted ==
  [][\A r \in Requests : (mailbox[r] # None /\ mailbox'[r] = None) =>
       /\ answer[r] # None
       /\ \E d \in Daemons : pc[d][r] = "delete" /\ answer[r].sha = raw[d][r]]_vars

\* ... and so every deletion answers the very bytes it removes.  (False when the
\* client replaces the request between the fetch and the deletion, by name.)
RemovedIsAnswered ==
  [][\A r \in Requests : (mailbox[r] # None /\ mailbox'[r] = None) =>
       answer[r] # None /\ answer[r].sha = mailbox[r]]_vars

\* What was approved is what is executed.  STARTED is created by a worker whose
\* own plan either needed no operator or demanded a payload that these contents
\* call for and the operator allowed, also when plans change from one attempt
\* to the next, decisions are withdrawn or repeated, and the daemon restarts
\* between the question, the decision and its use.
Approved(d, r) ==
  IF demand[d][r] = None THEN "run" \in Verdicts[raw[d][r]]
  ELSE demand[d][r] \in Verdicts[raw[d][r]] \cap grants[r]

ApprovedBeforeStarted ==
  [][\A r \in Requests : (started[r] = None /\ started'[r] # None) =>
       \E d \in Daemons : /\ pc[d][r] = "start" /\ started'[r] = raw[d][r]
                          /\ Approved(d, r)]_vars

\* active.json is the only record of a process group.  Recovery, the sweep of a
\* second daemon and a run that ends by itself, at its deadline or by a shutdown
\* drop it only when that group runs no longer; what forgets a running group is
\* a run_shell that raised, and that worker will not say "completed".
ContainedBeforeForgotten ==
  [][\A r \in Requests : (active[r] /\ ~active'[r] /\ child'[r] = "running") =>
       \E d \in Daemons : /\ pc[d][r] = "ended" /\ pc'[d][r] = "persist"
                          /\ out[d][r] = "indeterminate"]_vars

\* ... and so nobody ever forgets a running group.  (False when run_shell
\* raises outside its try block: the finally of its caller removes active.json.)
ForgottenIsContained ==
  [][\A r \in Requests : (active[r] /\ ~active'[r]) => child'[r] # "running"]_vars

\* A result says "completed" only if the command ended by itself or at its own
\* deadline: a request the shutdown terminated is reported indeterminate.  (False when
\* the wait sees the child gone before it sees the shutdown.)
CompletedRanToEnd ==
  \A r \in Requests : (finished[r] # None /\ result[r].status = "completed") =>
    child[r] = "exited"

\* Every uploaded request is eventually taken out of the mailbox, which
\* AnsweredBeforeDeleted says happens only with an answer to the fetched bytes.
EventuallyAnswered ==
  \A r \in Requests : mailbox[r] # None ~> mailbox[r] = None

\* A daemon told to stop drains its workers and releases the mailbox.
ShutdownCompletes ==
  \A d \in Daemons : ShuttingDown(d) ~> phase[d] = "down"

(***************************************************************************)
(* The life of a request as RequestLifecycle tells it.                     *)
(***************************************************************************)
Lifecycle == INSTANCE RequestLifecycle WITH
  life    <- [r \in Requests |-> IF finished[r] # None THEN "closed"
                                 ELSE IF started[r] # None THEN "started"
                                 ELSE "open"],
  ran     <- [r \in Requests |-> runs[r] > 0],
  verdict <- [r \in Requests |-> IF finished[r] # None
                                 THEN result[r].status ELSE None],
  told    <- [r \in Requests |-> IF answer[r] # None /\ answer[r].kind = "journal"
                                 THEN answer[r].status ELSE None]

\* The journal implements the abstract request lifecycle.
ImplementsLifecycle == Lifecycle!Spec

=============================================================================
