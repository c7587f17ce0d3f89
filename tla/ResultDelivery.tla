--------------------------- MODULE ResultDelivery ---------------------------
(***************************************************************************)
(* How protocol v2 answers a request at most once and at least once when   *)
(* the watcher may die between any two effects, an upload may fail, land   *)
(* late or not at all, and local files may be damaged or wiped.            *)
(* (app.py: cmd_watch, reconcile_remote_results, process_pending_once with *)
(* one worker, _publish_local_result, the publication markers and the      *)
(* pruning; transport.py: what an upload and a deletion may do.)           *)
(*                                                                         *)
(* The authorities, in order: a publication marker, an authentic result in *)
(* the mailbox, a signed local result.  A request without any is executed. *)
(***************************************************************************)
EXTENDS Naturals, FiniteSets, Sequences, SequencesExt

CONSTANTS
    Names,      \* the request names, in the order a listing is sorted
    Retention,  \* LOCAL_RESULT_RETENTION
    MaxFaults   \* bound: crashes, losses, damages and failing calls

Tx == ToSet(Names)
ASSUME DeliveryAssumption ==
    /\ Names \in Seq(Tx) /\ IsInjective(Names)
    /\ Retention \in Nat \ {0} /\ MaxFaults \in Nat

VARIABLES
    sent, inbox,  \* requests ever sent, requests in the mailbox
    remote,       \* the results of a name in the mailbox, more than one: duplicates
    flying,       \* uploads whose outcome the watcher does not know
    ran,          \* how often a request was executed; its results are numbered so
    local,        \* the local result of a request: [ver, ok]
    order,        \* the names of the local results, oldest first
    fresh,        \* requests whose local result is younger than the grace period
    marker,       \* publication markers: "none", "valid", "invalid"
    reconciled,   \* the startup reconciliation of this process succeeded
    pc,           \* where the watcher is
    bad,          \* requests whose marker turned out to be invalid
    todo, exec,   \* requests to recover from their local result, to execute
    again,        \* the upload under way repeats one of an earlier poll
    made,         \* history: requests with a durable answer nobody damaged
    blind,        \* history: a write was in flight that the watcher cannot wait for
    unread,       \* history: an answer in the mailbox could not be read when needed
    faults

mailbox == <<sent, inbox, remote, flying>>
files   == <<local, order, fresh>>
disk    == <<files, marker>>
memory  == <<reconciled, pc, bad, todo, exec, again>>
history == <<made, blind, unread>>
vars    == <<mailbox, disk, memory, history, ran, faults>>

-----------------------------------------------------------------------------
Place(r) == CHOOSE i \in DOMAIN Names : Names[i] = r
First(S) == CHOOSE r \in S : \A q \in S : Place(r) <= Place(q)

Absent == [ver |-> 0, ok |-> FALSE]     \* there is no local result
Unmarked == {r \in Tx : marker[r] # "valid"}
Answered == {r \in Tx : remote[r] # <<>>}
Kept == {r \in Tx : local[r].ver # 0}
Without(S) == SelectSeq(order, LAMBDA r : r \notin S)
InFlight == {r \in Tx : flying[r] # <<>>}

(* list_files refuses a directory with two files of one name.              *)
Duplicates == {r \in Tx : Len(remote[r]) > 1}
Listable == Duplicates = {}

Fault == faults < MaxFaults /\ faults' = faults + 1
NoFault == UNCHANGED faults
FaultIf(p) == IF p THEN Fault ELSE NoFault

Init ==
    /\ sent = {} /\ inbox = {} /\ remote = [r \in Tx |-> <<>>] /\ flying = [r \in Tx |-> <<>>]
    /\ ran = [r \in Tx |-> 0] /\ local = [r \in Tx |-> Absent] /\ order = <<>> /\ fresh = {}
    /\ marker = [r \in Tx |-> "none"]
    /\ reconciled = FALSE /\ pc = "down" /\ bad = {} /\ todo = {} /\ exec = {} /\ again = FALSE
    /\ made = {} /\ blind = {} /\ unread = {} /\ faults = 0

-----------------------------------------------------------------------------
(* The client and the provider.                                            *)

Send(r) ==
    /\ r \notin sent /\ sent' = sent \cup {r} /\ inbox' = inbox \cup {r}
    /\ UNCHANGED <<remote, flying, disk, memory, history, ran, faults>>

(* A write that is not yet visible creates a file; Drive permits two files *)
(* of one name.                                                            *)
Land(r) ==
    /\ flying[r] # <<>>
    /\ remote' = [remote EXCEPT ![r] = Append(@, Head(flying[r]))]
    /\ flying' = [flying EXCEPT ![r] = Tail(@)]
    /\ UNCHANGED <<sent, inbox, disk, memory, history, ran, faults>>

Vanish(r) ==
    /\ flying[r] # <<>> /\ flying' = [flying EXCEPT ![r] = Tail(@)]
    /\ UNCHANGED <<sent, inbox, remote, disk, memory, history, ran, faults>>

FirstUpload(r) == pc = "upload" /\ ~again /\ r = First(exec)

(* RESULT_RETRY_GRACE_S is longer than a first upload may take and stay    *)
(* invisible.                                                              *)
GraceEnds(r) ==
    /\ r \in fresh /\ flying[r] = <<>> /\ ~FirstUpload(r) /\ fresh' = fresh \ {r}
    /\ UNCHANGED <<mailbox, local, order, marker, memory, history, ran, faults>>

-----------------------------------------------------------------------------
(* What happens to the process and to its files.                           *)

Forget == bad' = {} /\ todo' = {} /\ exec' = {} /\ again' = FALSE

Crash ==
    /\ pc # "down" /\ Fault /\ pc' = "down" /\ Forget
    /\ UNCHANGED <<mailbox, disk, reconciled, history, ran>>

(* The state directory is deleted; keys and scope are configuration.       *)
LoseState ==
    /\ pc = "down" /\ Fault /\ (Kept # {} \/ \E r \in Tx : marker[r] # "none")
    /\ local' = [r \in Tx |-> Absent] /\ order' = <<>> /\ fresh' = {}
    /\ marker' = [r \in Tx |-> "none"]
    /\ made' = {} /\ blind' = blind \cup InFlight
    /\ UNCHANGED <<mailbox, memory, unread, ran>>

DamageResult(r) ==
    /\ pc \in {"down", "idle"} /\ r \in Kept /\ local[r].ok /\ Fault
    /\ local' = [local EXCEPT ![r].ok = FALSE]
    /\ made' = made \ {r} /\ blind' = blind \cup (InFlight \cap {r})
    /\ UNCHANGED <<mailbox, order, fresh, marker, memory, unread, ran>>

DamageMarker(r) ==
    /\ pc \in {"down", "idle"} /\ marker[r] = "valid" /\ Fault
    /\ marker' = [marker EXCEPT ![r] = "invalid"]
    /\ UNCHANGED <<mailbox, files, memory, history, ran>>

-----------------------------------------------------------------------------
(* The watcher starts and reconciles.                                      *)

Start ==
    /\ pc = "down" /\ pc' = "idle" /\ reconciled' = FALSE
    /\ UNCHANGED <<mailbox, disk, bad, todo, exec, again, history, ran, faults>>

(* An invalid marker that is read is moved away.                           *)
Quarantined(S) == [r \in Tx |-> IF r \in S /\ marker[r] = "invalid" THEN "none" ELSE marker[r]]
Marked(S, m) == [r \in Tx |-> IF r \in S THEN "valid" ELSE m[r]]

(* A result whose download fails counts as not authentic: it is Missed.    *)
Reconcile ==
    /\ pc = "idle" /\ ~reconciled
    /\ IF inbox \cap Unmarked = {}
       THEN reconciled' = TRUE /\ NoFault /\ UNCHANGED <<marker, unread>>
       ELSE \E Missed \in SUBSET (inbox \cap Unmarked \cap Answered) :
              /\ Listable /\ reconciled' = TRUE
              /\ marker' = Marked((inbox \cap Unmarked \cap Answered) \ Missed, Quarantined(inbox))
              /\ unread' = unread \cup Missed /\ FaultIf(Missed # {})
    /\ UNCHANGED <<mailbox, files, pc, bad, todo, exec, again, made, blind, ran>>

(* Fail closed: nothing is polled before a reconciliation succeeded.       *)
ReconcileFails ==
    /\ pc = "idle" /\ ~reconciled /\ inbox \cap Unmarked # {} /\ Fault
    /\ marker' = Quarantined(inbox)
    /\ UNCHANGED <<mailbox, files, memory, history, ran>>

-----------------------------------------------------------------------------
(* One poll: classify, recover, execute.                                   *)

(* The oldest acknowledged results beyond the retention are deleted; the   *)
(* pass moves invalid markers away and keeps their results.                *)
Excess == IF Len(order) > Retention THEN Len(order) - Retention ELSE 0
Older(r, S) == {q \in S : \E i, j \in DOMAIN order : i < j /\ order[i] = q /\ order[j] = r}
Prunable(m) == {r \in Kept : m[r] = "valid"}

\* Variant: the oldest results are deleted, acknowledged or not.
PrunedOldest(m) == {r \in Kept : Cardinality(Older(r, Kept)) < Excess}

Pruned(m) == {r \in Prunable(m) : Cardinality(Older(r, Prunable(m))) < Excess}

Passed(m) == {r \in Kept : Cardinality(Older(r, Prunable(m))) < Excess}
Prune(m) ==
    /\ local' = [r \in Tx |-> IF r \in Pruned(m) THEN Absent ELSE local[r]]
    /\ order' = Without(Pruned(m)) /\ fresh' = fresh \ Pruned(m)
    /\ marker' = [r \in Tx |-> IF m[r] = "invalid" /\ r \in Passed(m) THEN "none" ELSE m[r]]

\* Variant: only requests whose local result is still there are retired.
MaintainKept ==
    /\ pc = "idle" /\ reconciled /\ inbox # {} /\ inbox \cap Unmarked = {}
    /\ inbox' = inbox \ (Kept \cap {First(inbox)}) /\ NoFault
    /\ Prune(marker)
    /\ UNCHANGED <<sent, remote, flying, memory, history, ran>>

(* Nothing to do: one acknowledged request is deleted, or its deletion is  *)
(* deferred.                                                               *)
Maintain ==
    /\ pc = "idle" /\ reconciled /\ inbox # {} /\ inbox \cap Unmarked = {}
    /\ \/ inbox' = inbox \ {First(inbox)} /\ NoFault
       \/ inbox' = inbox /\ Fault
    /\ Prune(marker)
    /\ UNCHANGED <<sent, remote, flying, memory, history, ran>>

Classify ==
    /\ pc = "idle" /\ reconciled /\ inbox \cap Unmarked # {}
    /\ bad' = {r \in inbox : marker[r] = "invalid"} /\ marker' = Quarantined(inbox)
    /\ todo' = inbox \cap Unmarked
    /\ pc' = IF bad' = {} THEN "recover" ELSE "repair"
    /\ UNCHANGED <<mailbox, files, reconciled, exec, again, history, ran, faults>>

Repair ==
    /\ pc = "repair" /\ Listable
    /\ \E Missed \in SUBSET (bad \cap Answered) :
         LET found == (bad \cap Answered) \ Missed IN
         /\ marker' = Marked(found, marker) /\ unread' = unread \cup Missed
         /\ todo' = todo \ found
         /\ FaultIf(Missed # {})
    /\ bad' = {} /\ pc' = "recover"
    /\ UNCHANGED <<mailbox, files, reconciled, exec, again, made, blind, ran>>

Abort == pc' = "idle" /\ Forget

(* The marker is gone and the mailbox was not looked at.                   *)
RepairFails ==
    /\ pc = "repair" /\ FaultIf(Listable) /\ Abort /\ unread' = unread \cup (bad \cap Answered)
    /\ UNCHANGED <<mailbox, disk, reconciled, made, blind, ran>>

-----------------------------------------------------------------------------
(* _recover_durable_local_results, _publish_local_result.                  *)

AtHead(r) == pc = "recover" /\ todo # {} /\ r = First(todo)

NoCopy(r) ==
    /\ AtHead(r) /\ r \notin Kept
    /\ exec' = exec \cup {r} /\ todo' = todo \ {r}
    /\ UNCHANGED <<mailbox, disk, reconciled, pc, bad, again, history, ran, faults>>

RecoverFails(r) ==
    /\ AtHead(r) /\ r \in Kept /\ FaultIf(Listable) /\ Abort
    /\ UNCHANGED <<mailbox, disk, reconciled, history, ran>>

(* An answer that is already in the mailbox is only acknowledged.          *)
Acknowledge(r) ==
    /\ AtHead(r) /\ r \in Kept /\ Listable /\ r \in Answered
    /\ pc' = "mark" /\ again' = TRUE
    /\ UNCHANGED <<mailbox, disk, reconciled, bad, todo, exec, history, ran, faults>>

Usable(r) == AtHead(r) /\ r \in Kept /\ Listable /\ r \notin Answered

Quarantine(r) ==
    /\ Usable(r) /\ ~local[r].ok
    /\ local' = [local EXCEPT ![r] = Absent] /\ order' = Without({r}) /\ fresh' = fresh \ {r}
    /\ exec' = exec \cup {r} /\ todo' = todo \ {r}
    /\ UNCHANGED <<mailbox, marker, reconciled, pc, bad, again, history, ran, faults>>

\* Variant: a young result is uploaded again at once.
SkipGrace(r) ==
    /\ Usable(r) /\ local[r].ok /\ r \in fresh /\ pc' = "upload" /\ again' = TRUE
    /\ UNCHANGED <<mailbox, disk, reconciled, bad, todo, exec, history, ran, faults>>

WaitGrace(r) ==
    /\ Usable(r) /\ local[r].ok /\ r \in fresh /\ todo' = todo \ {r}
    /\ UNCHANGED <<mailbox, disk, reconciled, pc, bad, exec, again, history, ran, faults>>

Republish(r) ==
    /\ Usable(r) /\ local[r].ok /\ r \notin fresh /\ pc' = "upload" /\ again' = TRUE
    /\ UNCHANGED <<mailbox, disk, reconciled, bad, todo, exec, history, ran, faults>>

Recovered ==
    /\ pc = "recover" /\ todo = {}
    /\ pc' = IF exec = {} THEN "idle" ELSE "execute"
    /\ UNCHANGED <<mailbox, disk, reconciled, bad, todo, exec, again, history, ran, faults>>

-----------------------------------------------------------------------------
(* Execution, and the order of effects that follows it.                    *)

SkipDownload ==
    /\ pc = "execute" /\ Fault /\ exec' = exec \ {First(exec)}
    /\ pc' = IF exec' = {} THEN "idle" ELSE "execute"
    /\ UNCHANGED <<mailbox, disk, reconciled, bad, todo, again, history, ran>>

Run ==
    /\ pc = "execute" /\ pc' = "ran"
    /\ ran' = [ran EXCEPT ![First(exec)] = @ + 1]
    /\ UNCHANGED <<mailbox, disk, reconciled, bad, todo, exec, again, history, faults>>

\* Variant: the marker is written together with the local result.
PersistMarked ==
    /\ pc = "ran" /\ pc' = "upload" /\ again' = FALSE
    /\ LET r == First(exec) IN
       /\ local' = [local EXCEPT ![r] = [ver |-> ran[r], ok |-> TRUE]]
       /\ order' = Append(Without({r}), r)
       /\ fresh' = fresh \cup {r} /\ made' = made \cup {r}
       /\ marker' = [marker EXCEPT ![r] = "valid"]
    /\ UNCHANGED <<mailbox, reconciled, bad, todo, exec, blind, unread, ran, faults>>

Persist ==
    /\ pc = "ran" /\ pc' = "upload" /\ again' = FALSE
    /\ LET r == First(exec) IN
       /\ local' = [local EXCEPT ![r] = [ver |-> ran[r], ok |-> TRUE]]
       /\ order' = Append(Without({r}), r)
       /\ fresh' = fresh \cup {r} /\ made' = made \cup {r}
    /\ UNCHANGED <<mailbox, marker, reconciled, bad, todo, exec, blind, unread, ran, faults>>

PersistFails ==
    /\ pc = "ran" /\ Fault /\ Abort
    /\ UNCHANGED <<mailbox, disk, reconciled, history, ran>>

(* The request whose result is on its way.                                 *)
Current == First(IF again THEN todo ELSE exec)

(* copyto replaces a visible file.                                         *)
Upload ==
    /\ pc = "upload" /\ pc' = "mark"
    /\ remote' = [remote EXCEPT ![Current] =
                    IF @ = <<>> THEN <<local[Current].ver>> ELSE [@ EXCEPT ![1] = local[Current].ver]]
    /\ UNCHANGED <<sent, inbox, flying, disk, reconciled, bad, todo, exec, again, history, ran, faults>>

UploadFails ==
    /\ pc = "upload" /\ Fault /\ Abort
    /\ UNCHANGED <<mailbox, disk, reconciled, history, ran>>

(* "write outcome is unknown": it may land later.  Only a first upload is  *)
(* covered by the grace period, which starts with the local result.        *)
UploadAmbiguous ==
    /\ pc = "upload" /\ Fault /\ Abort
    /\ flying' = [flying EXCEPT ![Current] = Append(@, local[Current].ver)]
    /\ blind' = IF Current \in fresh THEN blind ELSE blind \cup {Current}
    /\ UNCHANGED <<sent, inbox, remote, disk, reconciled, made, unread, ran>>

Mark ==
    /\ pc = "mark" /\ pc' = "delete"
    /\ marker' = [marker EXCEPT ![Current] = "valid"]
    /\ UNCHANGED <<mailbox, files, reconciled, bad, todo, exec, again, history, ran, faults>>

(* Deletion is best effort; then the local results are pruned.             *)
Delete ==
    /\ pc = "delete"
    /\ \/ inbox' = inbox \ {Current} /\ NoFault
       \/ inbox' = inbox /\ Fault
    /\ Prune(marker)
    /\ IF again THEN todo' = todo \ {Current} /\ pc' = "recover" /\ UNCHANGED exec
       ELSE exec' = exec \ {Current} /\ pc' = (IF exec' = {} THEN "idle" ELSE "execute") /\ UNCHANGED todo
    /\ again' = FALSE
    /\ UNCHANGED <<sent, remote, flying, reconciled, bad, history, ran>>

-----------------------------------------------------------------------------
Watcher ==
    \/ Start \/ Reconcile \/ ReconcileFails \/ Maintain \/ Classify \/ Repair \/ RepairFails
    \/ \E r \in Tx : \/ NoCopy(r) \/ RecoverFails(r) \/ Acknowledge(r) \/ Quarantine(r)
                     \/ WaitGrace(r) \/ Republish(r)
    \/ Recovered \/ SkipDownload \/ Run \/ Persist \/ PersistFails
    \/ Upload \/ UploadFails \/ UploadAmbiguous \/ Mark \/ Delete

Next ==
    \/ \E r \in Tx : Send(r) \/ Land(r) \/ Vanish(r) \/ GraceEnds(r) \/ DamageResult(r) \/ DamageMarker(r)
    \/ Crash \/ LoseState
    \/ Watcher

(* launchd restarts the watcher, the watcher does not pause for good, a    *)
(* write lands or is lost, and time passes.                                *)
Fairness ==
    /\ WF_vars(Watcher)
    /\ \A r \in Tx : WF_vars(GraceEnds(r)) /\ WF_vars(Land(r) \/ Vanish(r))

Spec == Init /\ [][Next]_vars
FairSpec == Spec /\ Fairness

-----------------------------------------------------------------------------
TypeOK ==
    /\ inbox \subseteq sent /\ sent \subseteq Tx
    /\ \A r \in Tx : Len(remote[r]) <= MaxFaults + 1 /\ Len(flying[r]) <= MaxFaults
    /\ \A r \in Tx : local[r].ver \in 0 .. ran[r]
    /\ ToSet(order) = Kept /\ IsInjective(order) /\ fresh \subseteq Kept
    /\ pc \in {"down", "idle", "repair", "recover", "execute", "ran", "upload", "mark", "delete"}

(* A request leaves the mailbox only when its result is there.  (Order in  *)
(* _publish_and_cleanup_result and in _idle_acknowledgement_maintenance.)  *)
DeletedIsAnswered == sent \ inbox \subseteq Answered

(* A result that was made durable is in the mailbox or still on disk: no   *)
(* crash, failed upload or pruning loses the only copy.                    *)
AnswerSurvives == \A r \in made : r \in Answered \/ (r \in Kept /\ local[r].ok)

(* An answer a client can read stands: the request is not executed again   *)
(* and the answer does not change, after crashes, pruning, damaged markers *)
(* or the loss of the state directory, unless it could not be read when    *)
(* the marker was missing or an upload other than the first one was left   *)
(* in flight.                                                              *)
AnswerStands ==
    [][\A r \in Answered : r \notin unread \cup blind => ran'[r] = ran[r] /\ remote'[r] = remote[r]]_vars

(* Retries never leave two results of one name.  (False: a republication   *)
(* is repeated without a grace period of its own.)                         *)
OneRemoteResult == Listable

(* Every request is answered and then leaves the mailbox, if no duplicate  *)
(* stops the listings.                                                     *)
EventuallyRetired == \A r \in Tx : r \in inbox ~> (r \notin inbox \/ ~Listable)
=============================================================================
