-------------------------- MODULE LogicalOperations --------------------------
(***************************************************************************)
(* Logical operations of the Local Executor Bridge (process_one in         *)
(* shell_bridge/bridge.py): a client may send the same operation_id under  *)
(* several transport ids, late, twice or after a crash, and the bridge is  *)
(* to execute it once.  The first transport id is bound to the operation   *)
(* by a write-ahead record, admitted.json; every other one gets a copy of  *)
(* the original's verified verdict.                                        *)
(*                                                                         *)
(* The per-request journal below is the one of RequestJournal, without the *)
(* approval, the process group and the second daemon that module covers.   *)
(***************************************************************************)
EXTENDS Naturals, FiniteSets

CONSTANTS
  Ids,        \* transport ids: requests/<id>.json
  Contents,   \* the bytes a client may upload under a transport id
  Asks,       \* Asks[c]: the command, cwd, stdin, timeout and scope in c
  Ops,        \* operation ids
  OpOf,       \* OpOf[c]: the operation_id in c, or None
  Plans,      \* what resolve_write_plan may answer as configuration and repository stand
  Broken,     \* the member of Plans for: validation or resolve_write_plan raises now
  None,       \* an absent file
  MaxSubmits, \* bound: uploads by clients
  MaxFailures, \* bound: deaths of the daemon, disk and transport errors
  MaxChanges  \* bound: changes of the configuration or the repository

ASSUME ConstantsAssumption ==
  /\ OpOf \in [Contents -> Ops \cup {None}]
  /\ None \notin Ids \cup Contents \cup Ops
  /\ DOMAIN Asks = Contents
  /\ Plans \ {Broken} # {}
  /\ {MaxSubmits, MaxFailures, MaxChanges} \subseteq Nat

VARIABLES
  mailbox,   \* mailbox[t]: contents of requests/<t>.json on the Drive
  answer,    \* answer[t]: results/<t>.json on the Drive
  admitted,  \* admitted[o]: operations/<o>/admitted.json
  request, started, result, finished,   \* the journal of t
  plan,      \* what resolve_write_plan answers now
  lock,      \* lock[o]: the id whose worker holds operations/<o>/admission.lock
  pc, raw, digest, out,   \* the worker of t: label, bytes, digest, envelope
  ran,       \* ran[t]: the contents a shell was spawned for under t (history)
  bypassed,  \* ids that ran an operation without its admission (history)
  submits, failures, changes   \* counters of the bounds

mailVars    == <<mailbox, answer>>
journalVars == <<request, started, result, finished>>
historyVars == <<ran, bypassed>>
boundVars   == <<submits, failures, changes>>
vars == <<mailVars, admitted, journalVars, plan, lock, pc, raw, digest, out, historyVars,
          boundVars>>

Statuses == {"completed", "rejected", "indeterminate"}

\* "own": the verdict of the request itself; "replayed": a copy of the
\* original's; "refusal": a result uploaded without touching the journal.
Result == [status : Statuses, sha : Contents, kind : {"own", "replayed", "refusal"}]

\* canonical_operation_payload: what is asked for and with which authority.
Digest == {Asks[c] : c \in Contents} \X (Plans \ {Broken})

Admission == [digest : Digest, original : Ids]

Labels == {"idle", "lock", "decide", "record", "inspect", "admit", "plan",
           "start", "spawn", "running", "persist", "finish", "upload", "delete"}

\* An absent file is no data of the program.
ASSUME MarksAssumption == None \notin Result \cup Admission \cup Digest

TypeOK ==
  /\ mailbox  \in [Ids -> Contents \cup {None}]
  /\ answer   \in [Ids -> Result \cup {None}]
  /\ admitted \in [Ops -> Admission \cup {None}]
  /\ request  \in [Ids -> Contents \cup {None}]
  /\ started  \in [Ids -> Contents \cup {None}]
  /\ result   \in [Ids -> Result \cup {None}]
  /\ finished \in [Ids -> Contents \cup {None}]
  /\ plan     \in Plans
  /\ lock     \in [Ops -> Ids \cup {None}]
  /\ pc       \in [Ids -> Labels]
  /\ raw      \in [Ids -> Contents \cup {None}]
  /\ digest   \in [Ids -> Digest \cup {None}]
  /\ out      \in [Ids -> Result \cup {None}]
  /\ ran      \in [Ids -> Contents \cup {None}]
  /\ bypassed \subseteq Ids
  /\ {submits, failures, changes} \subseteq Nat

Init ==
  /\ mailbox  = [t \in Ids |-> None]  /\ answer  = [t \in Ids |-> None]
  /\ admitted = [o \in Ops |-> None]  /\ lock    = [o \in Ops |-> None]
  /\ request  = [t \in Ids |-> None]  /\ started  = [t \in Ids |-> None]
  /\ result   = [t \in Ids |-> None]  /\ finished = [t \in Ids |-> None]
  /\ plan \in Plans \ {Broken}
  /\ pc  = [t \in Ids |-> "idle"]  /\ raw = [t \in Ids |-> None]
  /\ digest = [t \in Ids |-> None] /\ out = [t \in Ids |-> None]
  /\ ran = [t \in Ids |-> None] /\ bypassed = {}
  /\ submits = 0 /\ failures = 0 /\ changes = 0

-----------------------------------------------------------------------------
Goto(t, label) == pc' = [pc EXCEPT ![t] = label]

EndWorkerKeepingLock(t) ==
  /\ pc'     = [pc EXCEPT ![t] = "idle"]
  /\ raw'    = [raw EXCEPT ![t] = None]
  /\ digest' = [digest EXCEPT ![t] = None]
  /\ out'    = [out EXCEPT ![t] = None]
  /\ UNCHANGED lock

\* The worker's thread ends; closing the file releases admission.lock.
EndWorker(t) ==
  /\ pc'     = [pc EXCEPT ![t] = "idle"]
  /\ raw'    = [raw EXCEPT ![t] = None]
  /\ digest' = [digest EXCEPT ![t] = None]
  /\ out'    = [out EXCEPT ![t] = None]
  /\ lock'   = [o \in Ops |-> IF lock[o] = t THEN None ELSE lock[o]]

Envelope(t, status, kind) == [status |-> status, sha |-> raw[t], kind |-> kind]

\* Record: persist this envelope; Refuse: upload it without persisting it.
Record(t, status, kind) ==
  /\ out' = [out EXCEPT ![t] = Envelope(t, status, kind)]
  /\ Goto(t, "persist")

Refuse(t) ==
  /\ out' = [out EXCEPT ![t] = Envelope(t, "rejected", "refusal")]
  /\ Goto(t, "upload")

\* _publish_stored
Publish(t) == Goto(t, "upload") /\ UNCHANGED out

\* The daemon's listing starts a worker for t, which fetches the bytes.  Without
\* an operation_id, or when validation or the digest raises at this moment, the
\* request takes the per-request path and no lock.
Fetch(t) ==
  /\ pc[t] = "idle" /\ mailbox[t] # None
  /\ raw' = [raw EXCEPT ![t] = mailbox[t]]
  /\ IF OpOf[mailbox[t]] = None \/ plan = Broken
     THEN Goto(t, "inspect") /\ UNCHANGED digest
     ELSE /\ Goto(t, "lock")
          /\ digest' = [digest EXCEPT ![t] = <<Asks[mailbox[t]], plan>>]
  /\ UNCHANGED <<mailVars, admitted, journalVars, plan, lock, out, historyVars, boundVars>>

LockShared(t) ==
  /\ pc[t] = "lock"
  /\ lock' = [lock EXCEPT ![OpOf[raw[t]]] = t]
  /\ Goto(t, "decide")
  /\ UNCHANGED <<mailVars, admitted, journalVars, plan, raw, digest, out,
                 historyVars, boundVars>>

\* flock(LOCK_EX) on operations/<o>/admission.lock
Lock(t) ==
  /\ pc[t] = "lock"
  /\ LET o == OpOf[raw[t]] IN
       lock[o] = None /\ lock' = [lock EXCEPT ![o] = t]
  /\ Goto(t, "decide")
  /\ UNCHANGED <<mailVars, admitted, journalVars, plan, raw, digest, out,
                 historyVars, boundVars>>

Deciding(t) == pc[t] = "decide"

FirstSeen(t) ==
  /\ Deciding(t) /\ admitted[OpOf[raw[t]]] = None
  /\ Goto(t, "record")
  /\ UNCHANGED <<mailVars, admitted, journalVars, plan, lock, raw, digest, out, historyVars,
                 boundVars>>

\* atomic_write(admitted): the first transport id becomes the original.
AdmitOperation(t) ==
  /\ pc[t] = "record"
  /\ admitted' = [admitted EXCEPT ![OpOf[raw[t]]] =
                    [digest |-> digest[t], original |-> t]]
  /\ Goto(t, "inspect")
  /\ UNCHANGED <<mailVars, journalVars, plan, lock, raw, digest, out,
                 historyVars, boundVars>>

\* _verified_logical_original: request, markers and result of the original
\* agree, the request is of this operation, and the digest recomputed under the
\* plan of this moment is the admitted one.
Verified(u, o, expected) ==
  /\ request[u] # None /\ finished[u] # None /\ result[u] # None
  /\ plan # Broken /\ <<Asks[request[u]], plan>> = expected /\ OpOf[request[u]] = o
  /\ result[u].sha = request[u] /\ finished[u] = request[u]
  /\ started[u] \in {None, request[u]}
  /\ result[u].status = "completed" => started[u] # None

\* The original transport id comes back: publish its verified verdict, recover
\* STARTED by the per-request path, close an admission that left nothing
\* behind.  Whatever else is on disk needs a human: the worker returns.
RecoverOriginal(t) ==
  /\ Deciding(t)
  /\ LET entry == admitted[OpOf[raw[t]]]
         empty == result[t] = None /\ finished[t] = None
     IN  /\ entry # None /\ entry.digest = digest[t] /\ entry.original = t
         /\ \/ /\ result[t] # None /\ finished[t] # None
               /\ Verified(t, OpOf[raw[t]], digest[t]) /\ request[t] = raw[t]
               /\ Publish(t) /\ UNCHANGED <<request, raw, digest, lock>>
            \/ /\ empty /\ started[t] # None
               /\ Goto(t, "inspect") /\ UNCHANGED <<request, raw, digest, out, lock>>
            \/ /\ empty /\ started[t] = None /\ request[t] \in {None, raw[t]}
               /\ request' = [request EXCEPT ![t] = raw[t]]
               /\ Record(t, "indeterminate", "own") /\ UNCHANGED <<raw, digest, lock>>
            \/ /\ \/ empty /\ started[t] = None /\ request[t] \notin {None, raw[t]}
                  \/ ~empty /\ (result[t] = None \/ finished[t] = None)
                  \/ ~empty /\ ~(Verified(t, OpOf[raw[t]], digest[t]) /\ request[t] = raw[t])
               /\ EndWorker(t) /\ UNCHANGED request
  /\ UNCHANGED <<mailVars, admitted, started, result, finished, plan, historyVars, boundVars>>

ToldUnverified(t, entry) ==
  IF entry.digest # digest[t] THEN Envelope(t, "rejected", "own")
  ELSE IF result[entry.original] # None
       THEN Envelope(t, result[entry.original].status, "replayed")
       ELSE Envelope(t, "indeterminate", "own")

\* What another transport id of the operation is told.
Told(t, entry) ==
  IF entry.digest # digest[t] THEN Envelope(t, "rejected", "own")
  ELSE IF Verified(entry.original, OpOf[raw[t]], digest[t])
       THEN Envelope(t, result[entry.original].status, "replayed")
       ELSE Envelope(t, "indeterminate", "own")

\* Any other transport id, or other contents: copy the verdict, refuse a
\* conflict, never execute.  The receipts t already has are kept.
Replay(t) ==
  /\ Deciding(t)
  /\ LET entry == admitted[OpOf[raw[t]]]
         empty == result[t] = None /\ finished[t] = None
     IN  /\ entry # None
         /\ \/ /\ entry.digest # digest[t] /\ entry.original = t
               /\ Refuse(t) /\ UNCHANGED <<raw, digest, lock>>
            \/ /\ entry.original # t
               /\ \/ /\ result[t] # None /\ finished[t] = raw[t]
                     /\ Publish(t) /\ UNCHANGED <<raw, digest, lock>>
                  \/ /\ result[t] # None /\ finished[t] \notin {None, raw[t]}
                     /\ Refuse(t) /\ UNCHANGED <<raw, digest, lock>>
                  \/ /\ ~empty /\ (result[t] = None \/ finished[t] = None)
                     /\ EndWorker(t)
                  \/ /\ empty /\ started[t] # None
                     /\ Goto(t, "inspect") /\ UNCHANGED <<raw, digest, out, lock>>
                  \/ /\ empty /\ started[t] = None /\ request[t] \notin {None, raw[t]}
                     /\ Refuse(t) /\ UNCHANGED <<raw, digest, lock>>
                  \/ /\ empty /\ started[t] = None /\ request[t] \in {None, raw[t]}
                     /\ out' = [out EXCEPT ![t] = Told(t, entry)]
                     /\ Goto(t, "persist") /\ UNCHANGED <<raw, digest, lock>>
  /\ UNCHANGED <<mailVars, admitted, journalVars, plan, historyVars, boundVars>>

-----------------------------------------------------------------------------
(***************************************************************************)
(* _process_one_request: the per-request journal.                          *)
(***************************************************************************)
PriorSha(t) == IF started[t] # None THEN started[t] ELSE request[t]

Inspect(t) ==
  /\ pc[t] = "inspect"
  /\ IF PriorSha(t) \notin {None, raw[t]} THEN Refuse(t)
     ELSE IF finished[t] # None /\ result[t] # None THEN Publish(t)
     ELSE IF started[t] # None /\ finished[t] = None THEN Record(t, "indeterminate", "own")
     ELSE Goto(t, "admit") /\ UNCHANGED out
  /\ UNCHANGED <<mailVars, admitted, journalVars, plan, lock, raw, digest,
                 historyVars, boundVars>>

Admit(t) ==
  /\ pc[t] = "admit"
  /\ request' = [request EXCEPT ![t] = raw[t]]
  /\ Goto(t, "plan")
  /\ UNCHANGED <<mailVars, admitted, started, result, finished, plan, lock, raw,
                 digest, out, historyVars, boundVars>>

\* Validation, policy, resolve_write_plan and the operator decide once more.
Plan(t) ==
  /\ pc[t] = "plan"
  /\ \/ Record(t, "rejected", "own")
     \/ plan # Broken /\ Goto(t, "start") /\ UNCHANGED out
  /\ UNCHANGED <<mailVars, admitted, journalVars, plan, lock, raw, digest,
                 historyVars, boundVars>>

Start(t) ==
  /\ pc[t] = "start"
  /\ IF started[t] = None
     THEN /\ started' = [started EXCEPT ![t] = raw[t]]
          /\ Goto(t, "spawn") /\ UNCHANGED <<raw, digest, out, lock>>
     ELSE EndWorker(t) /\ UNCHANGED started
  /\ UNCHANGED <<mailVars, admitted, request, result, finished, plan, historyVars, boundVars>>

\* Popen succeeds, or raises and nothing runs.  A worker without a digest runs
\* whatever the admission of the operation says.
Spawn(t) ==
  /\ pc[t] = "spawn"
  /\ \/ /\ ran' = [ran EXCEPT ![t] = raw[t]]
        /\ bypassed' = IF digest[t] = None /\ OpOf[raw[t]] # None
                       THEN bypassed \cup {t} ELSE bypassed
        /\ Goto(t, "running") /\ UNCHANGED out
     \/ Record(t, "indeterminate", "own") /\ UNCHANGED historyVars
  /\ UNCHANGED <<mailVars, admitted, journalVars, plan, lock, raw, digest, boundVars>>

Ended(t) ==
  /\ pc[t] = "running"
  /\ \E status \in {"completed", "indeterminate"} : Record(t, status, "own")
  /\ UNCHANGED <<mailVars, admitted, journalVars, plan, lock, raw, digest,
                 historyVars, boundVars>>

Persist(t) ==
  /\ pc[t] = "persist"
  /\ result' = [result EXCEPT ![t] = out[t]]
  /\ Goto(t, "finish")
  /\ UNCHANGED <<mailVars, admitted, request, started, finished, plan, lock, raw,
                 digest, out, historyVars, boundVars>>

Finish(t) ==
  /\ pc[t] = "finish"
  /\ finished' = [finished EXCEPT ![t] = raw[t]]
  /\ Goto(t, "upload")
  /\ UNCHANGED <<mailVars, admitted, request, started, result, plan, lock, raw,
                 digest, out, historyVars, boundVars>>

Upload(t) ==
  /\ pc[t] = "upload"
  /\ answer' = [answer EXCEPT ![t] =
       IF out[t] # None /\ out[t].kind = "refusal" THEN out[t] ELSE result[t]]
  /\ Goto(t, "delete")
  /\ UNCHANGED <<mailbox, admitted, journalVars, plan, lock, raw, digest, out, historyVars,
                 boundVars>>

Delete(t) ==
  /\ pc[t] = "delete"
  /\ mailbox' = [mailbox EXCEPT ![t] = None]
  /\ EndWorker(t)
  /\ UNCHANGED <<answer, admitted, journalVars, plan, historyVars, boundVars>>

\* An error before any effect of the step: the thread ends, the next poll retries.
Fault(t) ==
  /\ pc[t] \notin {"idle", "lock", "spawn", "running"} /\ failures < MaxFailures
  /\ failures' = failures + 1
  /\ EndWorker(t)
  /\ UNCHANGED <<mailVars, admitted, journalVars, plan, historyVars, submits, changes>>

\* The daemon dies and is restarted: threads and flocks vanish, files stay.
Crash ==
  /\ failures < MaxFailures
  /\ failures' = failures + 1
  /\ pc # [t \in Ids |-> "idle"]
  /\ pc' = [t \in Ids |-> "idle"] /\ raw' = [t \in Ids |-> None]
  /\ digest' = [t \in Ids |-> None] /\ out' = [t \in Ids |-> None]
  /\ lock' = [o \in Ops |-> None]
  /\ UNCHANGED <<mailVars, admitted, journalVars, plan, historyVars, submits, changes>>

-----------------------------------------------------------------------------
\* A client uploads bytes, over the ones already there if it likes.
Submit(t, c) ==
  /\ mailbox[t] # c /\ submits < MaxSubmits
  /\ mailbox' = [mailbox EXCEPT ![t] = c]
  /\ submits' = submits + 1
  /\ UNCHANGED <<answer, admitted, journalVars, plan, lock, pc, raw, digest, out, historyVars,
                 failures, changes>>

\* Configuration, helpers or the repository change under the daemon.
Reconfigure(p) ==
  /\ p # plan /\ changes < MaxChanges
  /\ plan' = p /\ changes' = changes + 1
  /\ UNCHANGED <<mailVars, admitted, journalVars, lock, pc, raw, digest, out, historyVars,
                 submits, failures>>

WorkerStep(t) ==
  \/ Fetch(t) \/ Lock(t) \/ FirstSeen(t) \/ AdmitOperation(t) \/ RecoverOriginal(t)
  \/ Replay(t) \/ Inspect(t) \/ Admit(t) \/ Plan(t) \/ Start(t) \/ Spawn(t)
  \/ Ended(t) \/ Persist(t) \/ Finish(t) \/ Upload(t) \/ Delete(t)

Next ==
  \/ \E t \in Ids : WorkerStep(t) \/ Fault(t)
  \/ \E t \in Ids, c \in Contents : Submit(t, c)
  \/ \E p \in Plans : Reconfigure(p)
  \/ Crash

\* Threads are scheduled; flock wakes a waiter whenever the lock is released.
Fairness ==
  \A t \in Ids : WF_vars(WorkerStep(t)) /\ SF_vars(Lock(t))

Spec == Init /\ [][Next]_vars /\ Fairness

-----------------------------------------------------------------------------
\* An operation is executed once, under whichever transport ids it arrives: of
\* two ids that ran it, one was fetched while the digest could not be computed,
\* the moment in which process_one falls back to the per-request path.
OneRunPerOperation ==
  \A t, u \in Ids : (t # u /\ ran[t] # None /\ ran[u] # None /\ OpOf[ran[t]] # None
                     /\ OpOf[ran[t]] = OpOf[ran[u]]) => bypassed \cap {t, u} # {}

\* "Deduplicate logical operations across different late-arriving Drive IDs".
\* (False: the fallback runs the operation a second time.)
NeverRunTwice ==
  \A t, u \in Ids : (ran[t] # None /\ ran[u] # None /\ OpOf[ran[t]] # None
                     /\ OpOf[ran[t]] = OpOf[ran[u]]) => t = u

\* A replayed verdict is the durable verdict of the admitted original, so a
\* replayed "completed" stands for a shell that did run.
ReplayTellsOriginal ==
  \A t \in Ids : (result[t] # None /\ result[t].kind = "replayed") =>
    LET entry == admitted[OpOf[result[t].sha]] IN
      /\ entry # None /\ entry.original # t
      /\ finished[entry.original] # None
      /\ result[entry.original].status = result[t].status
      /\ result[t].status = "completed" =>
           ran[entry.original] # None /\ Asks[ran[entry.original]] = Asks[result[t].sha]

\* "rejected: the request did not run".  (False after a change of the plan.)
RejectedNeverRan ==
  \A t \in Ids : (answer[t] # None /\ answer[t].status = "rejected") =>
    ran[t] # answer[t].sha

\* "Same request ID + different bytes is always rejected": what a client is
\* told about the bytes it uploaded, and did not replace meanwhile, is about those
\* bytes.  (False for an id that only ever received a replayed verdict.)
AnswersItsBytes ==
  [][\A t \in Ids : (mailbox[t] # None /\ mailbox[t] = raw[t] /\ mailbox'[t] = None) =>
       answer[t] # None /\ answer[t].sha = mailbox[t]]_vars

\* What process_one returns from without an answer, now and at every later poll:
\* half of a terminal pair or, for the original, receipts that do not agree with
\* one another, the admission and the bytes in the mailbox.
LeftToHuman(t) ==
  LET b == mailbox[t]
      entry == admitted[OpOf[b]]
      half  == (result[t] = None) # (finished[t] = None)
  IN  /\ b # None /\ OpOf[b] # None /\ plan # Broken /\ entry # None
      /\ \/ entry.original # t /\ half
         \/ /\ entry.original = t /\ entry.digest = <<Asks[b], plan>>
            /\ \/ half
               \/ /\ result[t] # None /\ finished[t] # None
                  /\ ~(Verified(t, OpOf[b], entry.digest) /\ request[t] = b)
               \/ /\ result[t] = None /\ finished[t] = None /\ started[t] = None
                  /\ request[t] \notin {None, b}

\* Every uploaded request is answered and deleted, unless its receipts are left
\* to a human for good.
EventuallyAnswered ==
  \A t \in Ids : mailbox[t] # None ~>
    ((mailbox[t] = None /\ answer[t] # None) \/ []LeftToHuman(t))
=============================================================================
