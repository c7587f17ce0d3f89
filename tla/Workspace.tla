------------------------------ MODULE Workspace ------------------------------
(***************************************************************************)
(* Durable Git workspaces (shell_bridge/workspace.py).  A job is a         *)
(* worktree on a branch of its own, published to the remote as             *)
(* checkpoints and squashed onto the target branch once.  Every command is *)
(* a process; several run at once on one job file, one receipt, one        *)
(* worktree and one remote, and any of them may die between two effects.   *)
(*                                                                         *)
(* A commit of a job is told by the edits it holds and by how much of the  *)
(* target it has merged.  The target is never rewritten by anyone.         *)
(***************************************************************************)
EXTENDS Naturals, Sequences, FiniteSets

CONSTANTS
  Jobs,
  Workers,     \* processes running a workspace command
  Overlap,     \* Overlap[j]: whose changes touch the paths or the resource of j
  Outside,     \* whoever else pushes to the target
  None,        \* an absent file, branch or lock owner
  Torn,        \* a receipt created and not yet written
  MaxEdits,    \* bound: edits of a job
  MaxTarget,   \* bound: commits on the target
  MaxCommands, \* bound: commands given
  MaxFailures  \* bound: processes that die

ASSUME ConstantsAssumption ==
  /\ Overlap \in [Jobs -> SUBSET (Jobs \cup {Outside})]
  /\ None \notin Jobs \cup Workers /\ Outside \notin Jobs
  /\ {MaxEdits, MaxTarget} \subseteq Nat \ {0} /\ {MaxCommands, MaxFailures} \subseteq Nat

VARIABLES
  job,       \* job[j]: workspaces/jobs/<j>.json
  receipt,   \* receipt[j]: workspaces/receipts/<j>.json
  head, dirty, worktree,   \* the job's branch, uncommitted work, the directory
  branch,    \* branch[j]: the job's branch on the remote
  target,    \* the commits of the target branch on the remote
  fetched,   \* refs/remotes/<remote>/<target>: how much of the target is known
  jobLock, integrateLock,   \* flock owners
  worker,    \* worker[w]: where process w is, its command, job and memory
  commands, failures   \* counters of the bounds

diskVars == <<job, receipt>>
treeVars == <<head, dirty, worktree>>
remoteVars == <<branch, target>>
lockVars == <<jobLock, integrateLock>>
boundVars == <<commands, failures>>
vars == <<diskVars, treeVars, remoteVars, fetched, lockVars, worker, boundVars>>

Commit == [edits : 0..MaxEdits, merged : 0..MaxTarget]

States == {"active", "interrupted", "ready", "conflicted", "integrated"}

JobRecord == [state : States, base : 0..MaxTarget, last : Commit,
              remote : Commit \cup {None}, reconciled : 0..MaxTarget,
              integration : 0..MaxTarget]

Receipt == [checkpoint : Commit, integration : 1..MaxTarget]

\* Trailers of a commit on the target: Bridge-Job-ID, -Base and -Checkpoint.
Landed == [by : Jobs, base : 0..MaxTarget, checkpoint : Commit]
Entry == Landed \cup {Outside}

Commands == {"create", "ensure", "exec", "ready", "mark", "integrate", "finish",
             "recover", "gc"}

Labels == {"wait", "check", "put", "payload", "commit", "publish", "checkpoint",
           "ready", "reconcile", "queue", "merge", "land", "verify", "receipt",
           "write", "save"}

Process == [at : Labels, cmd : Commands, id : Jobs, rec : JobRecord \cup {None},
            seen : 0..MaxTarget]

\* What stands for an absence or for somebody else is no data of the program.
ASSUME MarksAssumption ==
  /\ None \notin Commit \cup JobRecord \cup Receipt \cup Process
  /\ Torn \notin Receipt \cup {None} /\ Outside \notin Landed

TypeOK ==
  /\ job \in [Jobs -> JobRecord \cup {None}]
  /\ receipt \in [Jobs -> Receipt \cup {None, Torn}]
  /\ head \in [Jobs -> Commit] /\ dirty \in [Jobs -> BOOLEAN]
  /\ worktree \in [Jobs -> {"absent", "present", "released"}]
  /\ branch \in [Jobs -> Commit \cup {None}]
  /\ target \in Seq(Entry) /\ Len(target) <= MaxTarget /\ fetched \in 0..Len(target)
  /\ jobLock \in [Jobs -> Workers \cup {None}]
  /\ integrateLock \in Workers \cup {None}
  /\ worker \in [Workers -> Process \cup {None}]
  /\ commands \in 0..MaxCommands /\ failures \in 0..MaxFailures

\* What create_job records of a job based on the target at base.
NewJob(base) ==
  LET commit == [edits |-> 0, merged |-> base] IN
    [state |-> "active", base |-> base, last |-> commit, remote |-> None,
     reconciled |-> base, integration |-> 0]

Checkpointed(rec, commit, state) ==
  [rec EXCEPT !.last = commit, !.remote = commit, !.state = state]

\* Jobs not created yet, created, or with a first edit checkpointed; someone
\* may have pushed since.
Init ==
  /\ \E phase \in [Jobs -> {"none", "created", "edited"}] :
       LET edits(j) == IF phase[j] = "edited" THEN 1 ELSE 0
           commit(j) == [edits |-> edits(j), merged |-> 0]
       IN  /\ head = [j \in Jobs |-> commit(j)]
           /\ branch = [j \in Jobs |-> IF phase[j] = "edited" THEN commit(j) ELSE None]
           /\ worktree = [j \in Jobs |-> IF phase[j] = "none" THEN "absent" ELSE "present"]
           /\ job = [j \in Jobs |->
                CASE phase[j] = "none"    -> None
                  [] phase[j] = "created" -> NewJob(0)
                  [] OTHER -> Checkpointed(NewJob(0), commit(j), "active")]
  /\ receipt = [j \in Jobs |-> None] /\ dirty = [j \in Jobs |-> FALSE]
  /\ target \in {<<>>, <<Outside>>} /\ fetched = Len(target)
  /\ jobLock = [j \in Jobs |-> None] /\ integrateLock = None
  /\ worker = [w \in Workers |-> None] /\ commands = 0 /\ failures = 0

-----------------------------------------------------------------------------
At(w, label) == worker[w] # None /\ worker[w].at = label

Goto(w, label) == worker' = [worker EXCEPT ![w].at = label]

GotoWith(w, label, rec) ==
  worker' = [worker EXCEPT ![w].at = label, ![w].rec = rec]

\* The command returns, raises or dies: its flocks are released.
End(w) ==
  /\ worker' = [worker EXCEPT ![w] = None]
  /\ jobLock' = [j \in Jobs |-> IF jobLock[j] = w THEN None ELSE jobLock[j]]
  /\ integrateLock' = IF integrateLock = w THEN None ELSE integrateLock

\* save_job
Save(w, rec) == job' = [job EXCEPT ![worker[w].id] = rec]

Start(w, c, j, label, rec) ==
  /\ worker[w] = None /\ commands < MaxCommands
  /\ worker' = [worker EXCEPT
       ![w] = [at |-> label, cmd |-> c, id |-> j, rec |-> rec, seen |-> 0]]
  /\ commands' = commands + 1 /\ UNCHANGED failures

\* create_job up to git worktree add: fetch, then the branch from the target.
Create(w, j) ==
  /\ job[j] = None /\ worktree[j] = "absent"
  /\ LET rec == NewJob(Len(target)) IN
       /\ fetched' = Len(target)
       /\ head' = [head EXCEPT ![j] = rec.last]
       /\ worktree' = [worktree EXCEPT ![j] = "present"]
       /\ Start(w, "create", j, "put", rec)
  /\ UNCHANGED <<diskVars, dirty, remoteVars, lockVars>>

\* recover_jobs: metadata is rebuilt from a worktree that has none, and saved
\* without the job's lock by whoever found it missing.
Recover(w, j) ==
  /\ job[j] = None /\ worktree[j] = "present"
  /\ fetched' = Len(target)
  /\ Start(w, "recover", j, "put",
           [state |-> "interrupted", base |-> head[j].merged, last |-> head[j],
            remote |-> None, reconciled |-> head[j].merged, integration |-> 0])
  /\ UNCHANGED <<diskVars, treeVars, remoteVars, lockVars>>

\* ensure and mark-reconciled take no lock; exec loads the job before its lock.
Load(w, c, j) ==
  /\ job[j] # None
  /\ c = "mark" \/ worktree[j] = "present"
  /\ c = "exec" => job[j].state # "integrated"
  /\ Start(w, c, j, IF c = "exec" THEN "wait" ELSE "check", job[j])
  /\ UNCHANGED <<diskVars, treeVars, remoteVars, fetched, lockVars>>

Queue(w, c, j) ==
  /\ job[j] # None
  /\ Start(w, c, j, "wait", None)
  /\ UNCHANGED <<diskVars, treeVars, remoteVars, fetched, lockVars>>

\* flock(LOCK_EX) on job-<j>.lock; exec keeps the record it loaded before.
LockJob(w) ==
  /\ At(w, "wait")
  /\ LET p == worker[w] IN
       /\ jobLock[p.id] = None
       /\ jobLock' = [jobLock EXCEPT ![p.id] = w]
       /\ CASE p.cmd = "exec"  -> Goto(w, "payload")
            [] p.cmd = "ready" -> GotoWith(w, "ready", job[p.id])
            [] OTHER           -> Goto(w, "reconcile")
  /\ UNCHANGED <<diskVars, treeVars, remoteVars, fetched, integrateLock, boundVars>>

-----------------------------------------------------------------------------
Room(j) == head[j].edits + (IF dirty[j] THEN 1 ELSE 0) < MaxEdits

\* What a command may leave in its worktree: an edit, a commit of its own, a
\* merge of the target as fetched, or nothing.
PayloadEffect(j) ==
  \/ Room(j) /\ dirty' = [dirty EXCEPT ![j] = TRUE] /\ UNCHANGED head
  \/ Room(j) /\ head' = [head EXCEPT ![j].edits = @ + 1] /\ UNCHANGED dirty
  \/ ~dirty[j] /\ fetched > head[j].merged
     /\ head' = [head EXCEPT ![j].merged = fetched] /\ UNCHANGED dirty
  \/ UNCHANGED <<head, dirty>>

\* _run_job_shell and what exec_job does with its exit: a failure is saved with
\* the record loaded before the lock; a success with work left is checkpointed,
\* unless --no-checkpoint.
Payload(w) ==
  /\ At(w, "payload")
  /\ LET p == worker[w] IN
       IF worktree[p.id] # "present"
       THEN End(w) /\ UNCHANGED <<job, head, dirty>>
       ELSE /\ PayloadEffect(p.id)
            /\ \/ Save(w, [p.rec EXCEPT !.state = "interrupted"]) /\ End(w)
               \/ UNCHANGED job /\ End(w)
               \/ dirty'[p.id] /\ Goto(w, "commit") /\ UNCHANGED <<job, lockVars>>
  /\ UNCHANGED <<receipt, worktree, remoteVars, fetched, boundVars>>

\* _checkpoint: commit, push and verify, save.
CommitWork(w) ==
  /\ At(w, "commit")
  /\ LET j == worker[w].id IN
       /\ head' = [head EXCEPT ![j].edits = IF dirty[j] THEN @ + 1 ELSE @]
       /\ dirty' = [dirty EXCEPT ![j] = FALSE]
  /\ Goto(w, "publish")
  /\ UNCHANGED <<diskVars, worktree, remoteVars, fetched, lockVars, boundVars>>

PublishBranch(w) ==
  /\ At(w, "publish")
  /\ LET p == worker[w] IN
       \/ /\ branch' = [branch EXCEPT ![p.id] = head[p.id]]
          /\ Goto(w, "checkpoint") /\ UNCHANGED <<job, lockVars>>
       \/ /\ branch' \in {branch, [branch EXCEPT ![p.id] = head[p.id]]}
          /\ IF p.cmd = "exec" THEN Save(w, [p.rec EXCEPT !.state = "interrupted"])
                               ELSE UNCHANGED job
          /\ End(w)
  /\ UNCHANGED <<receipt, treeVars, target, fetched, boundVars>>

SaveCheckpoint(w) ==
  /\ At(w, "checkpoint")
  /\ LET p == worker[w]
         rec == Checkpointed(p.rec, head[p.id], "active")
     IN  /\ Save(w, rec)
         /\ IF p.cmd = "exec" THEN End(w)
            ELSE GotoWith(w, "ready", rec) /\ UNCHANGED lockVars
  /\ UNCHANGED <<receipt, treeVars, remoteVars, fetched, boundVars>>

\* _ready_job_locked: only work that the remote holds is ready.
Ready(w) ==
  /\ At(w, "ready")
  /\ LET p == worker[w]
         rec == Checkpointed(p.rec, head[p.id], "ready")
     IN  \/ /\ p.rec.state # "integrated" /\ dirty[p.id]
            /\ Goto(w, "commit") /\ UNCHANGED <<job, lockVars>>
         \/ /\ p.rec.state = "integrated" \/ dirty[p.id] \/ branch[p.id] # head[p.id]
            /\ End(w) /\ UNCHANGED job
         \/ /\ p.rec.state # "integrated" /\ ~dirty[p.id] /\ branch[p.id] = head[p.id]
            /\ Save(w, rec)
            /\ IF p.cmd = "ready" THEN End(w)
               ELSE /\ worker' = [worker EXCEPT ![w].at = "reconcile",
                                                ![w].cmd = "integrate"]
                    /\ UNCHANGED lockVars
  /\ UNCHANGED <<receipt, treeVars, remoteVars, fetched, boundVars>>

-----------------------------------------------------------------------------
CheckpointOf(rec) == IF rec.remote # None THEN rec.remote ELSE rec.last

IsOf(entry, j) == entry # Outside /\ entry.by = j

\* The commits on the target whose trailers name this job and checkpoint.
Matches(j, rec) ==
  {i \in 1..Len(target) :
     IsOf(target[i], j) /\ target[i].checkpoint = CheckpointOf(rec)}

\* _find_existing_integration, after loading the job under its lock: a push
\* whose record was lost is adopted; otherwise only a clean, published, ready
\* job goes on, and finish first makes it so.
Reconcile(w) ==
  /\ At(w, "reconcile")
  /\ fetched' = Len(target)
  /\ LET p == worker[w]
         rec == job[p.id]
         found == Matches(p.id, rec)
         stop == End(w)
         goto(label, r) == GotoWith(w, label, r) /\ UNCHANGED lockVars
     IN  IF rec.state = "integrated" /\ p.cmd = "integrate" THEN stop
         ELSE IF Cardinality(found) = 1
              THEN \E i \in found :
                     goto("receipt",
                          [Checkpointed(rec, CheckpointOf(rec), "integrated")
                             EXCEPT !.integration = i])
         ELSE IF found # {} \/ rec.state = "integrated" THEN stop
         ELSE IF p.cmd = "finish"
              THEN goto(IF dirty[p.id] THEN "commit" ELSE "ready", rec)
         ELSE IF rec.state = "ready" /\ ~dirty[p.id] /\ branch[p.id] = head[p.id]
              THEN goto("queue", rec)
         ELSE stop
  /\ UNCHANGED <<diskVars, treeVars, remoteVars, boundVars>>

\* flock(LOCK_EX) on integrate-<repo, target>.lock, then fetch the target.
LockTarget(w) ==
  /\ At(w, "queue") /\ integrateLock = None
  /\ integrateLock' = w
  /\ fetched' = Len(target)
  /\ worker' = [worker EXCEPT ![w].at = "merge", ![w].seen = Len(target)]
  /\ UNCHANGED <<diskVars, treeVars, remoteVars, jobLock, boundVars>>

\* The target changed, since the job's base, what the job changes.
Overlaps(j, base, upTo) ==
  \E i \in base + 1..upTo :
    IF target[i] = Outside THEN Outside \in Overlap[j]
                           ELSE target[i].by \in Overlap[j] \cup {j}

Reconciled(j, rec, upTo) == rec.reconciled = upTo /\ head[j].merged >= upTo

\* git diff --cached --quiet after the squash: the target has it all already.
NothingNew(j, upTo) ==
  \/ head[j].edits = 0
  \/ \E i \in 1..upTo : IsOf(target[i], j) /\ target[i].checkpoint.edits >= head[j].edits

\* Reconcile first what overlaps; squash on the target as fetched, which may
\* conflict all the same; validate.
Merge(w) ==
  /\ At(w, "merge")
  /\ LET p == worker[w]
         clear == Overlaps(p.id, p.rec.base, p.seen) => Reconciled(p.id, p.rec, p.seen)
     IN  \/ Save(w, [p.rec EXCEPT !.state = "conflicted"]) /\ End(w)
         \/ clear /\ End(w) /\ UNCHANGED job
         \/ /\ clear /\ ~NothingNew(p.id, p.seen)
            /\ Goto(w, "land") /\ UNCHANGED <<job, lockVars>>
  /\ UNCHANGED <<receipt, treeVars, remoteVars, fetched, boundVars>>

LandForced(w) ==
  /\ At(w, "land")
  /\ fetched' = Len(target)
  /\ Len(target) < MaxTarget
  /\ target' = Append(target, [by |-> worker[w].id, base |-> worker[w].rec.base,
                              checkpoint |-> head[worker[w].id]])
  /\ Goto(w, "verify")
  /\ UNCHANGED <<diskVars, treeVars, branch, lockVars, boundVars>>

LandRetried(w) ==
  /\ At(w, "land") /\ Len(target) < MaxTarget
  /\ fetched' = Len(target)
  /\ target' = Append(target, [by |-> worker[w].id, base |-> worker[w].rec.base,
                              checkpoint |-> head[worker[w].id]])
  /\ \/ Goto(w, "verify")
     \/ UNCHANGED worker
  /\ UNCHANGED <<diskVars, treeVars, branch, lockVars, boundVars>>

\* Fetch once more and push: refused when the target is not what was merged.
\* The push may take effect and its answer be lost.
Land(w) ==
  /\ At(w, "land")
  /\ fetched' = Len(target)
  /\ LET p == worker[w]
         pushed == Append(target, [by |-> p.id, base |-> p.rec.base,
                                   checkpoint |-> head[p.id]])
     IN  \/ /\ Len(target) = p.seen /\ Len(target) < MaxTarget
            /\ target' = pushed
            /\ \/ Goto(w, "verify") /\ UNCHANGED lockVars
               \/ End(w)
         \/ End(w) /\ UNCHANGED target
  /\ UNCHANGED <<diskVars, treeVars, branch, boundVars>>

VerifySavesFirst(w) ==
  /\ At(w, "verify")
  /\ IF Len(target) = worker[w].seen + 1
     THEN /\ GotoWith(w, "save",
               [Checkpointed(worker[w].rec, head[worker[w].id], "integrated")
                  EXCEPT !.integration = worker[w].seen + 1])
          /\ UNCHANGED lockVars
     ELSE End(w)
  /\ UNCHANGED <<diskVars, treeVars, remoteVars, fetched, boundVars>>

\* _verify_remote_branch: the target is still the commit just pushed.
Verify(w) ==
  /\ At(w, "verify")
  /\ LET p == worker[w] IN
       IF Len(target) = p.seen + 1
       THEN /\ GotoWith(w, "receipt",
                 [Checkpointed(p.rec, head[p.id], "integrated")
                    EXCEPT !.integration = p.seen + 1])
            /\ UNCHANGED lockVars
       ELSE End(w)
  /\ UNCHANGED <<diskVars, treeVars, remoteVars, fetched, boundVars>>

ReceiptOf(rec) == [checkpoint |-> rec.last, integration |-> rec.integration]

\* _write_terminal_receipt: created O_EXCL, then written; an existing receipt
\* must tell the same.
OpenReceipt(w) ==
  /\ At(w, "receipt")
  /\ LET p == worker[w] IN
       IF receipt[p.id] = None
       THEN /\ receipt' = [receipt EXCEPT ![p.id] = Torn]
            /\ Goto(w, "write") /\ UNCHANGED lockVars
       ELSE /\ UNCHANGED receipt
            /\ IF receipt[p.id] = ReceiptOf(p.rec)
               THEN Goto(w, "save") /\ UNCHANGED lockVars
               ELSE End(w)
  /\ UNCHANGED <<job, treeVars, remoteVars, fetched, boundVars>>

WriteReceipt(w) ==
  /\ At(w, "write")
  /\ receipt' = [receipt EXCEPT ![worker[w].id] = ReceiptOf(worker[w].rec)]
  /\ Goto(w, "save")
  /\ UNCHANGED <<job, treeVars, remoteVars, fetched, lockVars, boundVars>>

SaveIntegrated(w) ==
  /\ At(w, "save")
  /\ Save(w, worker[w].rec)
  /\ End(w)
  /\ UNCHANGED <<receipt, treeVars, remoteVars, fetched, boundVars>>

-----------------------------------------------------------------------------
\* mark_reconciled: the job has merged the target as it is now.
MarkReconciled(w) ==
  /\ At(w, "check") /\ worker[w].cmd = "mark"
  /\ fetched' = Len(target)
  /\ LET p == worker[w] IN
       \/ /\ ~dirty[p.id] /\ head[p.id].merged >= Len(target)
          /\ GotoWith(w, "put", [p.rec EXCEPT !.reconciled = Len(target)])
          /\ UNCHANGED lockVars
       \/ End(w)
  /\ UNCHANGED <<diskVars, treeVars, remoteVars, boundVars>>

\* --push-initial of create and ensure
PushInitial(w) ==
  /\ At(w, "check") /\ worker[w].cmd = "ensure"
  /\ LET p == worker[w] IN
       IF p.rec.remote = None
       THEN /\ branch' = [branch EXCEPT ![p.id] = head[p.id]]
            /\ GotoWith(w, "put", [p.rec EXCEPT !.remote = head[p.id]])
            /\ UNCHANGED lockVars
       ELSE End(w) /\ UNCHANGED branch
  /\ UNCHANGED <<diskVars, treeVars, target, fetched, boundVars>>

\* save_job of the record loaded earlier
Put(w) ==
  /\ At(w, "put")
  /\ Save(w, worker[w].rec)
  /\ \/ End(w)
     \/ /\ worker[w].cmd = "create"
        /\ worker' = [worker EXCEPT ![w].at = "check", ![w].cmd = "ensure"]
        /\ UNCHANGED lockVars
  /\ UNCHANGED <<receipt, treeVars, remoteVars, fetched, boundVars>>

Integrated(j) ==
  /\ job[j] # None /\ job[j].state = "integrated" /\ job[j].remote = job[j].last
  /\ job[j].integration \in Matches(j, job[j])

\* What gc_jobs removes under the job's lock; the record is saved once more,
\* unless the branch on the remote could not be deleted.
Release(w, j) ==
  /\ jobLock[j] = None /\ worktree[j] = "present" /\ ~dirty[j]
  /\ fetched' = Len(target)
  /\ worktree' = [worktree EXCEPT ![j] = "released"]
  /\ branch' \in {branch, [branch EXCEPT ![j] = None]}
  /\ \/ Start(w, "gc", j, "save", job[j]) /\ jobLock' = [jobLock EXCEPT ![j] = w]
     \/ UNCHANGED <<worker, boundVars, jobLock>>
  /\ UNCHANGED <<diskVars, head, dirty, target, integrateLock>>

CollectMovedTip(w, j) == Integrated(j) /\ branch[j] = job[j].last /\ Release(w, j)

\* gc_jobs, for one job whose worktree the operator unlocked: everything that
\* is removed is in the target under the recorded trailers.
Collect(w, j) ==
  /\ Integrated(j) /\ head[j] = job[j].last /\ branch[j] = job[j].last
  /\ Release(w, j)

\* A process dies; the kernel releases its flocks.
Die(w) ==
  /\ worker[w] # None /\ failures < MaxFailures
  /\ failures' = failures + 1
  /\ End(w)
  /\ UNCHANGED <<diskVars, treeVars, remoteVars, fetched, commands>>

\* Anyone else pushes to the target.
PushOutside ==
  /\ Len(target) < MaxTarget
  /\ target' = Append(target, Outside)
  /\ UNCHANGED <<diskVars, treeVars, branch, fetched, lockVars, worker, boundVars>>

WorkerStep(w) ==
  \/ LockJob(w) \/ Payload(w) \/ CommitWork(w) \/ PublishBranch(w)
  \/ SaveCheckpoint(w) \/ Ready(w) \/ Reconcile(w) \/ LockTarget(w) \/ Merge(w)
  \/ Land(w) \/ Verify(w) \/ OpenReceipt(w) \/ WriteReceipt(w) \/ SaveIntegrated(w)
  \/ MarkReconciled(w) \/ PushInitial(w) \/ Put(w)

Begin(w, j) ==
  \/ Create(w, j) \/ Recover(w, j) \/ Collect(w, j)
  \/ \E c \in {"exec", "mark", "ensure"} : Load(w, c, j)
  \/ \E c \in {"ready", "integrate", "finish"} : Queue(w, c, j)

Next ==
  \/ \E w \in Workers : WorkerStep(w) \/ Die(w)
  \/ \E w \in Workers, j \in Jobs : Begin(w, j)
  \/ PushOutside

Spec == Init /\ [][Next]_vars
-----------------------------------------------------------------------------
\* No lost update: a job lands only after merging whatever landed since its
\* base on what it changes, however commands and other pushes interleave.
ReconciledBeforeIntegrated ==
  \A k \in 1..Len(target) : target[k] # Outside =>
    ~ \E i \in target[k].base + 1..k - 1 :
        /\ i > target[k].checkpoint.merged
        /\ IF target[i] = Outside THEN Outside \in Overlap[target[k].by]
           ELSE target[i].by \in Overlap[target[k].by] \cup {target[k].by}

\* The same edits of a job land once, also when the answer to a push, the
\* receipt or the job record is lost.
EditsLandOnce ==
  \A i, k \in 1..Len(target) :
    (i < k /\ target[i] # Outside /\ target[k] # Outside /\ target[i].by = target[k].by)
      => target[i].checkpoint.edits < target[k].checkpoint.edits

\* A receipt names a commit that is on the target, and a job recorded as
\* integrated has the receipt of exactly that integration.
ReceiptTellsTarget ==
  \A j \in Jobs :
    /\ receipt[j] \notin {None, Torn} =>
         /\ receipt[j].integration \in 1..Len(target)
         /\ IsOf(target[receipt[j].integration], j)
         /\ target[receipt[j].integration].checkpoint = receipt[j].checkpoint
    /\ (job[j] # None /\ job[j].state = "integrated") => receipt[j] = ReceiptOf(job[j])

\* A released worktree loses no work: its last commit is on the target.
ReleasedIsIntegrated ==
  \A j \in Jobs : worktree[j] = "released" =>
    /\ ~dirty[j]
    /\ \E i \in 1..Len(target) : IsOf(target[i], j) /\ target[i].checkpoint = head[j]

\* "already integrated; do not reset historical completion".  (False: a command may
\* save the record it read before the job was integrated.)
IntegratedIsFinal ==
  [][\A j \in Jobs : (job[j] # None /\ job[j].state = "integrated")
        => job'[j].state = "integrated"]_vars
=============================================================================
