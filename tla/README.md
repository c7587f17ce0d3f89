# Verification of the Local Executor Bridge and the conversation harness

TLA+ models of the parts of this repository whose correctness depends on
interleavings, crashes and lost answers; TLC runs that check them on small
instances; and TLAPS proofs of what matters most for every instance.
Source paths below are relative to the repository root.

## 1. Inventory

| Component | State it keeps | Operations | What is hard | Module |
|---|---|---|---|---|
| Request journal, `shell_bridge/bridge.py` | `requests/<id>/{request,started,active,result,finished}.json`, `request-claims/<id>.lock`, approvals, the Drive mailbox | fetch, claim, inspect, approve, STARTED, run, FINISHED, publish, delete, sweep, drain | crashes between any two writes, shutdown against running children, two daemons, disk and transport errors, reused ids | `RequestJournal` (abstract: `RequestLifecycle`) |
| Logical operations, `process_one` | `operations/<op>/{admitted.json,admission.lock}` | admit, recover the original, replay its verdict, refuse | the same operation under several transport ids, a plan that changes between deliveries | `LogicalOperations` |
| Workspace coordinator, `shell_bridge/workspace.py` | job records, receipts, worktrees, job branches, the target branch, two kinds of flock | create, ensure, exec, ready, mark-reconciled, integrate, finish, recover, gc | concurrent commands with records read early, lost push answers, a moving target | `Workspace` |
| Harness service, `src/llm_git_bridge/harness/service.py` | SQLite tables jobs, leases, handoffs, operations | lease, handoff, claim, reserve, start and finish operations | expiry as a side effect of other calls, old clocks, vanished conversations, replayed nonces | `Harness` |
| Local protocol, `harness/local_protocol.py` | table protocol_requests | begin, execute, finish | death between the three transactions, retries, reused ids | `LocalProtocol` |
| Browser API and extension, `harness/browser_api.py`, `safari/extension/` | browser clients, pending prompts per tab | pair, pending, reserve, release, deliver | a prompt delivered twice | in `Harness`; pairing planned |
| Mailbox locks, wake lease | lock files in three directories, one `caffeinate` child | acquire, verify, close | replaced lock files, old builds with other identities | outcomes in `RequestJournal` and `Consolidation` |
| Protocol-v2 watcher and scheduler, `src/llm_git_bridge/app.py` | queues, active list, worker threads, round-robin cursor | list, recover, ingest, dispatch, reap, repoll, drain | an exception anywhere in a poll with threads running, repolling while they run, fairness, back-pressure | `TransactionScheduler` |
| Protocol-v2 results, `app.py`, `transport.py` | signed local results, publication markers, the mailbox | reconcile, classify, repair, recover, persist, upload, mark, delete, prune | crashes between effects, uploads that fail or land late, damaged or lost files | `ResultDelivery` |
| Protocol-v2 transaction, `core.py` | claim refs, disposable worktrees, branch refs, the checkout of a developer | claim, recover, build, commit, merge or compare-and-swap, repair, push | a developer in the same repository, deaths, one id with other bytes | `GitTransaction` |
| Self-update, `self_update.py` and the watcher | handoff file, journal, active pointer, health marker, the remote's main | accept, launch, push, promote, switch, verify, roll back | restarts of the watcher by launchd, lost answers, deaths of the supervisor | `SelfUpdate` |
| Consolidation, `shell_bridge/v6_consolidate.py` | launchd jobs and registrations, directories, the run directory with the recorded actions | census, stop, retire, install, verify, roll back | launchd keeps restarting daemons, requests keep arriving, the Mac restarts | `Consolidation` |
| Protocol-v2 registry | `repositories.json` | reconcile the membership | | not modelled |
| Installation, cutover and release scripts, checks, OAuth, SSH helper | launchd, files | one-shot operator procedures | | not modelled |

How they interact.  A client uploads `requests/<id>.json`; the daemon's main
thread lists the mailbox and starts a worker thread per name (at most
`max_active_requests`).  `process_one` first settles the logical operation
(if the request names one), then the per-request journal.  Between the daemon
and the operator there are only files: a pending record and a decision.
Workspace commands are requests like others, each a process of its own; they
share job files, receipts, the repository and the remote.  The harness is a
separate daemon: conversations reach it through a Unix socket (one message at
a time), browsers through an HTTP server whose threads have SQLite connections
of their own; both meet in `BEGIN IMMEDIATE` transactions.  Protocol v2 is a second,
older way
to use a mailbox: its watcher (`TransactionScheduler`) lets worker threads change
Git repositories (`GitTransaction`) and answers through the mailbox
(`ResultDelivery`); the watcher is replaced by the supervisor it starts itself
(`SelfUpdate`).  `Consolidation` is what an operator runs to retire all the daemons
that ever served a mailbox in favour of one.

`PROJECT.json` lists the hazards, each at its line, with the properties that
would catch it, or the reason why none does.

## 2. Modules and the code

### RequestJournal and RequestLifecycle

A worker is `<<d, r>>`: daemon `d`'s thread for request `r`.  Its label `pc`
walks the code path of `_process_one_request`: `Fetch`, `Claim` (the flock
`request-claims/<id>.lock`), `Inspect` (reuse of an id, FINISHED evidence,
STARTED without FINISHED), `Admit`, `Plan` (policy), `Ask` and `Await`
(operator approval), `Start` (`atomic_create` of `started.json`), `Spawn`,
`RecordSpawn` (`active.json`), `ChildGone`/`Deadline`/`Abort` (`run_shell`),
`Ended`, `Persist` and `Finish` (the two writes of `_persist_then_publish`),
`Upload`, `Delete`.  One step is one durable write or one blocking call, so a
`Crash` may fall between any two.  `IoError` and `TransportError` are the
exceptions `_worker` swallows.  `run_shell` may raise with its command running:
the write of `active.json` fails before or after the file is visible
(`RecordSpawn`), a thread cannot be started (`RunRaises`); its caller then drops
`active.json` all the same (`Ended`).  `Boot`, `Sweep`, `EnterLoop`, `Dispatch`,
`Shutdown`, `Signal`, `LeaveLoop`, `LoseLock`, `Exit` are the daemon's main
thread.  Clients upload, reuse ids and replace a request that is being worked on
(`Submit`), the operator decides (`Decide`), approvals expire, children exit.
A decision repeats the payload of the pending record; `demand` is the payload a
worker asks for, and `grants`, history, what the operator has allowed.

What policy answers for given bytes is the constant `Verdicts`, a set because
configuration changes.  `Exclusive` says whether the mailbox lock admits one
daemon at a time; `StableClaims` whether claim files stay what they are.

`RequestLifecycle` is the promise without files, threads or crashes: admitted
once, run once, one verdict, and the client is told only that verdict.
`RequestJournal` is shown to implement it through the mapping at its end.

### LogicalOperations

The layer of `process_one` over a simplified journal (approval, process groups
and a second daemon are left to `RequestJournal`).  `Fetch` computes the
canonical digest or bypasses deduplication when that raises, `Lock` takes
`admission.lock`, then `AdmitOperation` (write-ahead `admitted.json`),
`RecoverOriginal` or `Replay`.  `plan` is what `resolve_write_plan` answers
now; `Reconfigure` changes it, `Broken` makes it raise, also in the run.  `bypassed`
is history: the ids that ran an operation after a fetch while it raised, when
`process_one` falls back to the path without deduplication.

### Workspace

A process executes one command; `worker[w].rec` is the record it holds in
memory, loaded under the job lock or before it, exactly as the command does.
A commit of a job is told by the edits it contains and by how much of the
target it has merged; the target is the sequence of commits with their
trailers.  The steps of `integrate` are those of `_integrate_job_locked`:
`Reconcile` (`_find_existing_integration`), `LockTarget`, `Merge` (overlap
check, squash, validation), `Land` (fetch, compare, push; the answer may be
lost), `Verify`, `OpenReceipt`, `WriteReceipt`, `SaveIntegrated`.  `Recover` finds that a
record is missing and saves a new one later, without a lock; `Collect` removes what is
integrated under the job lock and saves its record last.

### Harness

Each method is one transaction, so a call that raises leaves nothing and only
calls that return are steps; the guards are the conditions under which they
return.  `_expire` runs inside every call: `LeaseSeen`, `TokenSeen` and
`HandoffSeen` are what it leaves.  The clock is read before the write lock is
taken, so a call that is `late` sees a passed expiry and one that is not may
run after it and still judge by the old clock.  Tokens are random, so they are
kept as the set of conversations that know the current one; an answer may be
lost after the transaction committed.  A call of `update_job` is modelled with
the job's current version; any other version raises `Conflict`.

### LocalProtocol

`dispatch` as three transactions, `Begin`, `Execute`, `Finish`, with the death
of the daemon (`Crash`) or an unexpected error (`InternalError`) between any
two, and any number of retries of any request with the same, other or
malformed arguments.

### TransactionScheduler

The owner thread of the watcher is one program counter, `at`, that walks
`_process_pending_concurrent`: `recover`, `ingest`, `dispatch`, `drain`,
`materialize`, `scan`, `wait`, `finish`, `unwind`.  `back` says who called
`dispatch_pending` or `drain_one`, so that a nested call returns, or raises, to the
right place: what a dispatch raises inside the `try` block of `ingest_requests`
answers the request at hand (`Blame`), a `BridgeError` inside a repoll is swallowed
(`Swallow`), anything else leaves the frame through the reaper (`Unwind`).  Workers
are alike; a job that is handed over is in `jobs`, then in `running`, then in `done`.
`Dispatch` is one turn of the round-robin with its `order` and `cursor`.  `passed`
and `misblamed` are history.  A name whose request is answered stands for the next
request of its client, which is how the instance has no end.

### ResultDelivery

The poll with one worker, and everything around one answer: the startup
reconciliation (`Reconcile`), the classification by markers (`Classify`), the repair
of invalid ones (`Repair`), the recovery of local results (`Acknowledge`,
`Republish`, `WaitGrace`, `Quarantine`), execution, and the order persist, upload,
mark, delete, prune.  `remote[r]` is a sequence because Drive permits two files of
one name, which the listing then refuses.  `local[r]` is the result on disk, its version
and whether it is authentic, and `order` the age of these files, which is what pruning
goes by.  `flying` are uploads whose outcome the
watcher does not know.  What the signature scheme and the HMAC of markers do is the
value of `ok` and of `marker`.  `blind` and `unread` are history: requests for which
a write was in flight that no authority showed, and requests whose answer could not
be read when it was looked for.  The properties name these two exceptions, and
nothing else.

### GitTransaction

`process_transaction`, one action for each git command whose result it acts on, and
the developer's git commands in between.  A commit is the sequence of the changes
that lead to it, so an ancestor is a prefix.  `tree` is the commit whose files the
checkout holds: it differs from `branch[head]` when somebody moved the branch from
under the files.  `ReadRefs`, `Claim`, `AddWorktree`, `Apply`, `RunCommands`,
`Commit` lead to either `Publish` (compare-and-swap of a branch that is not checked
out) or `Recheck`, `Merge`, `Verify`, `VerifyBranch` (fast-forward of the checkout)
with the repair `WrongBranch`, `Rollback`, `Reset`; then `Push`, `Retire`,
`Answered`.  A command may fail, or run out of time after its effect, which raises
(`FailLate` of `Publish`, `Merge`, `Rollback`).  A `Crash` may fall between any two; the
scheduler runs a request without an answer again.

### SelfUpdate

The watcher under launchd (`Launch`, `Mark`, `Exit`), its two steps of an accepted
request (`Request` writes the handoff, `Start` launches the supervisor, or
`NotLaunched`), and the supervisor of `self_update.py`, one action for each command:
`Install`, `ReadRemote`, `Push`, `Promote`, `Merge` and its repair, `Switch`,
`UnlinkHealth`, `Restart`, `Verify` or `RollBack` and the same way back, `Finish`;
after the switch each of them may also raise (`RestartFails`).
`fresh` says that a process started after the pointer was last written; it is what
makes `VerdictIsObserved` more than a comparison of names.

### Consolidation

`migrate` of `v6_consolidate.py`: `Begin` (census and gates), `Disable`, `Bootout`,
`Stopped` for every label in the order of `IsNext`, `AfterStop`, the recorded steps
(`StepFirst`, `StepSecond`: the record, then the effect), `Enable`, `Bootstrap`,
`VerifyOwner`, `Complete`; and `rollback` (`Rollback`, `Undo`, `Restored`).  Around it:
launchd (`Spawn`, `Reboot`), daemons that take up requests, drain, die and exclude
each other by their lock identities.  `fs` holds what is at each path that the
script touches.

## 3. Runs

| Run | Question | Properties | Instance |
|---|---|---|---|
| `journal` | approval, answer before deletion, every request answered, every shutdown drains | `ApprovedBeforeStarted`, `AnsweredBeforeDeleted`, `EventuallyAnswered`, `ShutdownCompletes` | 1 request id, 3 kinds of contents, 2 payloads to approve, 1 daemon, 2 uploads, 2 crashes or shutdowns, 2 decisions |
| `journal_overlap` | execution at most once, containment, refinement | `AtMostOnce`, `ContainedBeforeForgotten`, `ImplementsLifecycle` | 2 overlapping daemons, 2 kinds of contents, 1 payload, 2 uploads, 2 crashes or shutdowns, 1 decision |
| `logical` | one run per operation, truthful replays, every request answered or left to a human for good | `OneRunPerOperation`, `ReplayTellsOriginal`, `EventuallyAnswered` | 1 operation, 2 transport ids, 2 kinds of bytes for it, 1 request without operation id, 2 uploads, 1 failure, 1 plan and one that raises, 2 changes of plan |
| `workspace` | no lost update, edits land once, receipts tell the target, gc loses nothing | `ReconciledBeforeIntegrated`, `EditsLandOnce`, `ReceiptTellsTarget`, `ReleasedIsIntegrated` | 2 overlapping jobs, 2 processes, 3 commands, 3 target commits, 2 edits, 1 death |
| `harness` | held or offered, nonces spent once, successors reconcile, never wedged | `HeldOrOffered`, `NonceSpentOnce`, `SuccessorReconciles`, `NeverWedged` | 1 job, 2 conversations, 2 browsers, 2 operations, no bound on calls |
| `protocol` | at most one mutation per request id, truthful answers | `ExecutedOnce`, `IndeterminateNeverCompletes` | 2 request ids, 3 payloads (1 malformed), 5 messages |
| `scheduler` | repositories serialised, nothing taken up twice, no worker survives a poll, turns | `OneMutatorPerRepository`, `TakenUpOnce`, `NoneLeftRunning`, `ServedInTurn` | 5 requests in 3 repositories, one of them a barrier, 2 workers, 4 pending, 1 fault |
| `scheduler_live` | every request answered, a signalled watcher ends | `EventuallyAnswered` | 4 requests in 2 repositories, 2 workers, 2 pending, 1 fault |
| `delivery` | answered before deleted, no answer lost, answers stand and are not computed again, every request retired | `DeletedIsAnswered`, `AnswerSurvives`, `AnswerStands`, `EventuallyRetired` | 2 requests, retention 1, 4 faults |
| `transaction` | one request per id lands, and commits once, successes landed, the checkout and the developer's work are left alone | `CommitsOnce`, `ToldIsLanded`, `FilesFollowBranch`, `DeveloperKept` | 3 requests (2 with one id), 3 branches, 1 death, 2 acts of the developer |
| `selfupdate` | only promoted and verified runtimes are active, verdicts are observed | `ActiveIsPromoted`, `ActiveIsVerified`, `VerdictIsObserved` | 2 updates, the second a descendant of the first, 2 requests, 1 death, 2 acts of others |
| `consolidation` | quiet installation, one owner after it, no claimant in between, a rollback restores | `InstallsInQuiet`, `OldOwnerStaysRetired`, `NoClaimantTakesOver`, `RollbackRestores` | 3 labels, 4 files (2 of one label), 2 requests, 2 faults |

Type invariants (`TypeOK` of every module) hold on the same instances; they are
proved where there is a proof module and not listed as properties of the runs.

Why the bounds are enough.  Requests share nothing in the journal but the
daemon's `active_names`, its slots and its shutdown, so one id is enough for
the safety of a request; what two ids have to do with each other is
`LogicalOperations`.  Two uploads allow a first use and a reuse with other bytes,
at any moment of the first; two stops allow a crash during the recovery from a
crash; two decisions, a consent that is withdrawn, or one for each payload.  Oversized
bytes are left out of the overlap: they are refused before they touch the journal, and a
refused reuse of an id does the same.  In `LogicalOperations`, two uploads are both
ids, or one id and a replacement; the second kind of bytes is a digest that conflicts,
which is also what a changed plan is; two changes make a plan fail and work again.  More
plans and uploads are left to the theorems.  In `Workspace`, two jobs and an outsider
are every kind of overlap, and three commands allow integrating, being overtaken and
integrating again.
In `Harness`, jobs share only the browsers; that a browser reserves one job at
a time is proved for any number of them (`BrowsersReserveOnce`).  Two
conversations and two browsers are enough for any race over one lease and one
nonce, and nothing else bounds that instance: calls repeat for ever.  Crashes
and errors are bounded by counters named in the cfg files.

In `TransactionScheduler`, two requests of one repository and one of each other
are what a turn and a queue behind a running transaction need; three repositories
make a turn that can pass one by; two workers and four pending are the smallest
numbers for which the queue is full while a worker is free; names are reused, so
polls, faults apart, never end.  In `ResultDelivery`, two requests with a retention
of one let the pruning of one depend on the other; four faults allow an upload that
lands late after a crash after a loss of files, with one to spare.  In
`GitTransaction`, two requests of one id race for a claim, the third goes through
the checkout; deaths and acts are few because each may fall anywhere, and the
theorems hold for any number.  In `SelfUpdate`, two updates and two requests allow a
handoff to be replaced while the first is carried out.  In `Consolidation`, the
three labels are the keeper, a rival for its lock that shares its state, and an old
build with a state and a lock of its own; two faults allow a death and a restart.

Deadlock checking is off in every run: a system in which every request is
answered and every bound used up rightly stops.

### Fairness

`RequestJournal`: threads are scheduled, launchd restarts the daemon, the clock
runs (approvals expire, a run has a deadline).  `Dispatch` is strongly fair:
the main loop polls for ever but slots come and go.  Disk and transport errors
are assumed to end at some time; every poll retries what failed, and if they
never end no program can answer.  Nothing is assumed of clients, operators,
crashes, or of a child's own exit.  `LogicalOperations`: threads are scheduled
and a flock that is released again and again is eventually granted.
`Harness`: time passes (`LeaseLapses`, `HandoffLapses`), and conversations keep
asking for a job that nobody holds.  Nobody is assumed to release, claim,
finish or confirm anything: `NeverWedged` says that expiry alone is enough to
make an abandoned job available again.
`TransactionScheduler`: threads are scheduled, a command has a time limit, and a
grace period ends (`Republish` is strongly fair: it competes with `WaitGrace` on
every listing).  Clients, repositories and signals owe nothing.  `ResultDelivery`:
launchd restarts the watcher and the watcher does not pause for good, a write lands
or is lost, time passes.  Faults are bounded, as there is no answer without an
upload that works.

## 4. Proofs

TLC checks the instances above; the theorems hold for every value of the constants that
satisfies the named assumptions and the hypotheses of the theorem. No property of a run
is inductive as it stands. Each proof module strengthens its properties to an inductive
invariant, shows with one lemma per action, or per group of actions, that every step
keeps it, and combines the lemmas in the last lines of a theorem. TLC can check
the inductive invariants too, as invariants of the runs of section 3.

`RequestJournal_proofs`. `TypeCorrect` and `RunsAtMostOnce`: no request is executed
twice, for any number of overlapping daemons, also when claim files are replaced
(`StableClaims` is not assumed). `AtMostOnce` is not inductive: `ExecInv` adds who may
still spawn a shell. Only a worker at `spawn` may, it got there by creating
`started.json`, which nobody else can have created and nobody removes; hence at most one
worker in the whole system is at `spawn`, and while there is one, nothing ran.
`ContainsFirst` (the property `ContainedBeforeForgotten`) rests on `GroupInv`: that
worker is also the only one that ever records a process group, and when it reaches
`ended` with a record, the group is gone or its `run_shell` raised and it is about to
report "indeterminate"; every other way to drop `active.json` contains first
(`Contained`). `AsksFirst` (`ApprovedBeforeStarted`) rests on `ApprovalInv`, which
follows the payload from the plan to the start: what a worker demands is a payload its
contents call for, a decision repeats the payload of a pending record, which is written
once, and every "allow" that can be read is among `grants`.

A second part holds under `StableClaims`: `AnswersAreJournalled`, `RejectionsNeverRan`,
`TerminalResults`. The invariant `JournalInv` says what the holder of a claim has
established at each label (which files exist, which SHA they carry, what it is about to
record); a worker without the claim is only at labels that write nothing of the journal.
Mutual exclusion by the claim then gives finality of results, and the order of the
writes gives that what is told is what is durable. The assumption is needed: with
replaced claim files two workers may write different verdicts.

Under the same assumption, `RefinesLifecycle`: the journal implements
`RequestLifecycle`. The link of `started.json` is `Admit`, the spawn `Run`, the write of
`finished.json` `Close`, the upload `Tell` or `Hide`; every other step, the write of
`result.json`, every crash, sweep and recovery among them, is a stutter. `JournalInv`
supplies the guards: the verdict that is closed with fits what ran, and an upload of a
result happens only after the close.

`NothingLeavesUnanswered` (`AnsweredBeforeDeleted`) needs `Exclusive` as well, since the
deletion is by name and a second daemon could overwrite the answer in between.
`MailboxInv` adds what one daemon gives: at most one daemon is not down, a request has
at most one worker (`active_names`), and at `delete` the answer on the Drive is to the
bytes that worker fetched. It says nothing of the mailbox, which the client may have
changed meanwhile.

`LogicalOperations_proofs`, for any operations, transport ids, uploads, failures and
changes of plan. `OneExecution` (`OneRunPerOperation`), `ReplaysAreTrue`
(`ReplayTellsOriginal`) and `VerdictsAreFinal`. What has run says nothing of what a
worker may still do, so the invariant has two parts. `WorkerInv` says at which labels a
worker holds the admission lock, that on its way to a run (`Executing`) its transport id
is the original its operation was admitted under, if it has a digest (`Admitted`), and
what it has already written of the journal. `JournalInv` says the same of the files:
what ran outside `bypassed` ran under the original of its operation, what ran is what
was started, and a verdict is the transport id's own or that of the original, which is
final (`Faithful`). Nothing is assumed of plans: they change and fail at any time.
`MarksAssumption` is all that is assumed: the absent value is not a verdict, an
admission or a digest.

`Workspace_proofs`, for any jobs, processes, commands, edits, overlaps, target commits
and deaths. `WorkspaceTyped`, `NothingOverwritten` (`ReconciledBeforeIntegrated`),
`NothingLandsTwice` (`EditsLandOnce`), `ReceiptsTrue` (`ReceiptTellsTarget`),
`NothingReleasedIsLost` (`ReleasedIsIntegrated`). `WorkerInv` is a conjunction over the
processes: what a process holds (the job lock, the target lock, the record it read),
what it is about to land and against which target (`Lands`), what it found on the target
(`Told`), and which receipt goes with its record (`Recorded`). `JobInv` relates the
record, the receipt, the branch and the worktree of a job to the target. The argument is
interference: `Undisturbed` says that what a process relies on stays true while other
processes respect its locks, give up no record and no receipt, and only append to the
target; `Respected` that a step whose own changes are right keeps the invariant; `Quiet`
the same of a step that touches no receipt, branch, worktree or target; `NewEdits` and
`Pushed` what a push adds to the target: it lands on the very target that was merged. Of
a record that was read before the lock was taken (`exec`) one thing is relied on: if it
says integrated, the receipt says so still. `MarksAssumption` and bounds of at least one
edit and one target commit are assumed.

`Harness_proofs`, for any number of jobs, conversations, browsers and keys. `JobInv` (a
job that was not created has nothing; held or offered, never both; closed means not
offered) is inductive because of what three methods require together: `acquire_lease`
refuses an open handoff, `create_handoff` gives up the lease in the same transaction,
`claim_handoff` closes the handoff it grants; `reserve_reentry` alone checks nothing.
`OperationInv` adds that "created" is answered exactly when the row appears. The lemmas
`LeaseStep`, `LifecycleStep`, `OperationStep`, `NonceStep` and `ReservationStep` state
once what any step may do to a job, so that every invariant is a few lines.
`SuccessorsReconcile` (`SuccessorReconciles`) puts together what a conversation that
takes over meets: one performance of a key, one unresolved operation, none in a closed
job. The only
assumption is `NoneAssumption`: the absent value is not a status, a lifecycle or a
browser.

The last section of the same module is about `LocalProtocol`, for any number of request
ids, payloads and messages: `AtMostOnceMutation` (`ExecutedOnce`), `OkTellsOwn` and
`IndeterminateForGood` (`IndeterminateNeverCompletes`). `RowInv` adds that whatever
executed under an id is what its row is bound to, and that a completed row executed and
answers "ok"; `ServerInv` adds what the message between two transactions has
established: its row is `started` with its own payload, not yet executed at `execute`,
executed at `finish`, and nobody heard "indeterminate" for it, because nobody else is
served. The only assumption is `PayloadsAssumption`.

`TransactionScheduler_proofs`, for any repositories, requests, workers, limits and
faults. `WatcherTyped`, `OneMutator` (`OneMutatorPerRepository`), `NoRequestTwice`
(`TakenUpOnce`), `FrameLeavesNothing` (`NoneLeftRunning`), `TurnsAreFair`
(`ServedInTurn`), `OnlyMisblamedRerun`. `HandedOver` says that what was handed over and
not reaped is in one place, `jobs`, `running` or `done`, and that of each repository
there is one transaction at most; `Frame` what each place of the owner thread has left
of a poll and to whom a nested call returns; `Queues` that the queue has no request
twice and none that is handed over, and that the listing has none of either but for the
request at hand; `Unanswered` that what is owned or listed has no durable result, unless
it was answered for an exception of another; `InTurn` that a repository that was passed
by comes before those that passed it. `SchedulerAssumption` is all that is assumed. A
listing is a recursion over the positions of the names; that it lists each name once
(`ListedOf`) is proved for this one function, by an induction on sets of numbers
(`SetInduction`) that `WellFoundedInduction` gives.

`ResultDelivery_proofs`, for any requests in any listing order, any retention and any
number of deaths, losses, damages and failing calls. `DeletedAnswered`
(`DeletedIsAnswered`), `AnswersSurvive` (`AnswerSurvives`), `AnswersStand`
(`AnswerStands`). `Clean` requests are those
outside the two named exceptions. The invariant is a chain along the poll: `Finding`,
after the reconciliation a clean answered request of the mailbox has a marker, a local
result, or an invalid marker that is still to be looked at; hence `Executing`, what is
to be executed has no answer until its own is uploaded; `Flying`, a clean request has at
most one write in flight, the first upload of a local result within its grace period,
and is neither answered nor to be executed; `Repeating`, a republication is of a request
without an answer whose grace period is over; `Answering`, markers are written behind
answers only. `Dropped` is what the pruning may do to files. `DeliveryAssumption`: names
are listed once, the retention is positive.

`GitTransaction_proofs`, for any requests, ids, branches, deaths and acts of the
developer. `TypeCorrect`, `OneRequestLandsPerId` (`OneRequestPerId`,
a part of `CommitsOnce`), `SuccessesLanded`
(`ToldIsLanded`). Neither of the last two is inductive: what has landed says nothing of
what a worker holds. `ClaimInv` adds that a worker past `Claim` holds the claim of its
id, which nobody ever changes or removes; that every commit that landed is of the
request that holds the claim of its id; and that a commit of a request at the tip of a
branch, which is what a later run recovers and reports as its success, has landed. The
developer can move branches anywhere, but only to commits that some branch has, or to
commits of their own, which no request takes for its own.

`RetriesResume` (`CommitsOnce`) uses what a commit of a request looks like: its own
change on top of the declared base (`OneOnBase`), which is what a compare-and-swap or a
fast-forward puts on a branch (`LandsOnBase`). A branch that still has the first commit
of a request is then longer than the base of the second, so neither can write it
(`EarlierIsGone`).

`CheckoutLeftAlone` (`FilesFollowBranch`) and `DevelopersWorkKept` (`DeveloperKept`) are
about the developer's repository. `CheckoutInv` adds that the branch that is checked out
exists and that no worktree of a transaction has it; that a worker compares and swaps
only a branch it saw absent or one that its own worktree holds, which git then refuses
to check out; and that what a swap or a fast-forward replaces is the base the commit was
built on, or nothing, so no commit of the developer is dropped. The two exceptions, a
repair under way and one that died between the ref and the files, are those the
properties name. `ConstantsAssumption` is all that is assumed: names of requests are not
those of other changes, and names of branches are not the two marks for "no branch".

`Installation_proofs`, on `SelfUpdate`, for any updates and commits, and any number of
requests, deaths and
acts. `PromotedBeforeActive` (`ActiveIsPromoted`), `VerifiedWhenIdle`
(`ActiveIsVerified`), `VerdictsObserved` (`VerdictIsObserved`). The run of the
supervisor is cut into four stretches: before the switch, after it, on the way back,
after the verdict. `PromotedInv` says that the runtime a supervisor started from is on
the remote's main all along and that its target is from `promote` on; it is kept because
the remote's main only ever grows (lemmas `AncestorTransitive`, `AncestorOfAppend`).
`VerifiedInv` says what the pointer names in each stretch. `FreshInv` is what makes a
verdict an observation: the marker is removed after the pointer was written, so when the
supervisor waits, the marker that is there, or the watcher that is going to write one,
is of a process that started later, or of another runtime than the one that is waited
for, or of a watcher that the restart is still going to end. `UpdatesAssumption` is all
that is assumed.

The same module, on `Consolidation`, for any labels, lock identities and registration
files, and any number of requests, deaths and restarts. `ConsolidationTyped`,
`InstalledInQuiet` (`InstallsInQuiet`), `ClaimantsKeptOut` (`NoClaimantTakesOver`),
`RollbackPutsBack` (`RollbackRestores`), `NoOldOwner` (`OldOwnerStaysRetired`).
`InstallsInQuiet` is inductive as it stands. `StopOrder` says that either every label
with a process is still to be stopped or only such labels are, and that what was stopped
is unloaded. `RollbackRestores` rests on `PlanInv`: the recorded actions and the steps
that are left make up the plan over the files before (`StepsOrdered`), in an order in
which a file is archived, and a directory moved away, before another is made in its
place (`Needs`); every difference between the files and those before is accounted for by
an action that a rollback has still to reverse (`Accounted`), which lemma `Installs`
shows for each kind of step and `Reverses` for each kind of reversal, so when none is
left there is no difference. `Ahead` says what the steps that are left have not changed
yet; at the last step it gives `Retired`, from which, with `RetiredInv`, no restart
finds an old registration. `LabelsAssumption` is all that is assumed: finitely many
registration files, none of them one of the paths of the mailbox, and the release under
a label of the production state.

Only model-checked. Liveness (`EventuallyAnswered`, `ShutdownCompletes`, `NeverWedged`,
`EventuallyRetired`), which the prover cannot reach. Every other property of a passing
run is a theorem.

Definitions marked "Variant" in the modules are plausible mistakes in the code of the
definition that follows. No behaviour uses them; they stand beside the definitions to
show that each property fails for some such mistake.

## 5. Where the code and its documents disagree

Each of these properties is stated in its module, with "(False ...)" in its comment,
because a document or the code around it says it and the code does not keep it.  The
cfg named with it gives TLC a small instance on which it finds the counterexample:
`tlc -config <cfg> MC<module>`.  They are kept beside the project and are not among its
runs.

- `journal_shutdown.cfg`, `CompletedRanToEnd`: a command killed by an orderly shutdown
  may be recorded `completed` (`bridge.py:1020`), although the documents call it
  indeterminate (`docs/security.md:74,76`).
- `journal_forget.cfg`, `ForgottenIsContained`: `run_shell` may raise with its command
  running, when `atomic_write` fails after its replace (`bridge.py:199` via `1539`) or a
  thread cannot be started (`1011-1013`); the `finally` at `bridge.py:1585` then removes
  `active.json`, the only record of the group.  The outcome is still indeterminate, and
  nothing else forgets a running group (`ContainedBeforeForgotten`).
- `journal_replace.cfg`, `RemovedIsAnswered`: the deletion goes by name
  (`bridge.py:1184,1199,1202`), so a request that the client replaced after the fetch
  leaves the mailbox unread.  The bytes that were fetched are answered
  (`AnsweredBeforeDeleted`).
- `logical_bypass.cfg`, `NeverRunTwice`: deduplication of operations is skipped
  when the write plan cannot be computed for a moment (`bridge.py:1717`): an operation
  can run twice (`docs/security.md:51,59`).  Only an id that was fetched in such a moment
  can be one of the two (`OneRunPerOperation`).
- `logical_retry.cfg`, `RejectedNeverRan`: a repeated upload of a request that ran is
  answered `rejected` when its effective plan has changed (`bridge.py:1742`).
- `logical_reuse.cfg`, `AnswersItsBytes`: a transport id that only received a replayed
  verdict is not bound to its bytes (`bridge.py:1874`).
- `workspace_exec.cfg`, `IntegratedIsFinal`: `exec`, `mark-reconciled` and `ensure` may
  reset an integrated job with a stale record (`workspace.py:407`).  The target and the
  receipt stay right.
- `protocol_conflict.cfg`, `FailedNeverRan`: a refused message closes an unfinished
  harness request of the same id as failed (`harness/local_protocol.py:180`).
- `scheduler_blame.cfg`, `NeverRerun`: what a dispatch raises inside the `try` block of
  `ingest_requests` (`app.py:2839`) answers the request that is being read with the
  error of another (`docs/scheduler-architecture.md:216`); that request may have been
  queued already, and then runs with an answer already given.  Nothing else reruns
  (`RerunOnlyMisblamed`, checked on the same instance).
- `delivery_duplicate.cfg`, `OneRemoteResult`: a republication is repeated without a
  grace period of its own, so two uploads of unknown outcome leave two results of one
  name, and every listing fails until a human deletes one
  (`docs/protocol.md:145,147,157`).
- `transaction_switch.cfg`, `ToldIsPublished`: when the developer switches branches
  between the last check and the merge, and back before `VerifyBranch`, a success is
  told for a branch that did not get the commit (`core.py:2022`,
  `docs/transaction-state-machine.md:132-146`).
- `transaction_repair.cfg`, `NeverDiscards`: edits made between the check of a wrongly
  merged checkout and `git reset --hard` are gone (`core.py:2077`).
- `selfupdate_handoff.cfg`, `HandoffIsCarriedOut`: the supervisor unlinks the handoff by
  name when it ends, also when a later request wrote it (`docs/protocol.md:56`,
  `docs/architecture.md:21`).
- `consolidation_rollback.cfg`, `RollbackGoesThrough`: a death between the record of a
  `remove` or a `rename` and its effect leaves a record whose reversal raises
  (`v6_consolidate.py:708` against `:456`, "a reversible filesystem action").
- `consolidation_abandoned.cfg`, `NothingAbandoned`: a command that a daemon outside the
  production state takes up after the census survives the migration
  (`v6_consolidate.py:506`).

Met while modelling, and part of what the models do:

- The repair of a wrong branch writes `base_sha` and not the tip the branch had
  (`core.py:2057`); a death between the rollback of the ref and the reset of the files
  leaves the commit's files over the base (the exception in `FilesFollowBranch`).
- A dirty checkout answers a retry "error" although its commit is durable
  (`core.py:1763`; `docs/protocol.md:147` promises recovery), and so does a merge that
  landed and was then found on another branch.
- A stale worktree attached to a branch blocks every other id on it (`core.py:1843`);
  a direct commit with `publish_snapshot` always fails.
- A self-update is not launched when the publication of its result fails, nor ever with
  one worker (`app.py:2545`); a supervisor that dies after the switch leaves an
  unverified runtime active; its journal keeps the status of an earlier update
  (`self_update.py:231`).
- The directory of the legacy shim is made before it is recorded
  (`v6_consolidate.py:635`), so a rollback may leave it; a migration that died after
  it archived a registration cannot be run again.
- The startup reconciliation takes an answer it cannot download for one that is not
  authentic (`app.py:1938`) and counts as done, although the comment at
  `app.py:3328` says that it fails closed: the request runs again.  This is the
  exception `unread` of `AnswerStands`.

## 6. Not modelled

How policy parses a command, the sandbox profile, the texts of results, health and
doctor reports: `Verdicts` and `Plans` stand for their outcome.  Process ids and their
reuse (`bridge.py:1297`), the file system's own atomicity (half written receipts,
`workspace.py:552`; half a terminal pair, `bridge.py:1367`), a process group of which only
descendants are left (`child` is its leader), deletion by name with two daemons
(`bridge.py:1199`) and a client that holds the Unix socket (`harness/daemon.py:23`) are
known exposures that the models abstract.  The events
table and the texts of harness jobs, on which no decision depends; the lifecycle
`waiting` behaves as `active` and `cancelled` as `failed`.  Pairing of browsers.  The
wake lease.  In protocol v2: registration of repositories, snapshots, the status file,
how a patch applies, path policy, the signature scheme; a registry that changes between
the ingestion of a request, which keys the queue by repository id (`app.py:2128`), and
its dispatch, which keys it by the path resolved anew (`app.py:2200`): `RepoOf` is one
key for both.  In `GitTransaction`, a developer with a detached HEAD (`core.py:1767`) and
one who amends a commit of the bridge, which keeps its trailers and is recovered as the
bridge's (`core.py:1808`); in `Workspace` and `SelfUpdate`, others who push with force.
In the consolidation: the approval apps; a `launchctl` that fails
(`v6_consolidate.py:537`) leaves what a death of the script at that step leaves, and is
that step.  The shell scripts `install.sh`, `cutover.sh` and `v6_release_once.sh`,
OAuth, pinned SSH, the prototype watcher and the release checks: one-shot procedures or
reads.  HTTP and socket framing.

## 7. Plan

Done: the modules above, in the order of what a mistake costs (execution at most once,
then deduplication, then the remote, then handover, then protocol v2 and its
retirement), and proofs of every safety property that a run checks.

Models that would add something: `MailboxLock` (`bridge.py:1971-2109`) with the wake
lease, any two builds that share an instance, a root or a mailbox; pairing of browsers
in `Harness`; the registry as a step over sets.
