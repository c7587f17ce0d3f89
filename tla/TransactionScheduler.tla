------------------------ MODULE TransactionScheduler ------------------------
(***************************************************************************)
(* The concurrent watcher of protocol v2: one owner thread that polls the  *)
(* mailbox, admits a bounded number of requests, hands transactions to     *)
(* worker threads one per repository and in turn, reaps them, makes every  *)
(* result durable before it is published, and polls again while workers    *)
(* run.  (app.py: _LocalWorkerScheduler, _process_pending_concurrent,      *)
(* process_pending_once, cmd_watch.)                                       *)
(*                                                                         *)
(* How one result survives crashes and lost uploads is module              *)
(* ResultDelivery; what a worker does to a repository is module            *)
(* GitTransaction.  Here a result is durable or not, published or not.     *)
(***************************************************************************)
EXTENDS Naturals, FiniteSets, Sequences, SequencesExt

CONSTANTS
    Names,       \* the request names, in the order a listing is sorted
    Repo,        \* repositories
    RepoOf,      \* the repository a request names
    Barrier,     \* the requests of kind "materialize"
    MaxWorkers,  \* worker threads (max_workers > 1)
    MaxPending,  \* max_pending_jobs
    MaxFaults    \* bound: failed writes and failed publications

Tx == ToSet(Names)
ASSUME SchedulerAssumption ==
    /\ Names \in Seq(Tx) /\ IsInjective(Names)
    /\ RepoOf \in [Tx -> Repo]
    /\ Barrier \subseteq Tx
    /\ MaxPending \in Nat /\ MaxWorkers \in Nat /\ MaxPending >= MaxWorkers
    /\ MaxFaults \in Nat
    /\ "none" \notin Tx

VARIABLES
    published,   \* names without a request that waits for its answer
    durable,     \* requests with a durable local result
    broken,      \* repositories that cannot be prepared (moved, replaced, removed)
    at,          \* where the owner thread is
    back,        \* who called dispatch_pending or drain_one
    live,        \* the current listing is a repoll made while workers run
    recov, todo, \* names still to republish, still to ingest
    reaped,      \* the non-blocking pass over the active list has reaped one
    fin,         \* the result that is being made durable and published
    pending, active, order, cursor,
    jobs, running, done,
    stopping,
    misblamed,   \* history: requests answered for an exception of another one
    passed,      \* history: the repositories served while l was runnable
    faults

mailbox == <<published, durable>>
queues  == <<pending, active, order, cursor>>
threads == <<jobs, running, done>>
control == <<at, back, live, recov, todo, reaped, fin>>
history == <<misblamed, passed>>
vars == <<mailbox, queues, threads, control, history, broken, stopping, faults>>

-----------------------------------------------------------------------------
Key(t) == RepoOf[t]

\* Variant: a repository with a transaction in flight is eligible too.
NoneInFlight == {}

InFlight == {Key(t) : t \in ToSet(active)}
Owned == ToSet(pending) \cup ToSet(active)

Candidates == Tx \ published
\* The names of S, in the order of the listing.
Listed(S) ==
    LET upTo[i \in 0 .. Len(Names)] ==
          IF i = 0 THEN <<>>
          ELSE IF Names[i] \in S THEN Append(upTo[i - 1], Names[i]) ELSE upTo[i - 1]
    IN  upTo[Len(Names)]
NoFin == [tx |-> "none", from |-> "ingest", durable |-> FALSE]
NoTurns == [l \in Repo |-> {}]

\* An earlier watcher may have left durable results that it did not publish.
Init ==
    /\ published \in SUBSET Tx /\ durable = Tx
    /\ broken = {} /\ at = "idle" /\ back = "loop" /\ live = FALSE
    /\ recov = <<>> /\ todo = <<>> /\ reaped = FALSE /\ fin = NoFin
    /\ pending = <<>> /\ active = <<>> /\ order = <<>> /\ cursor = 1
    /\ jobs = <<>> /\ running = {} /\ done = {}
    /\ stopping = FALSE /\ misblamed = {} /\ passed = NoTurns /\ faults = 0

-----------------------------------------------------------------------------
(* Transaction ids are unique and never end.  A name of Tx whose request   *)
(* is answered and forgotten stands for the next request of its client.    *)
(* Only a listing can see that a request arrived, so it may as well arrive *)
(* just before one.                                                        *)
Send(t) ==
    /\ at \in {"idle", "wait"} /\ ~stopping
    /\ t \in published /\ t \notin Owned
    /\ published' = published \ {t} /\ durable' = durable \ {t}
    /\ misblamed' = misblamed \ {t}
    /\ UNCHANGED <<queues, threads, control, passed, broken, stopping, faults>>

(* A repository is moved, replaced or taken out of the roots, or is back.  *)
Toggle(k) ==
    /\ faults < MaxFaults /\ faults' = faults + 1
    /\ broken' = IF k \in broken THEN broken \ {k} ELSE broken \cup {k}
    /\ UNCHANGED <<mailbox, queues, threads, control, history, stopping>>

(* SIGTERM: no listing is begun any more, but owned work is finished.  It  *)
(* is looked at before a listing only, so it may as well arrive there.     *)
Stop ==
    /\ ~stopping /\ at \in {"idle", "wait"} /\ stopping' = TRUE
    /\ UNCHANGED <<mailbox, queues, threads, control, history, broken, faults>>

Quit ==
    /\ at = "idle" /\ stopping /\ at' = "stopped"
    /\ UNCHANGED <<mailbox, queues, threads, back, live, recov, todo, reaped, fin,
                   history, broken, stopping, faults>>

-----------------------------------------------------------------------------
(* Worker threads.  They are alike: running is what they run.              *)

Take ==
    /\ Cardinality(running) < MaxWorkers /\ jobs # <<>>
    /\ running' = running \cup {Head(jobs)} /\ jobs' = Tail(jobs)
    /\ UNCHANGED <<mailbox, queues, control, history, broken, stopping, faults, done>>

\* Variant: an exception of the job ends the worker and not its handle.
CompleteOrDie(t) ==
    /\ t \in running
    /\ running' = running \ {t} /\ done' \in {done, done \cup {t}}
    /\ UNCHANGED <<mailbox, queues, control, history, broken, stopping, faults, jobs>>

(* With an outcome or with an exception: either becomes a result.          *)
Complete(t) ==
    /\ t \in running
    /\ running' = running \ {t} /\ done' = done \cup {t}
    /\ UNCHANGED <<mailbox, queues, control, history, broken, stopping, faults, jobs>>

-----------------------------------------------------------------------------
(* Listings.                                                               *)

(* Names with a durable result are republished before anything executes.   *)
List(S, isLive) ==
    /\ ~stopping
    /\ recov' = Listed(S \cap durable)
    /\ todo' = Listed(S \ durable)
    /\ live' = isLive /\ at' = "recover"

Poll ==
    /\ at = "idle" /\ Candidates # {} /\ List(Candidates, FALSE)
    /\ UNCHANGED <<mailbox, queues, threads, back, reaped, fin, history, broken, stopping, faults>>

\* Variant: the repoll subtracts the queued requests and not the active ones.
LivePollActive ==
    /\ at = "wait" /\ List(Candidates \ ToSet(pending), TRUE)
    /\ UNCHANGED <<mailbox, queues, threads, back, reaped, fin, history,
                   broken, stopping, faults>>

LivePoll ==
    /\ at = "wait" /\ List(Candidates \ Owned, TRUE)
    /\ UNCHANGED <<mailbox, queues, threads, back, reaped, fin, history,
                   broken, stopping, faults>>

(* The interval has not passed, or a signal arrived.                       *)
Tick ==
    /\ at = "wait" /\ at' = "dispatch" /\ back' = "loop"
    /\ UNCHANGED <<mailbox, queues, threads, live, recov, todo, reaped, fin, history,
                   broken, stopping, faults>>

-----------------------------------------------------------------------------
(* Recovery and ingestion.                                                 *)

AfterListing == IF live THEN "dispatch" ELSE "idle"

Republish ==
    /\ at = "recover" /\ recov # <<>>
    /\ published' = published \cup {Head(recov)} /\ recov' = Tail(recov)
    /\ UNCHANGED <<durable, queues, threads, at, back, live, todo, reaped, fin, history,
                   broken, stopping, faults>>

(* The result is younger than the grace period: a later listing tries.     *)
WaitGrace ==
    /\ at = "recover" /\ recov # <<>> /\ recov' = Tail(recov)
    /\ UNCHANGED <<mailbox, queues, threads, at, back, live, todo, reaped, fin, history,
                   broken, stopping, faults>>

(* A BridgeError ends the listing.                                         *)
RepublishFails ==
    /\ at = "recover" /\ recov # <<>> /\ faults < MaxFaults /\ faults' = faults + 1
    /\ recov' = <<>> /\ todo' = <<>> /\ at' = AfterListing /\ back' = "loop"
    /\ UNCHANGED <<mailbox, queues, threads, live, reaped, fin, history, broken, stopping>>

Recovered ==
    /\ at = "recover" /\ recov = <<>>
    /\ at' = IF todo = <<>> THEN AfterListing ELSE "ingest"
    /\ back' = "loop"
    /\ UNCHANGED <<mailbox, queues, threads, live, recov, todo, reaped, fin, history,
                   broken, stopping, faults>>

Full == Len(pending) + Len(active) >= MaxPending

GoDispatch(caller) == at' = "dispatch" /\ back' = caller

Ingested ==
    /\ at = "ingest" /\ todo = <<>> /\ GoDispatch("loop")
    /\ UNCHANGED <<mailbox, queues, threads, live, recov, todo, reaped, fin, history,
                   broken, stopping, faults>>

Admit ==
    /\ at = "ingest" /\ todo # <<>> /\ Full /\ GoDispatch("admit")
    /\ UNCHANGED <<mailbox, queues, threads, live, recov, todo, reaped, fin, history,
                   broken, stopping, faults>>

(* A transient download failure leaves the request for the next listing.   *)
SkipDownload ==
    /\ at = "ingest" /\ todo # <<>> /\ ~Full /\ faults < MaxFaults
    /\ faults' = faults + 1 /\ todo' = Tail(todo)
    /\ UNCHANGED <<mailbox, queues, threads, at, back, live, recov, reaped, fin, history,
                   broken, stopping>>

Finish(t, from) ==
    /\ fin' = [tx |-> t, from |-> from, durable |-> FALSE]
    /\ at' = "finish"

(* Planning raises: the request is answered "error" at once.               *)
Reject ==
    /\ at = "ingest" /\ todo # <<>> /\ ~Full /\ Key(Head(todo)) \in broken
    /\ Finish(Head(todo), "ingest")
    /\ UNCHANGED <<mailbox, queues, threads, back, live, recov, todo, reaped, history,
                   broken, stopping, faults>>

Enqueue ==
    /\ at = "ingest" /\ todo # <<>> /\ ~Full
    /\ LET t == Head(todo) IN
       /\ Key(t) \notin broken /\ t \notin Barrier
       /\ pending' = Append(pending, t)
       /\ order' = IF Key(t) \in ToSet(order) THEN order ELSE Append(order, Key(t))
    /\ GoDispatch("queued")
    /\ UNCHANGED <<mailbox, threads, active, cursor, live, recov, todo, reaped, fin,
                   history, broken, stopping, faults>>

(* materialize first waits for everything that is owned (drain_all).       *)
ReachBarrier ==
    /\ at = "ingest" /\ todo # <<>> /\ ~Full
    /\ Head(todo) \in Barrier /\ Key(Head(todo)) \notin broken
    /\ GoDispatch("barrier")
    /\ UNCHANGED <<mailbox, queues, threads, live, recov, todo, reaped, fin, history,
                   broken, stopping, faults>>

Materialize ==
    /\ at = "materialize" /\ Finish(Head(todo), "ingest")
    /\ UNCHANGED <<mailbox, queues, threads, back, live, recov, todo, reaped, history,
                   broken, stopping, faults>>

-----------------------------------------------------------------------------
(* dispatch_pending: one turn of its loop.                                 *)

FreeSlot == pending # <<>> /\ Len(active) < MaxWorkers

(* Only the first queued request of each repository is eligible.           *)
Firsts == {i \in DOMAIN pending : \A j \in 1 .. i - 1 : Key(pending[j]) # Key(pending[i])}
Unprepared == {i \in Firsts : Key(pending[i]) \in broken}
Runnable == {i \in Firsts : Key(pending[i]) \notin InFlight}
RunnableKeys == {Key(pending[i]) : i \in Runnable}

(* The first runnable repository of the round, from the cursor on.         *)
Position(n) == ((cursor - 1 + n) % Len(order)) + 1
\* Variant: the round is not resumed behind the repository that was served.
TurnFromStart == CHOOSE p \in DOMAIN order :
                    order[p] \in RunnableKeys /\ \A q \in 1 .. p - 1 : order[q] \notin RunnableKeys

Turn == Position(CHOOSE n \in 0 .. Len(order) - 1 :
                    /\ order[Position(n)] \in RunnableKeys
                    /\ \A m \in 0 .. n - 1 : order[Position(m)] \notin RunnableKeys)

(* Preparing a queued request raises: it is answered "error" instead.      *)
DispatchError ==
    /\ at = "dispatch" /\ FreeSlot /\ Unprepared # {}
    /\ LET i == CHOOSE i \in Unprepared : \A j \in Unprepared : i <= j IN
       /\ Finish(pending[i], "dispatch")
       /\ pending' = RemoveAt(pending, i)
    /\ UNCHANGED <<mailbox, threads, active, order, cursor, back, live, recov, todo, reaped,
                   history, broken, stopping, faults>>

CountTurn(k) ==
    passed' = [l \in Repo |-> IF l \in RunnableKeys \ {k} THEN passed[l] \cup {k} ELSE {}]

Dispatch ==
    /\ at = "dispatch" /\ FreeSlot /\ Unprepared = {} /\ Runnable # {}
    /\ LET k == order[Turn]
           i == CHOOSE i \in Runnable : Key(pending[i]) = k
       IN /\ pending' = RemoveAt(pending, i)
          /\ active' = Append(active, pending[i])
          /\ jobs' = Append(jobs, pending[i])
          /\ cursor' = (Turn % Len(order)) + 1
          /\ CountTurn(k)
    /\ UNCHANGED <<mailbox, control, order, running, done, misblamed, broken, stopping, faults>>

(* Nothing to hand over: the caller goes on.                               *)
Dispatched ==
    /\ at = "dispatch" /\ ~(FreeSlot /\ (Unprepared # {} \/ Runnable # {}))
    /\ \/ /\ back = "queued" /\ at' = "ingest" /\ todo' = Tail(todo)
       \/ /\ back = "admit" /\ at' = (IF Full THEN "drain" ELSE "ingest")
          /\ UNCHANGED todo
       \/ /\ back = "barrier" /\ at' = (IF Owned = {} THEN "materialize" ELSE "drain")
          /\ UNCHANGED todo
       \/ /\ back = "loop" /\ Owned # {} /\ at' = "scan" /\ UNCHANGED todo
    /\ UNCHANGED <<mailbox, queues, threads, back, live, recov, reaped, fin, history,
                   broken, stopping, faults>>

(* The frame ends: order and cursor are its locals.                        *)
Leave ==
    /\ at' = "idle" /\ back' = "loop" /\ live' = FALSE
    /\ order' = <<>> /\ cursor' = 1 /\ passed' = NoTurns

Return ==
    /\ at = "dispatch" /\ back = "loop" /\ Owned = {} /\ Leave
    /\ UNCHANGED <<mailbox, pending, active, threads, recov, todo, reaped, fin,
                   misblamed, broken, stopping, faults>>

-----------------------------------------------------------------------------
(* Reaping.                                                                *)

(* wait and try_wait drop the bookkeeping; finish_completed_item follows.  *)
Reap(i) ==
    /\ active[i] \in done /\ Finish(active[i], "reap")
    /\ active' = RemoveAt(active, i)
    /\ done' = done \ {active[i]}

(* drain_one and the reaper block on the oldest transaction.               *)
ReapOldest ==
    /\ at \in {"drain", "unwind"} /\ active # <<>> /\ Reap(1)
    /\ UNCHANGED <<mailbox, pending, order, cursor, jobs, running, back, live, recov, todo,
                   reaped, history, broken, stopping, faults>>

(* The pass tries every active transaction once, without waiting.  (One    *)
(* that ends behind the pass is met by the next pass in the code and may   *)
(* still be met by this one here.)                                         *)
ReapDone ==
    /\ at = "scan"
    /\ \E i \in DOMAIN active :
         (\A j \in 1 .. i - 1 : active[j] \notin done) /\ Reap(i)
    /\ reaped' = TRUE
    /\ UNCHANGED <<mailbox, pending, order, cursor, jobs, running, back, live, recov, todo,
                   history, broken, stopping, faults>>

Scanned ==
    /\ at = "scan" /\ ToSet(active) \cap done = {}
    /\ at' = (IF reaped \/ active = <<>> THEN "dispatch" ELSE "wait")
    /\ reaped' = FALSE
    /\ UNCHANGED <<mailbox, queues, threads, back, live, recov, todo, fin, history,
                   broken, stopping, faults>>

Unwound ==
    /\ at = "unwind" /\ active = <<>> /\ Leave
    /\ UNCHANGED <<mailbox, pending, active, threads, recov, todo, reaped, fin,
                   misblamed, broken, stopping, faults>>

-----------------------------------------------------------------------------
(* _build_signed_result, _persist_signed_result, _publish_and_cleanup.     *)

Persist ==
    /\ at = "finish" /\ ~fin.durable
    /\ durable' = durable \cup {fin.tx}
    /\ fin' = [fin EXCEPT !.durable = TRUE]
    /\ UNCHANGED <<published, queues, threads, at, back, live, recov, todo, reaped,
                   history, broken, stopping, faults>>

(* Who goes on after a finished result.                                    *)
Continue ==
    /\ fin' = NoFin
    /\ todo' = IF fin.from = "ingest" THEN Tail(todo) ELSE todo
    /\ at' = CASE fin.from = "ingest" -> "ingest"
              [] fin.from = "reap" /\ back = "loop" -> "scan"
              [] fin.from = "reap" /\ back = "unwind" -> "unwind"
              [] OTHER -> "dispatch"

Publish ==
    /\ at = "finish" /\ fin.durable
    /\ published' = published \cup {fin.tx}
    /\ Continue
    /\ UNCHANGED <<durable, queues, threads, back, live, recov, reaped, history,
                   broken, stopping, faults>>

(* The try block of ingest_requests contains the calls of dispatch_pending *)
(* and drain_all: what they raise answers the request at hand.             *)
InsideTry == fin.from # "ingest" /\ back \in {"queued", "barrier"}

Blame(t) ==
    /\ Finish(t, "ingest") /\ misblamed' = misblamed \cup {t}
    /\ UNCHANGED <<queues, back, todo, reaped>>

(* The repoll swallows a BridgeError and keeps what is owned.              *)
Swallow == fin' = NoFin /\ todo' = <<>> /\ GoDispatch("loop") /\ UNCHANGED <<queues, reaped, misblamed>>

\* Variant: the frame is left without waiting for the submitted workers.
Abandon ==
    /\ fin' = NoFin /\ todo' = <<>> /\ at' = "idle" /\ back' = "loop"
    /\ pending' = <<>> /\ active' = <<>> /\ reaped' = FALSE
    /\ UNCHANGED <<order, cursor, misblamed>>

(* Any other exception leaves the frame through the reaper.                *)
Unwind ==
    /\ fin' = NoFin /\ todo' = <<>> /\ at' = "unwind" /\ back' = "unwind"
    /\ pending' = <<>> /\ reaped' = FALSE
    /\ UNCHANGED <<active, order, cursor, misblamed>>

Raise(bridgeError) ==
    IF InsideTry THEN Blame(Head(todo))
    ELSE IF live /\ bridgeError /\ (fin.from = "ingest" \/ back = "admit") THEN Swallow
    ELSE Unwind

(* A write fails before the result is durable (OSError).                   *)
PersistFails ==
    /\ at = "finish" /\ ~fin.durable /\ faults < MaxFaults /\ faults' = faults + 1
    /\ Raise(FALSE)
    /\ UNCHANGED <<mailbox, threads, live, recov, passed, broken, stopping>>

(* The publication fails; only a reaped result is left to a later listing. *)
PublishFails ==
    /\ at = "finish" /\ fin.durable /\ faults < MaxFaults /\ faults' = faults + 1
    /\ IF fin.from = "reap"
       THEN Continue /\ UNCHANGED <<queues, back, reaped, misblamed>>
       ELSE Raise(TRUE)
    /\ UNCHANGED <<mailbox, threads, live, recov, passed, broken, stopping>>

-----------------------------------------------------------------------------
Owner ==
    \/ Quit \/ Poll \/ LivePoll \/ Tick
    \/ Republish \/ WaitGrace \/ RepublishFails \/ Recovered \/ Ingested \/ Admit \/ SkipDownload \/ Reject \/ Enqueue \/ ReachBarrier
    \/ Materialize
    \/ DispatchError \/ Dispatch \/ Dispatched \/ Return
    \/ ReapOldest \/ ReapDone \/ Scanned \/ Unwound
    \/ Persist \/ Publish \/ PersistFails \/ PublishFails

Next ==
    \/ \E t \in Tx : Send(t)
    \/ \E k \in Repo : Toggle(k)
    \/ Stop
    \/ Owner
    \/ Take \/ \E t \in Tx : Complete(t)

(* Threads are scheduled, a command has a time limit, and a grace period   *)
(* ends.  Clients, the operator and signals owe nothing.                   *)
Fairness ==
    /\ WF_vars(Owner) /\ SF_vars(Republish)
    /\ WF_vars(Take) /\ \A t \in Tx : WF_vars(Complete(t))

Spec == Init /\ [][Next]_vars
FairSpec == Spec /\ Fairness

-----------------------------------------------------------------------------
TypeOK ==
    /\ published \subseteq Tx /\ durable \subseteq Tx /\ broken \subseteq Repo
    /\ at \in {"idle", "recover", "ingest", "dispatch", "drain", "materialize", "scan", "wait",
               "finish", "unwind", "stopped"}
    /\ back \in {"queued", "admit", "barrier", "loop", "unwind"}
    /\ fin \in [tx : {"none"} \cup Tx, from : {"ingest", "dispatch", "reap"}, durable : BOOLEAN]
    /\ running \subseteq Tx /\ done \subseteq Tx
    /\ Len(pending) + Len(active) <= MaxPending
    /\ Len(active) <= MaxWorkers

(* At most one mutation of a repository is under way: a queued or running  *)
(* transaction, or a materialisation of the owner thread behind its        *)
(* barrier.  (scheduler.submit, drain_all.)                                *)
Hands(k) ==
    {<<"job", i>> : i \in {i \in DOMAIN jobs : Key(jobs[i]) = k}}
    \cup {<<"worker", t>> : t \in {t \in running : Key(t) = k}}
    \cup {<<"owner", t>> : t \in {t \in Barrier : at = "materialize" /\ Head(todo) = t /\ Key(t) = k}}
OneMutatorPerRepository == \A k \in Repo : Cardinality(Hands(k)) <= 1

(* However listings, repolls and blocking drains interleave with workers,  *)
(* no request is taken up twice: it is once among the pending and active   *)
(* ones, and only the request at hand is also still on the list.           *)
TakenUpOnce ==
    /\ IsInjective(pending \o active)
    /\ \A i \in DOMAIN todo : todo[i] \in Owned =>
          i = 1 /\ (\/ back = "queued" /\ at \in {"dispatch", "finish"}
                    \/ fin.tx = todo[1])

(* While a repository has a runnable request, no other repository is       *)
(* served twice.  (fair_order, fair_cursor.)                               *)
ServedInTurn ==
    [][\A t \in ToSet(active') \ ToSet(active), l \in RunnableKeys :
         l # Key(t) => Key(t) \notin passed[l]]_vars

(* When the frame of a poll is left, by return or by exception, no worker  *)
(* runs and nothing waits for one.  (The reaper.)                          *)
NoneLeftRunning ==
    at \in {"idle", "stopped"} =>
        pending = <<>> /\ active = <<>> /\ jobs = <<>> /\ running = {} /\ done = {}

(* A worker never starts a request whose result is durable, whatever       *)
(* failed in between.  (False: a failing dispatch is caught where another  *)
(* request is read, and answers that one) ...                              *)
NeverRerun == [][\A t \in running' \ running : t \notin durable]_vars

(* ... except a request that was answered for the exception of another.    *)
RerunOnlyMisblamed == [][\A t \in running' \ running : t \in durable => t \in misblamed]_vars

(* Every request in the mailbox is answered, and a signalled watcher ends, *)
(* however many other requests keep arriving.                              *)
EventuallyAnswered ==
    /\ \A t \in Tx : (t \notin published) ~> (t \in published \/ stopping)
    /\ stopping ~> at = "stopped"
=============================================================================
