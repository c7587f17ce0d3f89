--------------------------- MODULE Workspace_proofs ---------------------------
(***************************************************************************)
(* Theorems about Workspace, for any jobs, processes and bounds, and for   *)
(* any relation of the paths that the jobs change.                         *)
(***************************************************************************)
EXTENDS Workspace, SequenceTheorems, FiniteSetTheorems, TLAPS

-----------------------------------------------------------------------------
(***************************************************************************)
(* The inductive invariant.  What a process has read, and relies on at its *)
(* next effect, is still so: it is recorded on disk for good, protected by *)
(* the lock of the job, or told by a prefix of the target.                 *)
(***************************************************************************)
Held == Labels \ {"wait", "check", "put"}

\* Nothing that overlaps is unmerged, and the squash tells something new.
Lands(p) ==
    /\ Overlaps(p.id, p.rec.base, p.seen) => head[p.id].merged >= p.seen
    /\ \A i \in 1 .. p.seen :
          IsOf(target[i], p.id) => target[i].checkpoint.edits < head[p.id].edits

Told(j, rec) ==
    /\ rec.state = "integrated" /\ rec.integration \in 1 .. Len(target)
    /\ IsOf(target[rec.integration], j) /\ target[rec.integration].checkpoint = rec.last

Recorded(j, rec) ==
    rec.state = "integrated" => receipt[j] \in Receipt /\ receipt[j] = ReceiptOf(rec)

ProcessInv(w, p) ==
    /\ worktree[p.id] # "absent"
    /\ p.at # "put" => job[p.id] # None
    /\ (p.at \notin {"wait", "reconcile"} \/ p.cmd = "exec") => p.rec # None
    /\ p.at \in Held => jobLock[p.id] = w
    /\ (p.rec # None /\ p.at \notin {"receipt", "write"}) => Recorded(p.id, p.rec)
    /\ p.at = "commit" => dirty[p.id]
    /\ p.at \in {"merge", "land"} => p.seen <= Len(target)
    /\ p.at = "land" => Lands(p)
    /\ p.at = "verify" => /\ p.seen + 1 <= Len(target) /\ IsOf(target[p.seen + 1], p.id)
                          /\ target[p.seen + 1].checkpoint = head[p.id]
    /\ p.at \in {"receipt", "write", "save"} => Told(p.id, p.rec)
    /\ p.at = "write" => receipt[p.id] = Torn

WorkerInv == \A w \in Workers : worker[w] # None => ProcessInv(w, worker[w])

JobInv ==
    \A j \in Jobs :
       /\ job[j] # None => worktree[j] # "absent" /\ Recorded(j, job[j])
       /\ dirty[j] => head[j].edits < MaxEdits
       /\ receipt[j] \in Receipt =>
            /\ receipt[j].integration \in 1 .. Len(target)
            /\ IsOf(target[receipt[j].integration], j)
            /\ target[receipt[j].integration].checkpoint = receipt[j].checkpoint

IInv == /\ TypeOK /\ WorkerInv /\ JobInv
        /\ ReconciledBeforeIntegrated /\ EditsLandOnce /\ ReleasedIsIntegrated

-----------------------------------------------------------------------------
(***************************************************************************)
(* What a step does to the process that takes it.                          *)
(***************************************************************************)
Moves(w) == \A v \in Workers \ {w} : worker'[v] = worker[v]

LEMMA Bounds ==
    /\ MaxEdits \in Nat /\ MaxEdits > 0 /\ MaxTarget \in Nat /\ MaxTarget > 0
    /\ MaxCommands \in Nat /\ MaxFailures \in Nat
  BY ConstantsAssumption

LEMMA ProcessIs ==
    ASSUME TypeOK, NEW w \in Workers, worker[w] # None
    PROVE  /\ worker[w] \in Process /\ worker[w].at \in Labels /\ worker[w].cmd \in Commands
           /\ worker[w].id \in Jobs /\ worker[w].rec \in JobRecord \cup {None}
           /\ worker[w].seen \in 0 .. MaxTarget
  BY DEF TypeOK, Process

LEMMA EndIs ==
    ASSUME TypeOK, NEW w \in Workers, End(w)
    PROVE  /\ worker' \in [Workers -> Process \cup {None}] /\ worker'[w] = None /\ Moves(w)
           /\ jobLock' \in [Jobs -> Workers \cup {None}]
           /\ integrateLock' \in Workers \cup {None}
           /\ \A j \in Jobs : jobLock[j] # w => jobLock'[j] = jobLock[j]
  BY DEF TypeOK, End, Moves

LEMMA GotoWithIs ==
    ASSUME TypeOK, NEW w \in Workers, worker[w] # None,
           NEW l \in Labels, NEW rec \in JobRecord \cup {None}, GotoWith(w, l, rec)
    PROVE  /\ worker' \in [Workers -> Process \cup {None}] /\ worker'[w] \in Process /\ Moves(w)
           /\ worker'[w].at = l /\ worker'[w].rec = rec /\ worker'[w].id = worker[w].id
           /\ worker'[w].cmd = worker[w].cmd /\ worker'[w].seen = worker[w].seen
<1> DEFINE q == [worker[w] EXCEPT !.at = l, !.rec = rec]
<1>1. worker[w] \in Process BY ProcessIs
<1>2. q \in Process BY <1>1 DEF Process
<1>3. /\ q.at = l /\ q.rec = rec /\ q.id = worker[w].id /\ q.cmd = worker[w].cmd
      /\ q.seen = worker[w].seen
  BY <1>1 DEF Process
<1>4. worker' = [worker EXCEPT ![w] = q] BY DEF GotoWith
<1> HIDE DEF q
<1> QED BY <1>2, <1>3, <1>4 DEF TypeOK, Moves

LEMMA GotoIs ==
    ASSUME TypeOK, NEW w \in Workers, worker[w] # None, NEW l \in Labels, Goto(w, l)
    PROVE  /\ worker' \in [Workers -> Process \cup {None}] /\ worker'[w] \in Process /\ Moves(w)
           /\ worker'[w].at = l /\ worker'[w].rec = worker[w].rec /\ worker'[w].id = worker[w].id
           /\ worker'[w].cmd = worker[w].cmd /\ worker'[w].seen = worker[w].seen
<1> DEFINE q == [worker[w] EXCEPT !.at = l]
<1>1. worker[w] \in Process BY ProcessIs
<1>2. q \in Process BY <1>1 DEF Process
<1>3. /\ q.at = l /\ q.rec = worker[w].rec /\ q.id = worker[w].id /\ q.cmd = worker[w].cmd
      /\ q.seen = worker[w].seen
  BY <1>1 DEF Process
<1>4. worker' = [worker EXCEPT ![w] = q] BY DEF Goto
<1> HIDE DEF q
<1> QED BY <1>2, <1>3, <1>4 DEF TypeOK, Moves

LEMMA StartIs ==
    ASSUME TypeOK, NEW w \in Workers, NEW c \in Commands, NEW j \in Jobs, NEW l \in Labels,
           NEW rec \in JobRecord \cup {None}, Start(w, c, j, l, rec)
    PROVE  /\ worker' \in [Workers -> Process \cup {None}] /\ worker'[w] \in Process /\ Moves(w)
           /\ worker'[w].at = l /\ worker'[w].rec = rec /\ worker'[w].id = j
           /\ worker'[w].cmd = c /\ worker[w] = None
           /\ commands' \in 0 .. MaxCommands /\ failures' = failures
<1> DEFINE q == [at |-> l, cmd |-> c, id |-> j, rec |-> rec, seen |-> 0]
<1>1. q \in Process BY Bounds DEF Process
<1>2. q.at = l /\ q.rec = rec /\ q.id = j /\ q.cmd = c OBVIOUS
<1>3. worker' = [worker EXCEPT ![w] = q] /\ worker[w] = None BY DEF Start
<1>4. commands' \in 0 .. MaxCommands /\ failures' = failures BY Bounds DEF Start, TypeOK
<1> HIDE DEF q
<1> QED BY <1>1, <1>2, <1>3, <1>4 DEF TypeOK, Moves

LEMMA CheckpointedIs ==
    ASSUME NEW rec \in JobRecord, NEW c \in Commit, NEW s \in States
    PROVE  /\ Checkpointed(rec, c, s) \in JobRecord
           /\ Checkpointed(rec, c, s).state = s /\ Checkpointed(rec, c, s).last = c
           /\ Checkpointed(rec, c, s).remote = c
           /\ Checkpointed(rec, c, s).base = rec.base
           /\ Checkpointed(rec, c, s).integration = rec.integration
  BY DEF Checkpointed, JobRecord

LEMMA IntegratedIs ==
    ASSUME NEW rec \in JobRecord, NEW c \in Commit, NEW i \in 0 .. MaxTarget
    PROVE  LET r == [Checkpointed(rec, c, "integrated") EXCEPT !.integration = i]
           IN  r \in JobRecord /\ r.state = "integrated" /\ r.last = c /\ r.integration = i
<1> DEFINE q == Checkpointed(rec, c, "integrated")
<1>1. q \in JobRecord /\ q.state = "integrated" /\ q.last = c BY CheckpointedIs DEF States
<1> HIDE DEF q
<1>2. LET r == [q EXCEPT !.integration = i]
      IN  r \in JobRecord /\ r.state = "integrated" /\ r.last = c /\ r.integration = i
  BY <1>1 DEF JobRecord
<1> QED BY <1>2 DEF q

LEMMA NewJobIs ==
    ASSUME NEW b \in 0 .. MaxTarget
    PROVE  /\ NewJob(b) \in JobRecord /\ NewJob(b).state = "active"
           /\ NewJob(b).last \in Commit /\ NewJob(b).last = [edits |-> 0, merged |-> b]
           /\ NewJob(b) # None
<1>1. [edits |-> 0, merged |-> b] \in Commit BY Bounds DEF Commit
<1>2. NewJob(b) \in JobRecord BY <1>1, Bounds DEF NewJob, JobRecord, States
<1> QED BY <1>1, <1>2, MarksAssumption DEF NewJob

LEMMA SaveIs ==
    ASSUME TypeOK, NEW w \in Workers, worker[w] # None, NEW rec \in JobRecord, Save(w, rec)
    PROVE  /\ job' \in [Jobs -> JobRecord \cup {None}] /\ job'[worker[w].id] = rec
           /\ \A j \in Jobs \ {worker[w].id} : job'[j] = job[j]
  BY ProcessIs DEF TypeOK, Save

LEMMA PushedIs ==
    ASSUME TypeOK, Len(target) < MaxTarget, NEW e \in Entry, target' = Append(target, e)
    PROVE  /\ target' \in Seq(Entry) /\ Len(target') = Len(target) + 1 /\ Len(target') <= MaxTarget
           /\ target'[Len(target) + 1] = e
           /\ \A i \in 1 .. Len(target) : target'[i] = target[i]
<1>1. target \in Seq(Entry) /\ Len(target) \in Nat /\ MaxTarget \in Nat
  BY Bounds, LenProperties DEF TypeOK
<1> QED BY <1>1, AppendProperties

\* The record that a process saves or keeps as interrupted, conflicted, ....
LEMMA StateIs ==
    ASSUME NEW rec \in JobRecord, NEW s \in States
    PROVE  [rec EXCEPT !.state = s] \in JobRecord /\ [rec EXCEPT !.state = s].state = s
  BY DEF JobRecord

LEMMA HeadIs ==
    ASSUME TypeOK, NEW j \in Jobs
    PROVE  /\ head \in [Jobs -> Commit] /\ head[j] \in Commit
           /\ head[j].edits \in 0 .. MaxEdits /\ head[j].merged \in 0 .. MaxTarget
  BY DEF TypeOK, Commit

LEMMA EditIs ==
    ASSUME TypeOK, NEW j \in Jobs, head[j].edits < MaxEdits, head' = [head EXCEPT ![j].edits = @ + 1]
    PROVE  /\ head' \in [Jobs -> Commit] /\ \A i \in Jobs \ {j} : head'[i] = head[i]
           /\ head'[j].edits = head[j].edits + 1 /\ head'[j].merged = head[j].merged
<1> DEFINE c == [head[j] EXCEPT !.edits = head[j].edits + 1]
<1>1. /\ head \in [Jobs -> Commit] /\ head[j] \in Commit
      /\ head[j].edits \in 0 .. MaxEdits
  BY HeadIs
<1>2. head[j].edits + 1 \in 0 .. MaxEdits BY <1>1, Bounds
<1>3. c \in Commit /\ c.edits = head[j].edits + 1 /\ c.merged = head[j].merged
  BY <1>1, <1>2 DEF Commit
<1>4. head' = [head EXCEPT ![j] = c] OBVIOUS
<1> HIDE DEF c
<1> QED BY <1>1, <1>3, <1>4

LEMMA MergeIs ==
    ASSUME TypeOK, NEW j \in Jobs, NEW m \in 0 .. MaxTarget, head' = [head EXCEPT ![j].merged = m]
    PROVE  /\ head' \in [Jobs -> Commit] /\ \A i \in Jobs \ {j} : head'[i] = head[i]
           /\ head'[j].edits = head[j].edits /\ head'[j].merged = m
<1> DEFINE c == [head[j] EXCEPT !.merged = m]
<1>1. head \in [Jobs -> Commit] /\ head[j] \in Commit BY HeadIs
<1>3. c \in Commit /\ c.edits = head[j].edits /\ c.merged = m BY <1>1 DEF Commit
<1>4. head' = [head EXCEPT ![j] = c] OBVIOUS
<1> HIDE DEF c
<1> QED BY <1>1, <1>3, <1>4

LEMMA RecKnown ==
    ASSUME IInv, NEW w \in Workers, worker[w] # None, worker[w].at \notin {"wait", "reconcile"}
    PROVE  worker[w].rec \in JobRecord
  BY ProcessIs DEF IInv, WorkerInv, ProcessInv

-----------------------------------------------------------------------------
(***************************************************************************)
(* Every step keeps the types.                                             *)
(***************************************************************************)
LEMMA InitTyped == Init => TypeOK
<1> SUFFICES ASSUME Init PROVE TypeOK OBVIOUS
<1> USE Bounds
<1>1. PICK phase \in [Jobs -> {"none", "created", "edited"}] :
         LET edits(j) == IF phase[j] = "edited" THEN 1 ELSE 0
             commit(j) == [edits |-> edits(j), merged |-> 0]
         IN  /\ head = [j \in Jobs |-> commit(j)]
             /\ branch = [j \in Jobs |-> IF phase[j] = "edited" THEN commit(j) ELSE None]
             /\ worktree = [j \in Jobs |-> IF phase[j] = "none" THEN "absent" ELSE "present"]
             /\ job = [j \in Jobs |->
                  CASE phase[j] = "none"    -> None
                    [] phase[j] = "created" -> NewJob(0)
                    [] OTHER -> Checkpointed(NewJob(0), commit(j), "active")]
  BY DEF Init
<1> DEFINE commit(j) == [edits |-> IF phase[j] = "edited" THEN 1 ELSE 0, merged |-> 0]
<1>2. \A j \in Jobs : commit(j) \in Commit BY DEF Commit
<1>3. NewJob(0) \in JobRecord /\ \A j \in Jobs : Checkpointed(NewJob(0), commit(j), "active") \in JobRecord
  <2>0. 0 \in 0 .. MaxTarget OBVIOUS
  <2>1. NewJob(0) \in JobRecord BY <2>0, NewJobIs
  <2> HIDE DEF commit
  <2> QED BY <1>2, <2>1, CheckpointedIs DEF States
<1>4. head \in [Jobs -> Commit] /\ branch \in [Jobs -> Commit \cup {None}] BY <1>1, <1>2
<1>5. job \in [Jobs -> JobRecord \cup {None}]
  <2>1. job = [j \in Jobs |-> CASE phase[j] = "none"    -> None
                                [] phase[j] = "created" -> NewJob(0)
                                [] OTHER -> Checkpointed(NewJob(0), commit(j), "active")]
    BY <1>1
  <2> HIDE DEF commit
  <2>2. \A j \in Jobs : job[j] \in JobRecord \cup {None} BY <1>3, <2>1
  <2> QED BY <2>1, <2>2
<1>6. worktree \in [Jobs -> {"absent", "present", "released"}] BY <1>1
<1>7. target \in Seq(Entry) /\ Len(target) <= MaxTarget /\ fetched \in 0 .. Len(target)
  <2>1. <<>> \in Seq(Entry) /\ Len(<<>>) = 0 OBVIOUS
  <2>2. <<Outside>> \in Seq(Entry) /\ Len(<<Outside>>) = 1 BY DEF Entry
  <2>3. target \in {<<>>, <<Outside>>} /\ fetched = Len(target) BY DEF Init
  <2>4. CASE target = <<>> BY <2>1, <2>3, <2>4
  <2>5. CASE target = <<Outside>> BY <2>2, <2>3, <2>5
  <2> QED BY <2>3, <2>4, <2>5
<1> HIDE DEF commit
<1> QED BY <1>4, <1>5, <1>6, <1>7 DEF Init, TypeOK

LEMMA TypeStep == IInv /\ [Next]_vars => TypeOK'
<1> SUFFICES ASSUME IInv, [Next]_vars PROVE TypeOK' OBVIOUS
<1>t. TypeOK BY DEF IInv
<1>l. Len(target) \in 0 .. MaxTarget /\ fetched \in 0 .. Len(target) /\ target \in Seq(Entry)
  BY <1>t, Bounds, LenProperties DEF TypeOK
<1>w. \A w \in Workers, l \in Labels : At(w, l) => worker[w] # None /\ worker[w].at = l BY DEF At
<1> USE DEF diskVars, treeVars, remoteVars, lockVars, boundVars
<1>1. CASE \E w \in Workers, j \in Jobs : Create(w, j)
  <2>1. PICK w \in Workers, j \in Jobs : Create(w, j) BY <1>1
  <2>2. NewJob(Len(target)) \in JobRecord /\ NewJob(Len(target)).last \in Commit BY <1>l, NewJobIs
  <2>3. /\ worker' \in [Workers -> Process \cup {None}] /\ commands' \in 0 .. MaxCommands
        /\ failures' = failures
    BY <1>t, <2>1, <2>2, StartIs DEF Create, Labels, Commands
  <2> QED BY <1>t, <1>l, <2>1, <2>2, <2>3 DEF Create, TypeOK
<1>2. CASE \E w \in Workers, j \in Jobs, c \in {"exec", "mark", "ensure"} : Load(w, c, j)
  <2>1. PICK w \in Workers, j \in Jobs, c \in {"exec", "mark", "ensure"} : Load(w, c, j) BY <1>2
  <2>2. job[j] \in JobRecord \cup {None} BY <1>t DEF TypeOK
  <2>3. /\ worker' \in [Workers -> Process \cup {None}] /\ commands' \in 0 .. MaxCommands
        /\ failures' = failures
    BY <1>t, <2>1, <2>2, StartIs DEF Load, Labels, Commands
  <2> QED BY <1>t, <2>1, <2>3 DEF Load, TypeOK
<1>3. CASE \E w \in Workers, j \in Jobs, c \in {"ready", "integrate", "finish"} : Queue(w, c, j)
  <2>1. PICK w \in Workers, j \in Jobs, c \in {"ready", "integrate", "finish"} : Queue(w, c, j) BY <1>3
  <2>3. /\ worker' \in [Workers -> Process \cup {None}] /\ commands' \in 0 .. MaxCommands
        /\ failures' = failures
    BY <1>t, <2>1, StartIs DEF Queue, Labels, Commands
  <2> QED BY <1>t, <2>1, <2>3 DEF Queue, TypeOK
<1>4. CASE \E w \in Workers, j \in Jobs : Recover(w, j)
  <2>1. PICK w \in Workers, j \in Jobs : Recover(w, j) BY <1>4
  <2> DEFINE r == [state |-> "interrupted", base |-> head[j].merged, last |-> head[j],
                   remote |-> None, reconciled |-> head[j].merged, integration |-> 0]
  <2>2. r \in JobRecord
    <3>1. head[j] \in Commit /\ head[j].merged \in 0 .. MaxTarget /\ 0 \in 0 .. MaxTarget
      BY <1>t, HeadIs, Bounds
    <3> QED BY <3>1 DEF JobRecord, States
  <2>3. Start(w, "recover", j, "put", r) BY <2>1 DEF Recover
  <2> HIDE DEF r
  <2>4. /\ worker' \in [Workers -> Process \cup {None}] /\ commands' \in 0 .. MaxCommands
        /\ failures' = failures
    BY <1>t, <2>2, <2>3, StartIs DEF Labels, Commands
  <2> QED BY <1>t, <1>l, <2>1, <2>4 DEF Recover, TypeOK
<1>5. CASE \E w \in Workers, j \in Jobs : Collect(w, j)
  <2>1. PICK w \in Workers, j \in Jobs : Collect(w, j) BY <1>5
  <2>2. Release(w, j) /\ job[j] \in JobRecord \cup {None} BY <1>t, <2>1 DEF Collect, TypeOK
  <2>3. CASE Start(w, "gc", j, "save", job[j]) /\ jobLock' = [jobLock EXCEPT ![j] = w]
    <3>1. /\ worker' \in [Workers -> Process \cup {None}] /\ commands' \in 0 .. MaxCommands
          /\ failures' = failures
      BY <1>t, <2>2, <2>3, StartIs DEF Labels, Commands
    <3> QED BY <1>t, <1>l, <2>2, <2>3, <3>1 DEF Release, TypeOK
  <2>4. CASE UNCHANGED <<worker, boundVars, jobLock>> BY <1>t, <1>l, <2>2, <2>4 DEF Release, TypeOK
  <2> QED BY <2>2, <2>3, <2>4 DEF Release
<1>6. CASE \E w \in Workers : Die(w)
  <2>1. PICK w \in Workers : Die(w) BY <1>6
  <2>2. failures' \in 0 .. MaxFailures BY <1>t, <2>1, Bounds DEF Die, TypeOK
  <2> QED BY <1>t, <2>1, <2>2, EndIs DEF Die, TypeOK
<1>7. CASE PushOutside
  <2>1. target' \in Seq(Entry) /\ Len(target') = Len(target) + 1 /\ Len(target') <= MaxTarget
    BY <1>t, <1>7, PushedIs DEF PushOutside, Entry
  <2>2. fetched' \in 0 .. Len(target') BY <1>7, <1>l, <2>1 DEF PushOutside
  <2> QED BY <1>t, <1>7, <2>1, <2>2 DEF PushOutside, TypeOK
<1>8. ASSUME NEW w \in Workers, WorkerStep(w) PROVE TypeOK'
  <2> DEFINE p == worker[w]
  <2>n. worker[w] # None
    BY <1>8 DEF WorkerStep, LockJob, Payload, CommitWork, PublishBranch, SaveCheckpoint, Ready,
                Reconcile, LockTarget, Merge, Land, Verify, OpenReceipt, WriteReceipt,
                SaveIntegrated, MarkReconciled, PushInitial, Put, At
  <2>p. p \in Process /\ p.id \in Jobs /\ p.rec \in JobRecord \cup {None} /\ p.seen \in 0 .. MaxTarget
    BY <1>t, <2>n, ProcessIs
  <2>r. p.at \notin {"wait", "reconcile"} => p.rec \in JobRecord BY <2>n, RecKnown
  <2>h. head[p.id] \in Commit BY <1>t, <2>p, HeadIs
  \* The process ends or goes on, and what else it does is well typed.
  <2>e. ASSUME End(w)
        PROVE  /\ worker' \in [Workers -> Process \cup {None}]
               /\ jobLock' \in [Jobs -> Workers \cup {None}]
               /\ integrateLock' \in Workers \cup {None}
    BY <1>t, <2>e, EndIs
  <2>g. ASSUME NEW l \in Labels, Goto(w, l) PROVE worker' \in [Workers -> Process \cup {None}]
    BY <1>t, <2>n, <2>g, GotoIs
  <2>v. ASSUME NEW l \in Labels, NEW rec \in JobRecord \cup {None}, GotoWith(w, l, rec)
        PROVE  worker' \in [Workers -> Process \cup {None}]
    BY <1>t, <2>n, <2>v, GotoWithIs
  <2>s. ASSUME NEW rec \in JobRecord, Save(w, rec) PROVE job' \in [Jobs -> JobRecord \cup {None}]
    BY <1>t, <2>n, <2>s, SaveIs
  <2>c. ASSUME NEW c \in Commit, NEW s \in States, p.rec \in JobRecord
        PROVE  Checkpointed(p.rec, c, s) \in JobRecord /\ [p.rec EXCEPT !.state = s] \in JobRecord
    BY <2>c, CheckpointedIs, StateIs
  <2>i. ASSUME NEW l \in Labels, NEW rec \in JobRecord, NEW c \in Commit, NEW i \in 0 .. MaxTarget,
               GotoWith(w, l, [Checkpointed(rec, c, "integrated") EXCEPT !.integration = i])
        PROVE  worker' \in [Workers -> Process \cup {None}]
    BY <2>v, <2>i, IntegratedIs
  <2> HIDE DEF p
  <2> USE DEF Labels, States
  <2>1. CASE LockJob(w)
    <3>1. /\ jobLock' = [jobLock EXCEPT ![p.id] = w]
          /\ Goto(w, "payload") \/ GotoWith(w, "ready", job[p.id]) \/ Goto(w, "reconcile")
      BY <2>1 DEF LockJob, p
    <3>2. job[p.id] \in JobRecord \cup {None} BY <1>t, <2>p DEF TypeOK
    <3>3. worker' \in [Workers -> Process \cup {None}]
      <4>1. CASE Goto(w, "payload") \/ Goto(w, "reconcile") BY <2>g, <4>1
      <4>2. CASE GotoWith(w, "ready", job[p.id]) BY <2>v, <3>2, <4>2
      <4> QED BY <3>1, <4>1, <4>2
    <3>4. UNCHANGED <<diskVars, treeVars, remoteVars, fetched, integrateLock, boundVars>>
      BY <2>1 DEF LockJob
    <3>5. jobLock' \in [Jobs -> Workers \cup {None}] BY <1>t, <2>p, <3>1 DEF TypeOK
    <3> QED BY <1>t, <3>3, <3>4, <3>5 DEF TypeOK
  <2>2. CASE Payload(w)
    <3>1. At(w, "payload") BY <2>2 DEF Payload
    <3>2. p.rec \in JobRecord BY <1>w, <2>r, <3>1 DEF p
    <3>3. UNCHANGED <<receipt, worktree, remoteVars, fetched, boundVars>> BY <2>2 DEF Payload
    <3>4. CASE End(w) /\ UNCHANGED <<job, head, dirty>>
      BY <1>t, <2>e, <3>3, <3>4 DEF TypeOK
    <3>5. CASE /\ PayloadEffect(p.id)
               /\ \/ Save(w, [p.rec EXCEPT !.state = "interrupted"]) /\ End(w)
                  \/ UNCHANGED job /\ End(w)
                  \/ dirty'[p.id] /\ Goto(w, "commit") /\ UNCHANGED <<job, lockVars>>
      <4>1. head' \in [Jobs -> Commit] /\ dirty' \in [Jobs -> BOOLEAN]
        <5>1. CASE dirty' = [dirty EXCEPT ![p.id] = TRUE] /\ UNCHANGED head
          BY <1>t, <5>1 DEF TypeOK
        <5>2. CASE /\ Room(p.id) /\ head' = [head EXCEPT ![p.id].edits = @ + 1] /\ UNCHANGED dirty
          <6>1. head[p.id].edits < MaxEdits BY <1>t, <2>p, <5>2, HeadIs, Bounds DEF Room
          <6> QED BY <1>t, <2>p, <5>2, <6>1, EditIs DEF TypeOK
        <5>3. CASE head' = [head EXCEPT ![p.id].merged = fetched] /\ UNCHANGED dirty
          <6>1. fetched \in 0 .. MaxTarget BY <1>l, Bounds
          <6> QED BY <1>t, <2>p, <5>3, <6>1, MergeIs DEF TypeOK
        <5>4. CASE UNCHANGED <<head, dirty>> BY <1>t, <5>4 DEF TypeOK
        <5> QED BY <3>5, <5>1, <5>2, <5>3, <5>4 DEF PayloadEffect
      <4>2. job' \in [Jobs -> JobRecord \cup {None}]
        <5>1. [p.rec EXCEPT !.state = "interrupted"] \in JobRecord BY <2>h, <2>c, <3>2
        <5> QED BY <1>t, <2>s, <3>5, <5>1 DEF TypeOK
      <4>3. /\ worker' \in [Workers -> Process \cup {None}]
            /\ jobLock' \in [Jobs -> Workers \cup {None}]
            /\ integrateLock' \in Workers \cup {None}
        BY <1>t, <2>e, <2>g, <3>5 DEF TypeOK
      <4> QED BY <1>t, <3>3, <4>1, <4>2, <4>3 DEF TypeOK
    <3> QED BY <2>2, <3>4, <3>5 DEF Payload, p
  <2>3. CASE CommitWork(w)
    <3>1. At(w, "commit") /\ dirty[p.id] BY <2>3, <2>n DEF CommitWork, At, p, IInv, WorkerInv, ProcessInv
    <3>2. head[p.id].edits < MaxEdits BY <2>p, <3>1 DEF IInv, JobInv
    <3>3. head' = [head EXCEPT ![p.id].edits = @ + 1]
      <4>1. head' = [head EXCEPT ![p.id].edits = IF dirty[p.id] THEN @ + 1 ELSE @]
        BY <2>3 DEF CommitWork, p
      <4> QED BY <3>1, <4>1
    <3>4. head' \in [Jobs -> Commit] BY <1>t, <2>p, <3>2, <3>3, EditIs
    <3>5. dirty' \in [Jobs -> BOOLEAN] BY <1>t, <2>3 DEF CommitWork, TypeOK
    <3> QED BY <1>t, <2>3, <2>g, <3>4, <3>5 DEF CommitWork, TypeOK
  <2>4. CASE PublishBranch(w)
    <3>1. p.rec \in JobRecord BY <1>w, <2>4, <2>r DEF PublishBranch, p
    <3>2. [p.rec EXCEPT !.state = "interrupted"] \in JobRecord BY <2>h, <2>c, <3>1
    <3>3. branch' \in {branch, [branch EXCEPT ![p.id] = head[p.id]]} BY <2>4 DEF PublishBranch, p
    <3>4. branch' \in [Jobs -> Commit \cup {None}] BY <1>t, <2>h, <3>3 DEF TypeOK
    <3>5. job' \in [Jobs -> JobRecord \cup {None}]
      <4>1. Save(w, [p.rec EXCEPT !.state = "interrupted"]) \/ UNCHANGED job
        BY <2>4 DEF PublishBranch, p
      <4> QED BY <1>t, <2>s, <3>2, <4>1 DEF TypeOK
    <3>6. /\ End(w) \/ (Goto(w, "checkpoint") /\ UNCHANGED lockVars)
          /\ UNCHANGED <<receipt, treeVars, target, fetched, boundVars>>
      BY <2>4 DEF PublishBranch
    <3> QED BY <1>t, <2>e, <2>g, <3>4, <3>5, <3>6 DEF TypeOK
  <2>5. CASE SaveCheckpoint(w)
    <3>1. p.rec \in JobRecord BY <1>w, <2>5, <2>r DEF SaveCheckpoint, p
    <3> DEFINE r == Checkpointed(p.rec, head[p.id], "active")
    <3>2. r \in JobRecord BY <2>h, <2>c, <3>1
    <3>3. /\ Save(w, r) /\ UNCHANGED <<receipt, treeVars, remoteVars, fetched, boundVars>>
          /\ End(w) \/ (GotoWith(w, "ready", r) /\ UNCHANGED lockVars)
      BY <2>5 DEF SaveCheckpoint, p
    <3> HIDE DEF r
    <3> QED BY <1>t, <2>e, <2>v, <2>s, <3>2, <3>3 DEF TypeOK
  <2>6. CASE Ready(w)
    <3>1. p.rec \in JobRecord BY <1>w, <2>6, <2>r DEF Ready, p
    <3> DEFINE r == Checkpointed(p.rec, head[p.id], "ready")
    <3>2. r \in JobRecord BY <2>h, <2>c, <3>1
    <3>3. /\ Save(w, r) \/ UNCHANGED job
          /\ \/ End(w) \/ (Goto(w, "commit") /\ UNCHANGED lockVars)
             \/ /\ worker' = [worker EXCEPT ![w].at = "reconcile", ![w].cmd = "integrate"]
                /\ UNCHANGED lockVars
          /\ UNCHANGED <<receipt, treeVars, remoteVars, fetched, boundVars>>
      BY <2>6 DEF Ready, p
    <3> HIDE DEF r
    <3>4. [p EXCEPT !.at = "reconcile", !.cmd = "integrate"] \in Process
      BY <2>p DEF Process, Commands
    <3>5. worker' = [worker EXCEPT ![w].at = "reconcile", ![w].cmd = "integrate"]
            => worker' \in [Workers -> Process \cup {None}]
      BY <1>t, <3>4 DEF TypeOK, p
    <3>6. job' \in [Jobs -> JobRecord \cup {None}] BY <1>t, <2>s, <3>2, <3>3 DEF TypeOK
    <3> QED BY <1>t, <2>e, <2>g, <3>3, <3>5, <3>6 DEF TypeOK
  <2>7. CASE Reconcile(w)
    <3> DEFINE r == job[p.id]
               found == Matches(p.id, r)
    <3>1. r \in JobRecord
      <4>1. p.at = "reconcile" BY <1>w, <2>7 DEF Reconcile, p
      <4>2. r # None BY <2>n, <4>1 DEF IInv, WorkerInv, ProcessInv, p
      <4> QED BY <1>t, <2>p, <4>2 DEF TypeOK
    <3>2. CheckpointOf(r) \in Commit BY <3>1 DEF CheckpointOf, JobRecord
    <3>3. found \subseteq 0 .. MaxTarget BY <1>l, Bounds DEF Matches
    <3>4. \/ End(w)
          \/ /\ UNCHANGED lockVars
             /\ \/ \E i \in found : GotoWith(w, "receipt",
                      [Checkpointed(r, CheckpointOf(r), "integrated") EXCEPT !.integration = i])
                \/ \E l \in {"commit", "ready", "queue"} : GotoWith(w, l, r)
      BY <2>7 DEF Reconcile, p
    <3>5. fetched' = Len(target) /\ UNCHANGED <<diskVars, treeVars, remoteVars, boundVars>>
      BY <2>7 DEF Reconcile
    <3> HIDE DEF r, found
    <3>6. /\ worker' \in [Workers -> Process \cup {None}]
          /\ jobLock' \in [Jobs -> Workers \cup {None}]
          /\ integrateLock' \in Workers \cup {None}
      <4>1. CASE End(w) BY <2>e, <4>1
      <4>2. CASE /\ UNCHANGED lockVars
                 /\ \E i \in found : GotoWith(w, "receipt",
                      [Checkpointed(r, CheckpointOf(r), "integrated") EXCEPT !.integration = i])
        <5>1. worker' \in [Workers -> Process \cup {None}] BY <2>i, <3>1, <3>2, <3>3, <4>2
        <5> QED BY <1>t, <4>2, <5>1 DEF TypeOK
      <4>3. CASE UNCHANGED lockVars /\ \E l \in {"commit", "ready", "queue"} : GotoWith(w, l, r)
        BY <1>t, <2>v, <3>1, <4>3 DEF TypeOK
      <4> QED BY <3>4, <4>1, <4>2, <4>3
    <3> QED BY <1>t, <1>l, <3>5, <3>6 DEF TypeOK
  <2>8. CASE LockTarget(w)
    <3>1. [p EXCEPT !.at = "merge", !.seen = Len(target)] \in Process
      BY <1>l, <2>p DEF Process
    <3>2. worker' = [worker EXCEPT ![w].at = "merge", ![w].seen = Len(target)]
      BY <2>8 DEF LockTarget
    <3>3. worker' \in [Workers -> Process \cup {None}] BY <1>t, <3>1, <3>2 DEF TypeOK, p
    <3> QED BY <1>t, <1>l, <2>8, <3>3 DEF LockTarget, TypeOK
  <2>9. CASE Merge(w)
    <3>1. p.rec \in JobRecord BY <1>w, <2>9, <2>r DEF Merge, p
    <3>2. [p.rec EXCEPT !.state = "conflicted"] \in JobRecord BY <2>h, <2>c, <3>1
    <3>3. /\ Save(w, [p.rec EXCEPT !.state = "conflicted"]) \/ UNCHANGED job
          /\ End(w) \/ (Goto(w, "land") /\ UNCHANGED lockVars)
          /\ UNCHANGED <<receipt, treeVars, remoteVars, fetched, boundVars>>
      BY <2>9 DEF Merge, p
    <3>4. job' \in [Jobs -> JobRecord \cup {None}] BY <1>t, <2>s, <3>2, <3>3 DEF TypeOK
    <3> QED BY <1>t, <2>e, <2>g, <3>3, <3>4 DEF TypeOK
  <2>10. CASE Land(w)
    <3>1. p.rec \in JobRecord BY <1>w, <2>10, <2>r DEF Land, p
    <3> DEFINE e == [by |-> p.id, base |-> p.rec.base, checkpoint |-> head[p.id]]
    <3>2. e \in Entry BY <2>p, <2>h, <3>1 DEF Entry, Landed, JobRecord
    <3>3. /\ UNCHANGED target \/ (Len(target) < MaxTarget /\ target' = Append(target, e))
          /\ End(w) \/ (Goto(w, "verify") /\ UNCHANGED lockVars)
          /\ fetched' = Len(target) /\ UNCHANGED <<diskVars, treeVars, branch, boundVars>>
      BY <2>10 DEF Land, p
    <3> HIDE DEF e
    <3>4. target' \in Seq(Entry) /\ Len(target') <= MaxTarget /\ fetched' \in 0 .. Len(target')
      <4>1. CASE UNCHANGED target BY <1>t, <1>l, <3>3, <4>1 DEF TypeOK
      <4>2. CASE Len(target) < MaxTarget /\ target' = Append(target, e)
        BY <1>t, <1>l, <3>2, <3>3, <4>2, PushedIs
      <4> QED BY <3>3, <4>1, <4>2
    <3> QED BY <1>t, <2>e, <2>g, <3>3, <3>4 DEF TypeOK
  <2>11. CASE Verify(w)
    <3>1. p.rec \in JobRecord BY <1>w, <2>11, <2>r DEF Verify, p
    <3> DEFINE r == [Checkpointed(p.rec, head[p.id], "integrated") EXCEPT !.integration = p.seen + 1]
    <3>2. \/ End(w)
          \/ Len(target) = p.seen + 1 /\ GotoWith(w, "receipt", r) /\ UNCHANGED lockVars
      BY <2>11 DEF Verify, p
    <3>3. Len(target) = p.seen + 1 => p.seen + 1 \in 0 .. MaxTarget BY <1>l
    <3>4. UNCHANGED <<diskVars, treeVars, remoteVars, fetched, boundVars>> BY <2>11 DEF Verify
    <3> QED BY <1>t, <2>e, <2>i, <2>h, <3>1, <3>2, <3>3, <3>4 DEF TypeOK
  <2>12. CASE OpenReceipt(w)
    <3>1. /\ receipt' = receipt \/ receipt' = [receipt EXCEPT ![p.id] = Torn]
          /\ End(w) \/ (\E l \in {"write", "save"} : Goto(w, l) /\ UNCHANGED lockVars)
          /\ UNCHANGED <<job, treeVars, remoteVars, fetched, boundVars>>
      BY <2>12 DEF OpenReceipt, p
    <3>2. receipt' \in [Jobs -> Receipt \cup {None, Torn}] BY <1>t, <3>1 DEF TypeOK
    <3> QED BY <1>t, <2>e, <2>g, <3>1, <3>2 DEF TypeOK
  <2>13. CASE WriteReceipt(w)
    <3>1. p.rec \in JobRecord /\ Told(p.id, p.rec)
      BY <1>w, <2>n, <2>13, <2>r DEF WriteReceipt, IInv, WorkerInv, ProcessInv, p
    <3>2. ReceiptOf(p.rec) \in Receipt
      BY <1>l, <3>1, Bounds DEF ReceiptOf, Receipt, JobRecord, Told
    <3>3. /\ receipt' = [receipt EXCEPT ![p.id] = ReceiptOf(p.rec)]
          /\ Goto(w, "save") /\ UNCHANGED <<job, treeVars, remoteVars, fetched, lockVars, boundVars>>
      BY <2>13 DEF WriteReceipt, p
    <3>4. receipt' \in [Jobs -> Receipt \cup {None, Torn}] BY <1>t, <3>2, <3>3 DEF TypeOK
    <3> QED BY <1>t, <2>g, <3>3, <3>4 DEF TypeOK
  <2>14. CASE SaveIntegrated(w)
    <3>1. p.rec \in JobRecord BY <1>w, <2>14, <2>r DEF SaveIntegrated, p
    <3>2. Save(w, p.rec) /\ End(w) BY <2>14 DEF SaveIntegrated, p
    <3>3. UNCHANGED <<receipt, treeVars, remoteVars, fetched, boundVars>> BY <2>14 DEF SaveIntegrated
    <3> QED BY <1>t, <2>e, <2>s, <3>1, <3>2, <3>3 DEF TypeOK
  <2>15. CASE MarkReconciled(w)
    <3>1. p.rec \in JobRecord BY <1>w, <2>15, <2>r DEF MarkReconciled, p
    <3> DEFINE r == [p.rec EXCEPT !.reconciled = Len(target)]
    <3>2. r \in JobRecord BY <1>l, <3>1 DEF JobRecord
    <3>3. /\ End(w) \/ (GotoWith(w, "put", r) /\ UNCHANGED lockVars)
          /\ fetched' = Len(target) /\ UNCHANGED <<diskVars, treeVars, remoteVars, boundVars>>
      BY <2>15 DEF MarkReconciled, p
    <3> HIDE DEF r
    <3> QED BY <1>t, <1>l, <2>e, <2>v, <3>2, <3>3 DEF TypeOK
  <2>16. CASE PushInitial(w)
    <3>1. p.rec \in JobRecord BY <1>w, <2>16, <2>r DEF PushInitial, p
    <3> DEFINE r == [p.rec EXCEPT !.remote = head[p.id]]
    <3>2. r \in JobRecord BY <2>h, <3>1 DEF JobRecord
    <3>3. /\ End(w) \/ (GotoWith(w, "put", r) /\ UNCHANGED lockVars)
          /\ branch' = branch \/ branch' = [branch EXCEPT ![p.id] = head[p.id]]
          /\ UNCHANGED <<diskVars, treeVars, target, fetched, boundVars>>
      BY <2>16 DEF PushInitial, p
    <3> HIDE DEF r
    <3>4. branch' \in [Jobs -> Commit \cup {None}] BY <1>t, <2>h, <3>3 DEF TypeOK
    <3> QED BY <1>t, <2>e, <2>v, <3>2, <3>3, <3>4 DEF TypeOK
  <2>17. CASE Put(w)
    <3>1. p.rec \in JobRecord BY <1>w, <2>17, <2>r DEF Put, p
    <3>2. [p EXCEPT !.at = "check", !.cmd = "ensure"] \in Process BY <2>p DEF Process, Commands
    <3>3. /\ Save(w, p.rec) /\ UNCHANGED <<receipt, treeVars, remoteVars, fetched, boundVars>>
          /\ \/ End(w)
             \/ /\ worker' = [worker EXCEPT ![w].at = "check", ![w].cmd = "ensure"]
                /\ UNCHANGED lockVars
      BY <2>17 DEF Put, p
    <3>4. worker' = [worker EXCEPT ![w].at = "check", ![w].cmd = "ensure"]
            => worker' \in [Workers -> Process \cup {None}]
      BY <1>t, <3>2 DEF TypeOK, p
    <3> QED BY <1>t, <2>e, <2>s, <3>1, <3>3, <3>4 DEF TypeOK
  <2> QED
    BY <1>8, <2>1, <2>2, <2>3, <2>4, <2>5, <2>6, <2>7, <2>8, <2>9, <2>10, <2>11, <2>12, <2>13,
       <2>14, <2>15, <2>16, <2>17 DEF WorkerStep
<1>9. CASE UNCHANGED vars BY <1>9, <1>t DEF vars, TypeOK
<1> QED BY <1>1, <1>2, <1>3, <1>4, <1>5, <1>6, <1>7, <1>8, <1>9 DEF Next, Begin

-----------------------------------------------------------------------------
(***************************************************************************)
(* What a step must respect for the invariant to hold on: the job of a     *)
(* process that holds its lock, written receipts, and the target so far.   *)
(***************************************************************************)
Grows == Len(target') >= Len(target) /\ \A i \in 1 .. Len(target) : target'[i] = target[i]

Respects(v) ==
    \A j \in Jobs : (worker[v] # None /\ worker[v].id = j /\ jobLock[j] = v) =>
       /\ jobLock'[j] = v /\ head'[j] = head[j] /\ dirty'[j] = dirty[j]
       /\ receipt[j] = Torn => receipt'[j] = Torn

Persists ==
    \A j \in Jobs :
       /\ worktree[j] # "absent" => worktree'[j] # "absent"
       /\ job[j] # None => job'[j] # None
       /\ receipt[j] \in Receipt => receipt'[j] = receipt[j]

ReceiptInv(j) ==
    receipt[j] \in Receipt =>
       /\ receipt[j].integration \in 1 .. Len(target)
       /\ IsOf(target[receipt[j].integration], j)
       /\ target[receipt[j].integration].checkpoint = receipt[j].checkpoint

ReleaseInv(j) ==
    worktree[j] = "released" =>
       /\ ~dirty[j]
       /\ \E i \in 1 .. Len(target) : IsOf(target[i], j) /\ target[i].checkpoint = head[j]

\* What a process relies on, if no other process disturbs it.
LEMMA Undisturbed ==
    ASSUME IInv, TypeOK', NEW v \in Workers, worker[v] # None, worker'[v] = worker[v],
           Respects(v), Persists, Grows
    PROVE  ProcessInv(v, worker[v])'
<1>0. SUFFICES ASSUME NEW p, p = worker[v] PROVE ProcessInv(v, p)' OBVIOUS
<1>1. ProcessInv(v, p) BY <1>0 DEF IInv, WorkerInv
<1>2. p \in Process /\ p.id \in Jobs /\ p.seen \in 0 .. MaxTarget /\ p.rec \in JobRecord \cup {None}
  BY <1>0, ProcessIs DEF IInv
<1>3. Len(target) \in Nat /\ Len(target') \in Nat BY LenProperties DEF IInv, TypeOK
<1>4. worktree'[p.id] # "absent" /\ (p.at # "put" => job'[p.id] # None)
  BY <1>1, <1>2 DEF ProcessInv, Persists
<1>5. p.at \in Held => /\ jobLock'[p.id] = v /\ head'[p.id] = head[p.id] /\ dirty'[p.id] = dirty[p.id]
                       /\ receipt[p.id] = Torn => receipt'[p.id] = Torn
  BY <1>0, <1>1, <1>2 DEF ProcessInv, Respects
<1>6. (p.rec # None /\ p.at \notin {"receipt", "write"}) => Recorded(p.id, p.rec)'
  BY <1>1, <1>2 DEF ProcessInv, Recorded, Persists, ReceiptOf
<1>7. p.at \in {"merge", "land"} => p.seen <= Len(target')
  BY <1>1, <1>2, <1>3, Bounds DEF ProcessInv, Grows
<1>8. p.at = "land" => Lands(p)'
  <2> SUFFICES ASSUME p.at = "land" PROVE Lands(p)' OBVIOUS
  <2>1. Lands(p) /\ p.seen <= Len(target) /\ head'[p.id] = head[p.id] /\ p.rec \in JobRecord
    BY <1>1, <1>2, <1>5 DEF ProcessInv, Held, Labels
  <2>2. \A i \in 1 .. p.seen : target'[i] = target[i] BY <1>2, <1>3, <2>1, Bounds DEF Grows
  <2>3. p.rec.base \in 0 .. MaxTarget BY <2>1 DEF JobRecord
  <2>4. Overlaps(p.id, p.rec.base, p.seen)' => Overlaps(p.id, p.rec.base, p.seen)
    <3>1. \A i \in p.rec.base + 1 .. p.seen : i \in 1 .. p.seen BY <1>2, <2>3, Bounds
    <3> QED BY <2>2, <3>1 DEF Overlaps
  <2> QED BY <2>1, <2>2, <2>4 DEF Lands, IsOf
<1>9. p.at = "verify" => /\ p.seen + 1 <= Len(target') /\ IsOf(target'[p.seen + 1], p.id)
                         /\ target'[p.seen + 1].checkpoint = head'[p.id]
  <2> SUFFICES ASSUME p.at = "verify"
               PROVE  /\ p.seen + 1 <= Len(target') /\ IsOf(target'[p.seen + 1], p.id)
                      /\ target'[p.seen + 1].checkpoint = head'[p.id]
    OBVIOUS
  <2>1. /\ p.seen + 1 <= Len(target) /\ IsOf(target[p.seen + 1], p.id)
        /\ target[p.seen + 1].checkpoint = head[p.id] /\ head'[p.id] = head[p.id]
    BY <1>1, <1>5 DEF ProcessInv, Held, Labels
  <2>2. p.seen + 1 \in 1 .. Len(target) /\ p.seen + 1 <= Len(target')
    BY <1>2, <1>3, <2>1, Bounds DEF Grows
  <2> QED BY <2>1, <2>2 DEF Grows
<1>10. p.at \in {"receipt", "write", "save"} => Told(p.id, p.rec)'
  BY <1>1, <1>3 DEF ProcessInv, Told, Grows, IsOf
<1>11. (p.at = "commit" => dirty'[p.id]) /\ (p.at = "write" => receipt'[p.id] = Torn)
  BY <1>1, <1>5 DEF ProcessInv, Held, Labels
<1>12. (p.at \notin {"wait", "reconcile"} \/ p.cmd = "exec") => p.rec # None BY <1>1 DEF ProcessInv
<1> QED
  BY <1>4, <1>5, <1>6, <1>7, <1>8, <1>9, <1>10, <1>11, <1>12 DEF ProcessInv

LEMMA Respected ==
    ASSUME IInv, TypeOK', NEW w, Moves(w), Persists, Grows,
           \A v \in Workers \ {w} : Respects(v),
           w \in Workers /\ worker'[w] # None => ProcessInv(w, worker[w])',
           \A j \in Jobs : /\ UNCHANGED job[j] \/ (worktree'[j] # "absent" /\ Recorded(j, job[j])')
                           /\ UNCHANGED <<head[j], dirty[j]>> \/ (dirty'[j] => head'[j].edits < MaxEdits)
                           /\ UNCHANGED receipt[j] \/ ReceiptInv(j)'
                           /\ UNCHANGED <<worktree[j], head[j], dirty[j]>> \/ ReleaseInv(j)',
           target' \in {target, Append(target, Outside)} \/ (ReconciledBeforeIntegrated /\ EditsLandOnce)'
    PROVE  IInv'
<1>1. WorkerInv'
  <2> SUFFICES ASSUME NEW v \in Workers, worker'[v] # None PROVE ProcessInv(v, worker[v])'
    BY DEF WorkerInv
  <2>1. CASE v = w BY <2>1
  <2>2. CASE v # w
    <3>1. worker'[v] = worker[v] BY <2>2 DEF Moves
    <3> QED BY <2>2, <3>1, Undisturbed
  <2> QED BY <2>1, <2>2
<1>2. Len(target) \in Nat /\ Len(target') \in Nat /\ target \in Seq(Entry)
  BY LenProperties DEF IInv, TypeOK
<1>3. ASSUME NEW j \in Jobs
      PROVE  /\ job'[j] # None => worktree'[j] # "absent" /\ Recorded(j, job[j])'
             /\ dirty'[j] => head'[j].edits < MaxEdits
             /\ ReceiptInv(j)' /\ ReleaseInv(j)'
  <2>1. /\ job[j] # None => worktree[j] # "absent" /\ Recorded(j, job[j])
        /\ dirty[j] => head[j].edits < MaxEdits
        /\ ReceiptInv(j) /\ ReleaseInv(j)
    BY DEF IInv, JobInv, ReceiptInv, ReleaseInv, ReleasedIsIntegrated
  <2>2. job'[j] # None => worktree'[j] # "absent" /\ Recorded(j, job[j])'
    BY <2>1 DEF Persists, Recorded, ReceiptOf
  <2>3. ReceiptInv(j)' BY <1>2, <2>1 DEF ReceiptInv, Grows, IsOf
  <2>4. ReleaseInv(j)'
    <3>1. CASE ReleaseInv(j)' BY <3>1
    <3>2. CASE UNCHANGED <<worktree[j], head[j], dirty[j]>>
      <4>1. \A i \in 1 .. Len(target) : i \in 1 .. Len(target') /\ target'[i] = target[i]
        BY <1>2 DEF Grows
      <4> QED BY <2>1, <3>2, <4>1 DEF ReleaseInv, IsOf
    <3> QED BY <3>1, <3>2
  <2> QED BY <2>1, <2>2, <2>3, <2>4
<1>4. (ReconciledBeforeIntegrated /\ EditsLandOnce)'
  <2>1. CASE target' = target
    BY <2>1 DEF IInv, ReconciledBeforeIntegrated, EditsLandOnce
  <2>2. CASE target' = Append(target, Outside)
    <3> DEFINE n == Len(target)
    <3>1. /\ Len(target') = n + 1 /\ target'[n + 1] = Outside
          /\ \A i \in 1 .. n : target'[i] = target[i]
      BY <1>2, <2>2, AppendProperties DEF Entry
    <3> HIDE DEF n
    <3>2. \A k \in 1 .. n + 1 : target'[k] # Outside => k \in 1 .. n BY <1>2, <3>1 DEF n
    <3>3. ASSUME NEW k \in 1 .. n, target[k] # Outside
          PROVE  ~ \E i \in target[k].base + 1 .. k - 1 :
                     /\ i > target[k].checkpoint.merged
                     /\ IF target'[i] = Outside THEN Outside \in Overlap[target[k].by]
                        ELSE target'[i].by \in Overlap[target[k].by] \cup {target[k].by}
      <4>1. target[k] \in Landed BY <1>2, <3>3, ElementOfSeq DEF n, Entry
      <4>2. target[k].base \in 0 .. MaxTarget BY <4>1 DEF Landed
      <4>3. \A i \in target[k].base + 1 .. k - 1 : target'[i] = target[i]
        BY <1>2, <3>1, <4>2, Bounds DEF n
      <4> QED BY <3>3, <4>3 DEF IInv, ReconciledBeforeIntegrated, n
    <3>4. ReconciledBeforeIntegrated'
      <4> SUFFICES ASSUME NEW k \in 1 .. Len(target'), target'[k] # Outside
                   PROVE  ~ \E i \in target'[k].base + 1 .. k - 1 :
                     /\ i > target'[k].checkpoint.merged
                     /\ IF target'[i] = Outside THEN Outside \in Overlap[target'[k].by]
                        ELSE target'[i].by \in Overlap[target'[k].by] \cup {target'[k].by}
        BY DEF ReconciledBeforeIntegrated
      <4>1. k \in 1 .. n /\ target'[k] = target[k] BY <3>1, <3>2
      <4> QED BY <3>3, <4>1
    <3>5. EditsLandOnce'
      BY <3>1, <3>2 DEF IInv, EditsLandOnce, n
    <3> QED BY <3>4, <3>5
  <2> QED BY <2>1, <2>2
<1> QED BY <1>1, <1>3, <1>4 DEF IInv, JobInv, ReceiptInv, ReleaseInv, ReleasedIsIntegrated

\* A step that touches neither receipts, nor branches and worktrees, nor the target.
LEMMA Quiet ==
    ASSUME IInv, TypeOK', NEW w, Moves(w), UNCHANGED <<receipt, treeVars, target>>,
           \A v \in Workers \ {w}, j \in Jobs : jobLock[j] = v => jobLock'[j] = v,
           \A j \in Jobs : \/ UNCHANGED job[j]
                           \/ job'[j] # None /\ worktree[j] # "absent" /\ Recorded(j, job'[j]),
           w \in Workers /\ worker'[w] # None => ProcessInv(w, worker[w])'
    PROVE  IInv'
<1>1. Grows BY LenProperties DEF Grows, IInv, TypeOK
<1>2. Persists BY DEF Persists, treeVars
<1>3. \A v \in Workers \ {w} : Respects(v) BY DEF Respects, treeVars
<1>4. \A j \in Jobs : UNCHANGED job[j] \/ (worktree'[j] # "absent" /\ Recorded(j, job[j])')
  BY DEF Recorded, treeVars, ReceiptOf
<1> QED BY <1>1, <1>2, <1>3, <1>4, Respected DEF treeVars

\* ... and ends the process, with or without saving a record of its job,
LEMMA QuietEnd ==
    ASSUME IInv, TypeOK', NEW w \in Workers, worker[w] # None, End(w),
           UNCHANGED <<receipt, treeVars, target>>,
           \/ UNCHANGED job
           \/ \E rec \in JobRecord : Save(w, rec) /\ Recorded(worker[w].id, rec)
    PROVE  IInv'
<1>1. /\ worker'[w] = None /\ Moves(w)
      /\ \A j \in Jobs : jobLock[j] # w => jobLock'[j] = jobLock[j]
  BY EndIs DEF IInv
<1>2. worktree[worker[w].id] # "absent" BY DEF IInv, WorkerInv, ProcessInv
<1>3. \A rec \in JobRecord : rec # None BY MarksAssumption
<1>4. \A j \in Jobs : \/ UNCHANGED job[j]
                      \/ job'[j] # None /\ worktree[j] # "absent" /\ Recorded(j, job'[j])
  BY <1>2, <1>3, SaveIs DEF IInv
<1> QED BY <1>1, <1>4, Quiet

\* ... or lets it go on.
LEMMA QuietGoes ==
    ASSUME IInv, TypeOK', NEW w \in Workers, worker[w] # None, Moves(w),
           ProcessInv(w, worker[w])', UNCHANGED <<receipt, treeVars, target, lockVars>>,
           \/ UNCHANGED job
           \/ \E rec \in JobRecord : Save(w, rec) /\ Recorded(worker[w].id, rec)
    PROVE  IInv'
<1>1. worktree[worker[w].id] # "absent" BY DEF IInv, WorkerInv, ProcessInv
<1>2. \A rec \in JobRecord : rec # None BY MarksAssumption
<1>3. \A j \in Jobs : \/ UNCHANGED job[j]
                      \/ job'[j] # None /\ worktree[j] # "absent" /\ Recorded(j, job'[j])
  BY <1>1, <1>2, SaveIs DEF IInv
<1> QED BY <1>3, Quiet DEF lockVars

-----------------------------------------------------------------------------
(***************************************************************************)
(* The steps of a command.                                                 *)
(***************************************************************************)
LEMMA LockJobKeeps == ASSUME IInv, TypeOK', NEW w \in Workers, LockJob(w) PROVE IInv'
<1>0. PICK p : p = worker[w] OBVIOUS
<1>1. worker[w] # None /\ p.at = "wait" BY <1>0 DEF LockJob, At
<1>2. ProcessInv(w, p) /\ TypeOK BY <1>0, <1>1 DEF IInv, WorkerInv
<1>3. p.id \in Jobs BY <1>0, <1>1, <1>2, ProcessIs
<1>4. /\ jobLock[p.id] = None /\ jobLock' = [jobLock EXCEPT ![p.id] = w]
      /\ UNCHANGED <<diskVars, treeVars, remoteVars>>
      /\ \/ p.cmd = "exec" /\ Goto(w, "payload")
         \/ GotoWith(w, "ready", job[p.id])
         \/ Goto(w, "reconcile")
  BY <1>0 DEF LockJob
<1>5. job[p.id] # None /\ job[p.id] \in JobRecord \cup {None} /\ Recorded(p.id, job[p.id])
  BY <1>1, <1>2, <1>3 DEF ProcessInv, IInv, JobInv, TypeOK
<1>6. Moves(w) /\ ProcessInv(w, worker[w])'
  <2>1. PICK q : q = worker'[w] OBVIOUS
  <2>2. jobLock'[p.id] = w BY <1>2, <1>3, <1>4 DEF TypeOK
  <2>3. CASE p.cmd = "exec" /\ Goto(w, "payload")
    <3>1. Moves(w) /\ q.at = "payload" /\ q.rec = p.rec /\ q.id = p.id /\ q.cmd = p.cmd
      BY <1>0, <1>1, <1>2, <2>1, <2>3, GotoIs DEF Labels
    <3>2. ProcessInv(w, q)'
      BY <1>1, <1>2, <1>4, <2>2, <2>3, <3>1
         DEF ProcessInv, Recorded, ReceiptOf, treeVars, diskVars
    <3> QED BY <2>1, <3>1, <3>2
  <2>4. CASE GotoWith(w, "ready", job[p.id])
    <3>1. Moves(w) /\ q.at = "ready" /\ q.rec = job[p.id] /\ q.id = p.id /\ q.cmd = p.cmd
      BY <1>0, <1>1, <1>2, <1>5, <2>1, <2>4, GotoWithIs DEF Labels
    <3>2. ProcessInv(w, q)'
      BY <1>1, <1>2, <1>4, <1>5, <2>2, <3>1
         DEF ProcessInv, Recorded, ReceiptOf, treeVars, diskVars
    <3> QED BY <2>1, <3>1, <3>2
  <2>5. CASE Goto(w, "reconcile")
    <3>1. Moves(w) /\ q.at = "reconcile" /\ q.rec = p.rec /\ q.id = p.id /\ q.cmd = p.cmd
      BY <1>0, <1>1, <1>2, <2>1, <2>5, GotoIs DEF Labels
    <3>2. ProcessInv(w, q)'
      BY <1>1, <1>2, <1>4, <2>2, <3>1
         DEF ProcessInv, Recorded, ReceiptOf, treeVars, diskVars
    <3> QED BY <2>1, <3>1, <3>2
  <2> QED BY <1>4, <2>3, <2>4, <2>5
<1>7. \A v \in Workers \ {w}, j \in Jobs : jobLock[j] = v => jobLock'[j] = v
  BY <1>2, <1>3, <1>4, ConstantsAssumption DEF TypeOK
<1> QED BY <1>4, <1>6, <1>7, Quiet DEF diskVars, remoteVars

LEMMA Doing ==
    ASSUME IInv, NEW w \in Workers, NEW p, p = worker[w], p # None
    PROVE  /\ ProcessInv(w, p) /\ TypeOK /\ p \in Process /\ p.id \in Jobs /\ p.seen \in 0 .. MaxTarget
           /\ p.at \notin {"wait", "reconcile"} => p.rec \in JobRecord
           /\ head[p.id] \in Commit /\ worktree[p.id] # "absent"
  BY ProcessIs, RecKnown, HeadIs DEF IInv, WorkerInv, ProcessInv

\* exec: what the command leaves in its worktree is left under the lock.
LEMMA PayloadKeeps == ASSUME IInv, TypeOK', NEW w \in Workers, Payload(w) PROVE IInv'
<1>0. PICK p : p = worker[w] OBVIOUS
<1>1. worker[w] # None /\ p.at = "payload" BY <1>0 DEF Payload, At
<1>2. /\ ProcessInv(w, p) /\ TypeOK /\ p.id \in Jobs /\ p.rec \in JobRecord
      /\ worktree[p.id] # "absent"
  BY <1>0, <1>1, Doing
<1>3. UNCHANGED <<receipt, worktree, remoteVars, fetched, boundVars>> BY DEF Payload
<1>4. CASE End(w) /\ UNCHANGED <<job, head, dirty>>
  BY <1>1, <1>3, <1>4, QuietEnd DEF treeVars, remoteVars
<1>5. CASE /\ worktree[p.id] = "present" /\ PayloadEffect(p.id)
           /\ \/ Save(w, [p.rec EXCEPT !.state = "interrupted"]) /\ End(w)
              \/ UNCHANGED job /\ End(w)
              \/ dirty'[p.id] /\ Goto(w, "commit") /\ UNCHANGED <<job, lockVars>>
  <2> DEFINE r == [p.rec EXCEPT !.state = "interrupted"]
  <2>1. r \in JobRecord /\ r # None /\ Recorded(p.id, r)'
    <3>1. r \in JobRecord /\ r.state = "interrupted" BY <1>2, StateIs DEF States
    <3> QED BY <3>1, MarksAssumption DEF Recorded
  <2> HIDE DEF r
  <2>2. \A j \in Jobs \ {p.id} : UNCHANGED <<head[j], dirty[j]>>
    <3>1. CASE dirty' = [dirty EXCEPT ![p.id] = TRUE] /\ UNCHANGED head
      BY <1>2, <3>1 DEF TypeOK
    <3>2. CASE Room(p.id) /\ head' = [head EXCEPT ![p.id].edits = @ + 1] /\ UNCHANGED dirty
      <4>1. head[p.id].edits < MaxEdits BY <1>2, <3>2, HeadIs, Bounds DEF Room
      <4> QED BY <1>2, <3>2, <4>1, EditIs
    <3>3. CASE head' = [head EXCEPT ![p.id].merged = fetched] /\ UNCHANGED dirty
      <4>1. fetched \in 0 .. MaxTarget BY <1>2, Bounds, LenProperties DEF TypeOK
      <4> QED BY <1>2, <3>3, <4>1, MergeIs
    <3>4. CASE UNCHANGED <<head, dirty>> BY <3>4
    <3> QED BY <1>5, <3>1, <3>2, <3>3, <3>4 DEF PayloadEffect
  <2>3. dirty'[p.id] => head'[p.id].edits < MaxEdits
    <3>i. dirty[p.id] => head[p.id].edits < MaxEdits BY <1>2 DEF IInv, JobInv
    <3>1. CASE Room(p.id) /\ dirty' = [dirty EXCEPT ![p.id] = TRUE] /\ UNCHANGED head
      BY <1>2, <3>1, HeadIs, Bounds DEF Room
    <3>2. CASE Room(p.id) /\ head' = [head EXCEPT ![p.id].edits = @ + 1] /\ UNCHANGED dirty
      <4>1. head[p.id].edits < MaxEdits /\ (dirty[p.id] => head[p.id].edits + 1 < MaxEdits)
        BY <1>2, <3>2, HeadIs, Bounds DEF Room
      <4> QED BY <1>2, <3>2, <4>1, EditIs
    <3>3. CASE ~dirty[p.id] /\ UNCHANGED dirty BY <3>3
    <3>4. CASE UNCHANGED <<head, dirty>> BY <3>i, <3>4
    <3> QED BY <1>5, <3>1, <3>2, <3>3, <3>4 DEF PayloadEffect
  <2>4. /\ \/ Save(w, r) /\ End(w)
           \/ UNCHANGED job /\ End(w)
           \/ dirty'[p.id] /\ Goto(w, "commit") /\ UNCHANGED <<job, lockVars>>
    BY <1>5 DEF r
  <2>5. /\ \A j \in Jobs : job'[j] = job[j] \/ (j = p.id /\ job'[j] = r)
    BY <1>0, <1>1, <1>2, <2>1, <2>4, SaveIs
  <2>6. \A v \in Workers \ {w}, j \in Jobs : jobLock[j] = v => jobLock'[j] = v
    BY <1>2, <2>4, EndIs DEF lockVars
  <2>7. jobLock[p.id] = w BY <1>1, <1>2 DEF ProcessInv, Held, Labels
  <2>8. Moves(w) /\ (worker'[w] # None => ProcessInv(w, worker[w])')
    <3>1. CASE End(w) BY <1>2, <3>1, EndIs
    <3>2. CASE dirty'[p.id] /\ Goto(w, "commit") /\ UNCHANGED <<job, lockVars>>
      <4>1. PICK q : q = worker'[w] OBVIOUS
      <4>2. Moves(w) /\ q.at = "commit" /\ q.rec = p.rec /\ q.id = p.id /\ q.cmd = p.cmd
        BY <1>0, <1>1, <1>2, <3>2, <4>1, GotoIs DEF Labels
      <4>3. ProcessInv(w, q)'
        BY <1>1, <1>2, <1>3, <2>7, <3>2, <4>2
           DEF ProcessInv, Recorded, ReceiptOf, treeVars, lockVars
      <4> QED BY <4>1, <4>2, <4>3
    <3> QED BY <2>4, <3>1, <3>2
  <2>9. \A j \in Jobs : UNCHANGED <<worktree[j], head[j], dirty[j]>> \/ ReleaseInv(j)'
    BY <1>3, <1>5, <2>2 DEF ReleaseInv
  <2>10. \A j \in Jobs : UNCHANGED job[j] \/ (worktree'[j] # "absent" /\ Recorded(j, job[j])')
    <3>1. \A j \in Jobs : j = p.id /\ job'[j] = r => worktree'[j] # "absent" /\ Recorded(j, job[j])'
      BY <1>2, <1>3, <2>1 DEF Recorded, ReceiptOf
    <3> QED BY <2>5, <3>1
  <2>11. \A v \in Workers \ {w} : Respects(v) BY <1>3, <2>2, <2>6, <2>7 DEF Respects
  <2>12. Persists BY <1>3, <2>1, <2>5 DEF Persists
  <2>13. Grows BY <1>2, <1>3, LenProperties DEF Grows, remoteVars, TypeOK
  <2>14. \A j \in Jobs : UNCHANGED <<head[j], dirty[j]>> \/ (dirty'[j] => head'[j].edits < MaxEdits)
    BY <2>2, <2>3
  <2> QED
    BY <1>3, <2>8, <2>9, <2>10, <2>11, <2>12, <2>13, <2>14, Respected DEF remoteVars
<1> QED BY <1>0, <1>4, <1>5 DEF Payload

\* _checkpoint commits what is dirty: that worktree was not released.
LEMMA CommitKeeps == ASSUME IInv, TypeOK', NEW w \in Workers, CommitWork(w) PROVE IInv'
<1>0. PICK p : p = worker[w] OBVIOUS
<1>1. worker[w] # None /\ p.at = "commit" BY <1>0 DEF CommitWork, At
<1>2. ProcessInv(w, p) /\ TypeOK /\ p.id \in Jobs /\ worktree[p.id] # "absent"
  BY <1>0, <1>1, Doing
<1>3. dirty[p.id] /\ jobLock[p.id] = w BY <1>1, <1>2 DEF ProcessInv, Held, Labels
<1>4. head[p.id].edits < MaxEdits /\ worktree[p.id] # "released"
  BY <1>2, <1>3 DEF IInv, JobInv, ReleasedIsIntegrated
<1>5. /\ dirty' = [dirty EXCEPT ![p.id] = FALSE]
      /\ Goto(w, "publish")
      /\ UNCHANGED <<diskVars, worktree, remoteVars, fetched, lockVars, boundVars>>
  BY <1>0 DEF CommitWork
<1>6. head' = [head EXCEPT ![p.id].edits = @ + 1]
  <2>1. head' = [head EXCEPT ![p.id].edits = IF dirty[p.id] THEN @ + 1 ELSE @]
    BY <1>0 DEF CommitWork
  <2> QED BY <1>3, <2>1
<1>7. \A j \in Jobs \ {p.id} : UNCHANGED <<head[j], dirty[j]>>
  BY <1>2, <1>4, <1>5, <1>6, EditIs DEF TypeOK
<1>8. ~dirty'[p.id] BY <1>2, <1>5 DEF TypeOK
<1>9. Moves(w) /\ ProcessInv(w, worker[w])'
  <2>1. PICK q : q = worker'[w] OBVIOUS
  <2>2. Moves(w) /\ q.at = "publish" /\ q.rec = p.rec /\ q.id = p.id /\ q.cmd = p.cmd
    BY <1>0, <1>1, <1>2, <1>5, <2>1, GotoIs DEF Labels
  <2>3. ProcessInv(w, q)'
    BY <1>1, <1>2, <1>5, <2>2 DEF ProcessInv, Held, Labels, Recorded, ReceiptOf, diskVars, lockVars
  <2> QED BY <2>1, <2>2, <2>3
<1>10. \A v \in Workers \ {w} : Respects(v)
  BY <1>3, <1>5, <1>7 DEF Respects, lockVars, diskVars
<1>11. Persists /\ Grows
  BY <1>2, <1>5, LenProperties DEF Persists, Grows, diskVars, remoteVars, TypeOK
<1>12. \A j \in Jobs : UNCHANGED <<worktree[j], head[j], dirty[j]>> \/ ReleaseInv(j)'
  BY <1>4, <1>5, <1>7 DEF ReleaseInv
<1>13. \A j \in Jobs : UNCHANGED <<head[j], dirty[j]>> \/ (dirty'[j] => head'[j].edits < MaxEdits)
  BY <1>7, <1>8
<1> QED
  BY <1>5, <1>9, <1>10, <1>11, <1>12, <1>13, Respected DEF diskVars, remoteVars

LEMMA PublishKeeps == ASSUME IInv, TypeOK', NEW w \in Workers, PublishBranch(w) PROVE IInv'
<1>0. PICK p : p = worker[w] OBVIOUS
<1>1. worker[w] # None /\ p.at = "publish" BY <1>0 DEF PublishBranch, At
<1>2. ProcessInv(w, p) /\ TypeOK /\ p.id \in Jobs /\ p.rec \in JobRecord BY <1>0, <1>1, Doing
<1>3. UNCHANGED <<receipt, treeVars, target, fetched, boundVars>> BY DEF PublishBranch
<1>4. CASE Goto(w, "checkpoint") /\ UNCHANGED <<job, lockVars>>
  <2>1. PICK q : q = worker'[w] OBVIOUS
  <2>2. Moves(w) /\ q.at = "checkpoint" /\ q.rec = p.rec /\ q.id = p.id /\ q.cmd = p.cmd
    BY <1>0, <1>1, <1>2, <1>4, <2>1, GotoIs DEF Labels
  <2>3. ProcessInv(w, q)'
    BY <1>1, <1>2, <1>3, <1>4, <2>2
       DEF ProcessInv, Held, Labels, Recorded, ReceiptOf, treeVars, lockVars
  <2> QED BY <1>1, <1>3, <1>4, <2>1, <2>2, <2>3, QuietGoes
<1>5. CASE /\ Save(w, [p.rec EXCEPT !.state = "interrupted"]) \/ UNCHANGED job
           /\ End(w)
  <2> DEFINE r == [p.rec EXCEPT !.state = "interrupted"]
  <2>1. r \in JobRecord /\ Recorded(p.id, r)
    <3>1. r \in JobRecord /\ r.state = "interrupted" BY <1>2, StateIs DEF States
    <3> QED BY <3>1 DEF Recorded
  <2>2. Save(w, r) \/ UNCHANGED job BY <1>5
  <2> HIDE DEF r
  <2> QED BY <1>0, <1>1, <1>3, <1>5, <2>1, <2>2, QuietEnd
<1> QED BY <1>0, <1>4, <1>5 DEF PublishBranch

LEMMA CheckpointKeeps == ASSUME IInv, TypeOK', NEW w \in Workers, SaveCheckpoint(w) PROVE IInv'
<1>0. PICK p : p = worker[w] OBVIOUS
<1>1. worker[w] # None /\ p.at = "checkpoint" BY <1>0 DEF SaveCheckpoint, At
<1>2. /\ ProcessInv(w, p) /\ TypeOK /\ p.id \in Jobs /\ p.rec \in JobRecord
      /\ head[p.id] \in Commit
  BY <1>0, <1>1, Doing
<1>3. PICK r : r = Checkpointed(p.rec, head[p.id], "active") OBVIOUS
<1>4. r \in JobRecord /\ r # None /\ r.state = "active" /\ Recorded(p.id, r)
  <2>1. r \in JobRecord /\ r.state = "active" BY <1>2, <1>3, CheckpointedIs DEF States
  <2> QED BY <2>1, MarksAssumption DEF Recorded
<1>5. /\ Save(w, r) /\ UNCHANGED <<receipt, treeVars, remoteVars, fetched, boundVars>>
      /\ End(w) \/ (GotoWith(w, "ready", r) /\ UNCHANGED lockVars)
  BY <1>0, <1>3 DEF SaveCheckpoint
<1>6. CASE End(w) BY <1>0, <1>1, <1>4, <1>5, <1>6, QuietEnd DEF remoteVars
<1>7. CASE GotoWith(w, "ready", r) /\ UNCHANGED lockVars
  <2>1. PICK q : q = worker'[w] OBVIOUS
  <2>2. Moves(w) /\ q.at = "ready" /\ q.rec = r /\ q.id = p.id /\ q.cmd = p.cmd
    BY <1>0, <1>1, <1>2, <1>4, <1>7, <2>1, GotoWithIs DEF Labels
  <2>3. job'[p.id] # None BY <1>0, <1>1, <1>2, <1>4, <1>5, SaveIs
  <2>4. ProcessInv(w, q)'
    BY <1>1, <1>2, <1>4, <1>5, <1>7, <2>2, <2>3
       DEF ProcessInv, Held, Labels, Recorded, treeVars, lockVars
  <2> QED BY <1>0, <1>1, <1>4, <1>5, <1>7, <2>1, <2>2, <2>4, QuietGoes DEF remoteVars
<1> QED BY <1>5, <1>6, <1>7

LEMMA ReadyKeeps == ASSUME IInv, TypeOK', NEW w \in Workers, Ready(w) PROVE IInv'
<1>0. PICK p : p = worker[w] OBVIOUS
<1>1. worker[w] # None /\ p.at = "ready" BY <1>0 DEF Ready, At
<1>2. /\ ProcessInv(w, p) /\ TypeOK /\ p.id \in Jobs /\ p.rec \in JobRecord /\ p \in Process
      /\ head[p.id] \in Commit
  BY <1>0, <1>1, Doing
<1>3. PICK r : r = Checkpointed(p.rec, head[p.id], "ready") OBVIOUS
<1>4. r \in JobRecord /\ r # None /\ r.state = "ready" /\ Recorded(p.id, r)
  <2>1. r \in JobRecord /\ r.state = "ready" BY <1>2, <1>3, CheckpointedIs DEF States
  <2> QED BY <2>1, MarksAssumption DEF Recorded
<1>5. UNCHANGED <<receipt, treeVars, remoteVars, fetched, boundVars>> BY DEF Ready
<1>6. CASE dirty[p.id] /\ Goto(w, "commit") /\ UNCHANGED <<job, lockVars>>
  <2>1. PICK q : q = worker'[w] OBVIOUS
  <2>2. Moves(w) /\ q.at = "commit" /\ q.rec = p.rec /\ q.id = p.id /\ q.cmd = p.cmd
    BY <1>0, <1>1, <1>2, <1>6, <2>1, GotoIs DEF Labels
  <2>3. ProcessInv(w, q)'
    BY <1>1, <1>2, <1>5, <1>6, <2>2
       DEF ProcessInv, Held, Labels, Recorded, ReceiptOf, treeVars, lockVars
  <2> QED BY <1>1, <1>5, <1>6, <2>1, <2>2, <2>3, QuietGoes DEF remoteVars
<1>7. CASE End(w) /\ (UNCHANGED job \/ Save(w, r))
  BY <1>0, <1>1, <1>4, <1>5, <1>7, QuietEnd DEF remoteVars
<1>8. CASE /\ Save(w, r) /\ UNCHANGED lockVars
           /\ worker' = [worker EXCEPT ![w].at = "reconcile", ![w].cmd = "integrate"]
  <2>1. PICK q : q = worker'[w] OBVIOUS
  <2>2. Moves(w) /\ q.at = "reconcile" /\ q.rec = p.rec /\ q.id = p.id /\ q.cmd = "integrate"
    BY <1>0, <1>2, <1>8, <2>1 DEF Moves, TypeOK, Process
  <2>3. job'[p.id] # None BY <1>0, <1>1, <1>2, <1>4, <1>8, SaveIs
  <2>4. ProcessInv(w, q)'
    BY <1>1, <1>2, <1>5, <1>8, <2>2, <2>3
       DEF ProcessInv, Held, Labels, Recorded, ReceiptOf, treeVars, lockVars
  <2> QED BY <1>0, <1>1, <1>4, <1>5, <1>8, <2>1, <2>2, <2>4, QuietGoes DEF remoteVars
<1> QED BY <1>0, <1>3, <1>6, <1>7, <1>8 DEF Ready

\* A push whose record was lost is adopted; everything else is looked at again.
LEMMA ReconcileKeeps == ASSUME IInv, TypeOK', NEW w \in Workers, Reconcile(w) PROVE IInv'
<1>0. PICK p : p = worker[w] OBVIOUS
<1>1. worker[w] # None /\ p.at = "reconcile" BY <1>0 DEF Reconcile, At
<1>2. ProcessInv(w, p) /\ TypeOK /\ p.id \in Jobs BY <1>0, <1>1, Doing
<1>3. PICK r : r = job[p.id] OBVIOUS
<1>4. r \in JobRecord /\ r # None /\ Recorded(p.id, r)
  <2>1. r # None BY <1>1, <1>2, <1>3 DEF ProcessInv
  <2> QED BY <1>2, <1>3, <2>1 DEF TypeOK, IInv, JobInv
<1>5. UNCHANGED <<diskVars, treeVars, remoteVars, boundVars>> BY DEF Reconcile
<1>6. \/ End(w)
      \/ /\ UNCHANGED lockVars
         /\ \/ \E i \in Matches(p.id, r) : GotoWith(w, "receipt",
                  [Checkpointed(r, CheckpointOf(r), "integrated") EXCEPT !.integration = i])
            \/ dirty[p.id] /\ GotoWith(w, "commit", r)
            \/ \E l \in {"ready", "queue"} : GotoWith(w, l, r)
  BY <1>0, <1>3 DEF Reconcile
<1>7. CASE End(w) BY <1>1, <1>5, <1>7, QuietEnd DEF diskVars, remoteVars
<1>8. CASE /\ UNCHANGED lockVars
           /\ \E i \in Matches(p.id, r) : GotoWith(w, "receipt",
                  [Checkpointed(r, CheckpointOf(r), "integrated") EXCEPT !.integration = i])
  <2>1. PICK i \in Matches(p.id, r) : GotoWith(w, "receipt",
            [Checkpointed(r, CheckpointOf(r), "integrated") EXCEPT !.integration = i])
    BY <1>8
  <2>2. PICK R : R = [Checkpointed(r, CheckpointOf(r), "integrated") EXCEPT !.integration = i] OBVIOUS
  <2>3. /\ i \in 1 .. Len(target) /\ i \in 0 .. MaxTarget
        /\ IsOf(target[i], p.id) /\ target[i].checkpoint = CheckpointOf(r)
    BY <1>2, Bounds, LenProperties DEF Matches, TypeOK
  <2>4. CheckpointOf(r) \in Commit BY <1>4 DEF CheckpointOf, JobRecord
  <2>5. R \in JobRecord /\ R.state = "integrated" /\ R.last = CheckpointOf(r) /\ R.integration = i
    BY <1>4, <2>2, <2>3, <2>4, IntegratedIs
  <2>6. R # None BY <2>5, MarksAssumption
  <2>7. PICK q : q = worker'[w] OBVIOUS
  <2>8. Moves(w) /\ q.at = "receipt" /\ q.rec = R /\ q.id = p.id /\ q.cmd = p.cmd
    BY <1>0, <1>1, <1>2, <2>1, <2>2, <2>5, <2>7, GotoWithIs DEF Labels
  <2>9. Told(p.id, R)' BY <1>5, <2>3, <2>5 DEF Told, remoteVars
  <2>10. ProcessInv(w, q)'
    BY <1>1, <1>2, <1>5, <1>8, <2>6, <2>8, <2>9
       DEF ProcessInv, Held, Labels, diskVars, treeVars, lockVars
  <2> QED BY <1>1, <1>5, <1>8, <2>7, <2>8, <2>10, QuietGoes DEF diskVars, remoteVars
<1>9. CASE UNCHANGED lockVars /\ dirty[p.id] /\ GotoWith(w, "commit", r)
  <2>1. PICK q : q = worker'[w] OBVIOUS
  <2>2. Moves(w) /\ q.at = "commit" /\ q.rec = r /\ q.id = p.id /\ q.cmd = p.cmd
    BY <1>0, <1>1, <1>2, <1>4, <1>9, <2>1, GotoWithIs DEF Labels
  <2>3. ProcessInv(w, q)'
    BY <1>1, <1>2, <1>4, <1>5, <1>9, <2>2
       DEF ProcessInv, Held, Labels, Recorded, ReceiptOf, diskVars, treeVars, lockVars
  <2> QED BY <1>1, <1>5, <1>9, <2>1, <2>2, <2>3, QuietGoes DEF diskVars, remoteVars
<1>10. CASE UNCHANGED lockVars /\ \E l \in {"ready", "queue"} : GotoWith(w, l, r)
  <2>1. PICK q : q = worker'[w] OBVIOUS
  <2>2. Moves(w) /\ q.at \in {"ready", "queue"} /\ q.rec = r /\ q.id = p.id /\ q.cmd = p.cmd
    BY <1>0, <1>1, <1>2, <1>4, <1>10, <2>1, GotoWithIs DEF Labels
  <2>3. ProcessInv(w, q)'
    BY <1>1, <1>2, <1>4, <1>5, <1>10, <2>2
       DEF ProcessInv, Held, Labels, Recorded, ReceiptOf, diskVars, treeVars, lockVars
  <2> QED BY <1>1, <1>5, <1>10, <2>1, <2>2, <2>3, QuietGoes DEF diskVars, remoteVars
<1> QED BY <1>6, <1>7, <1>8, <1>9, <1>10

LEMMA LockTargetKeeps == ASSUME IInv, TypeOK', NEW w \in Workers, LockTarget(w) PROVE IInv'
<1>0. PICK p : p = worker[w] OBVIOUS
<1>1. worker[w] # None /\ p.at = "queue" BY <1>0 DEF LockTarget, At
<1>2. ProcessInv(w, p) /\ TypeOK /\ p.id \in Jobs /\ p \in Process BY <1>0, <1>1, Doing
<1>3. /\ worker' = [worker EXCEPT ![w].at = "merge", ![w].seen = Len(target)]
      /\ UNCHANGED <<diskVars, treeVars, remoteVars, jobLock, boundVars>>
  BY DEF LockTarget
<1>4. PICK q : q = worker'[w] OBVIOUS
<1>5. /\ Moves(w) /\ q.at = "merge" /\ q.rec = p.rec /\ q.id = p.id /\ q.cmd = p.cmd
      /\ q.seen = Len(target)
  BY <1>0, <1>2, <1>3, <1>4 DEF Moves, TypeOK, Process
<1>6. Len(target) \in Nat BY <1>2, LenProperties DEF TypeOK
<1>7. ProcessInv(w, q)'
  BY <1>1, <1>2, <1>3, <1>5, <1>6
     DEF ProcessInv, Held, Labels, Recorded, ReceiptOf, diskVars, treeVars, remoteVars
<1>8. w \in Workers /\ worker'[w] # None => ProcessInv(w, worker[w])' BY <1>4, <1>7
<1> QED BY <1>3, <1>5, <1>8, Quiet DEF diskVars, remoteVars

\* What overlaps is merged, and the squash is not empty.
LEMMA MergeKeeps == ASSUME IInv, TypeOK', NEW w \in Workers, Merge(w) PROVE IInv'
<1>0. PICK p : p = worker[w] OBVIOUS
<1>1. worker[w] # None /\ p.at = "merge" BY <1>0 DEF Merge, At
<1>2. /\ ProcessInv(w, p) /\ TypeOK /\ p.id \in Jobs /\ p.rec \in JobRecord
      /\ head[p.id] \in Commit /\ p.seen \in 0 .. MaxTarget
  BY <1>0, <1>1, Doing
<1>3. UNCHANGED <<receipt, treeVars, remoteVars, fetched, boundVars>> BY DEF Merge
<1>4. CASE /\ Save(w, [p.rec EXCEPT !.state = "conflicted"]) \/ UNCHANGED job
           /\ End(w)
  <2> DEFINE r == [p.rec EXCEPT !.state = "conflicted"]
  <2>1. r \in JobRecord /\ Recorded(p.id, r)
    <3>1. r \in JobRecord /\ r.state = "conflicted" BY <1>2, StateIs DEF States
    <3> QED BY <3>1 DEF Recorded
  <2>2. Save(w, r) \/ UNCHANGED job BY <1>4
  <2> HIDE DEF r
  <2> QED BY <1>0, <1>1, <1>3, <1>4, <2>1, <2>2, QuietEnd DEF remoteVars
<1>5. CASE /\ Overlaps(p.id, p.rec.base, p.seen) => Reconciled(p.id, p.rec, p.seen)
           /\ ~NothingNew(p.id, p.seen)
           /\ Goto(w, "land") /\ UNCHANGED <<job, lockVars>>
  <2>1. PICK q : q = worker'[w] OBVIOUS
  <2>2. /\ Moves(w) /\ q.at = "land" /\ q.rec = p.rec /\ q.id = p.id /\ q.cmd = p.cmd
        /\ q.seen = p.seen
    BY <1>0, <1>1, <1>2, <1>5, <2>1, GotoIs DEF Labels
  <2>3. p.seen <= Len(target) /\ Len(target) \in Nat /\ p.seen \in Nat
    BY <1>1, <1>2, Bounds, LenProperties DEF ProcessInv, TypeOK
  <2>4. ASSUME NEW i \in 1 .. p.seen, IsOf(target[i], p.id)
        PROVE  target[i].checkpoint.edits < head[p.id].edits
    <3>1. target[i] \in Entry /\ target[i] # Outside
      BY <1>2, <2>3, <2>4, ElementOfSeq DEF TypeOK, IsOf
    <3>2. target[i].checkpoint.edits \in Nat /\ head[p.id].edits \in Nat
      BY <1>2, <3>1, Bounds DEF Entry, Landed, Commit
    <3>3. ~(target[i].checkpoint.edits >= head[p.id].edits) BY <1>5, <2>4 DEF NothingNew
    <3> QED BY <3>2, <3>3
  <2>5. Lands(p) BY <1>5, <2>4 DEF Lands, Reconciled
  <2>6. Lands(q)' BY <1>3, <2>2, <2>5 DEF Lands, Overlaps, treeVars, remoteVars
  <2>7. ProcessInv(w, q)'
    BY <1>1, <1>2, <1>3, <1>5, <2>2, <2>6
       DEF ProcessInv, Held, Labels, Recorded, ReceiptOf, treeVars, lockVars, remoteVars
  <2> QED BY <1>1, <1>3, <1>5, <2>1, <2>2, <2>7, QuietGoes DEF remoteVars
<1> QED BY <1>0, <1>4, <1>5 DEF Merge

\* A commit whose edits none of its job's on the target has is no repetition.
LEMMA NewEdits ==
    ASSUME EditsLandOnce, NEW n \in Nat, n = Len(target), NEW e,
           Len(target') = n + 1, target'[n + 1] = e, \A i \in 1 .. n : target'[i] = target[i],
           \A i \in 1 .. n : (target[i] # Outside /\ target[i].by = e.by)
                                => target[i].checkpoint.edits < e.checkpoint.edits
    PROVE  EditsLandOnce'
<1> SUFFICES ASSUME NEW i \in 1 .. n + 1, NEW k \in 1 .. n + 1, i < k,
                    target'[i] # Outside, target'[k] # Outside, target'[i].by = target'[k].by
             PROVE  target'[i].checkpoint.edits < target'[k].checkpoint.edits
  BY DEF EditsLandOnce
<1>1. i \in 1 .. n /\ target'[i] = target[i] /\ (k \in 1 .. n \/ k = n + 1) OBVIOUS
<1>2. CASE k \in 1 .. n BY <1>1, <1>2 DEF EditsLandOnce
<1>3. CASE k = n + 1 BY <1>1, <1>3
<1> QED BY <1>1, <1>2, <1>3

\* The push: it lands on the very target that was merged and squashed on.
LEMMA Pushed ==
    ASSUME IInv, NEW w \in Workers, NEW p, p = worker[w], p # None, p.at = "land",
           Len(target) = p.seen, Len(target) < MaxTarget,
           target' = Append(target, [by |-> p.id, base |-> p.rec.base, checkpoint |-> head[p.id]])
    PROVE  /\ Grows /\ (ReconciledBeforeIntegrated /\ EditsLandOnce)'
           /\ p.seen + 1 <= Len(target') /\ IsOf(target'[p.seen + 1], p.id)
           /\ target'[p.seen + 1].checkpoint = head[p.id]
<1>1. /\ ProcessInv(w, p) /\ TypeOK /\ p.id \in Jobs /\ p.rec \in JobRecord
      /\ head[p.id] \in Commit
  BY Doing
<1>2. PICK n : n = Len(target) OBVIOUS
<1>3. PICK e : e = [by |-> p.id, base |-> p.rec.base, checkpoint |-> head[p.id]] OBVIOUS
<1>4. /\ e \in Landed /\ e # Outside /\ e.by = p.id /\ e.base = p.rec.base
      /\ e.checkpoint = head[p.id]
  BY <1>1, <1>3, MarksAssumption DEF Landed, JobRecord
<1>5. /\ target \in Seq(Entry) /\ n \in Nat /\ e.base \in 0 .. MaxTarget
      /\ e.checkpoint.edits \in Nat /\ e.checkpoint.merged \in Nat
  BY <1>1, <1>2, <1>4, LenProperties, Bounds DEF TypeOK, Landed, Commit
<1>6. Len(target') = n + 1 /\ target'[n + 1] = e /\ \A i \in 1 .. n : target'[i] = target[i]
  BY <1>1, <1>2, <1>3, <1>4, PushedIs DEF Entry
<1>7. Lands(p) BY <1>1 DEF ProcessInv
<1>8. Grows BY <1>2, <1>5, <1>6 DEF Grows
<1>9. ReconciledBeforeIntegrated'
  <2> DEFINE Behind(entry, i) ==
        /\ i > entry.checkpoint.merged
        /\ IF target'[i] = Outside THEN Outside \in Overlap[entry.by]
           ELSE target'[i].by \in Overlap[entry.by] \cup {entry.by}
  <2>1. ASSUME NEW k \in 1 .. n, target[k] # Outside
        PROVE  ~ \E i \in target[k].base + 1 .. k - 1 : Behind(target[k], i)
    <3>1. target[k] \in Landed BY <1>2, <1>5, <2>1, ElementOfSeq DEF Entry
    <3>2. target[k].base \in 0 .. MaxTarget BY <3>1 DEF Landed
    <3>3. \A i \in target[k].base + 1 .. k - 1 : target'[i] = target[i]
      BY <1>5, <1>6, <3>2, Bounds
    <3> QED BY <1>2, <2>1, <3>3 DEF IInv, ReconciledBeforeIntegrated
  <2>2. ~ \E i \in p.rec.base + 1 .. p.seen : Behind(e, i)
    <3> SUFFICES ASSUME NEW i \in p.rec.base + 1 .. p.seen, Behind(e, i) PROVE FALSE OBVIOUS
    <3>1. PICK b : b = e.base OBVIOUS
    <3>2. PICK m : m = e.checkpoint.merged OBVIOUS
    <3>3. p.rec.base = b /\ p.seen = n BY <1>2, <1>4, <3>1
    <3>4. i \in b + 1 .. n /\ b \in 0 .. MaxTarget BY <1>5, <3>1, <3>3
    <3>5. i \in 1 .. n /\ i <= n BY <1>5, <3>4, Bounds
    <3>6. target'[i] = target[i] BY <1>6, <3>5
    <3>7. Overlaps(p.id, p.rec.base, p.seen) BY <1>4, <3>6 DEF Overlaps
    <3>8. m >= n BY <1>2, <1>4, <1>7, <3>2, <3>7 DEF Lands
    <3>9. i > m BY <3>2
    <3> QED BY <1>5, <3>2, <3>5, <3>8, <3>9
  <2> HIDE DEF Behind
  <2>3. ASSUME NEW k \in 1 .. Len(target'), target'[k] # Outside
        PROVE  ~ \E i \in target'[k].base + 1 .. k - 1 : Behind(target'[k], i)
    <3>1. k \in 1 .. n \/ k = n + 1 BY <1>5, <1>6
    <3>2. CASE k \in 1 .. n BY <1>6, <2>1, <2>3, <3>2
    <3>3. CASE k = n + 1
      <4>1. target'[k] = e /\ k - 1 = p.seen BY <1>2, <1>5, <1>6, <3>3
      <4> QED BY <1>4, <2>2, <4>1
    <3> QED BY <3>1, <3>2, <3>3
  <2> QED BY <2>3 DEF ReconciledBeforeIntegrated, Behind
<1>10. EditsLandOnce'
  <2>1. ASSUME NEW i \in 1 .. n, target[i] # Outside, target[i].by = e.by
        PROVE  target[i].checkpoint.edits < e.checkpoint.edits
    <3>1. IsOf(target[i], p.id) BY <1>4, <2>1 DEF IsOf
    <3>2. i \in 1 .. p.seen BY <1>2
    <3> QED BY <1>4, <1>7, <3>1, <3>2 DEF Lands
  <2> QED BY <1>2, <1>5, <1>6, <2>1, NewEdits DEF IInv
<1>11. /\ p.seen + 1 <= Len(target') /\ IsOf(target'[p.seen + 1], p.id)
       /\ target'[p.seen + 1].checkpoint = head[p.id]
  BY <1>2, <1>4, <1>5, <1>6 DEF IsOf
<1> QED BY <1>8, <1>9, <1>10, <1>11

LEMMA LandKeeps == ASSUME IInv, TypeOK', NEW w \in Workers, Land(w) PROVE IInv'
<1>0. PICK p : p = worker[w] OBVIOUS
<1>1. worker[w] # None /\ p.at = "land" BY <1>0 DEF Land, At
<1>2. ProcessInv(w, p) /\ TypeOK /\ p.id \in Jobs /\ p.rec \in JobRecord BY <1>0, <1>1, Doing
<1>3. UNCHANGED <<diskVars, treeVars, branch, boundVars>> BY DEF Land
<1>4. CASE End(w) /\ UNCHANGED target BY <1>1, <1>3, <1>4, QuietEnd DEF diskVars
<1>5. CASE /\ Len(target) = p.seen /\ Len(target) < MaxTarget
           /\ target' = Append(target, [by |-> p.id, base |-> p.rec.base, checkpoint |-> head[p.id]])
           /\ End(w) \/ (Goto(w, "verify") /\ UNCHANGED lockVars)
  <2>1. /\ Grows /\ (ReconciledBeforeIntegrated /\ EditsLandOnce)'
        /\ p.seen + 1 <= Len(target') /\ IsOf(target'[p.seen + 1], p.id)
        /\ target'[p.seen + 1].checkpoint = head[p.id]
    BY <1>0, <1>1, <1>5, Pushed
  <2>2. Persists BY <1>3 DEF Persists, diskVars, treeVars
  <2>3. \A v \in Workers \ {w}, j \in Jobs : jobLock[j] = v => jobLock'[j] = v
    BY <1>2, <1>5, EndIs DEF lockVars
  <2>4. \A v \in Workers \ {w} : Respects(v) BY <1>3, <2>3 DEF Respects, diskVars, treeVars
  <2>5. Moves(w) /\ (worker'[w] # None => ProcessInv(w, worker[w])')
    <3>1. CASE End(w) BY <1>2, <3>1, EndIs
    <3>2. CASE Goto(w, "verify") /\ UNCHANGED lockVars
      <4>1. PICK q : q = worker'[w] OBVIOUS
      <4>2. /\ Moves(w) /\ q.at = "verify" /\ q.rec = p.rec /\ q.id = p.id /\ q.cmd = p.cmd
            /\ q.seen = p.seen
        BY <1>0, <1>1, <1>2, <3>2, <4>1, GotoIs DEF Labels
      <4>3. /\ q.seen + 1 <= Len(target') /\ IsOf(target'[q.seen + 1], q.id)
            /\ target'[q.seen + 1].checkpoint = head'[q.id]
        BY <1>3, <2>1, <4>2 DEF treeVars
      <4>4. ProcessInv(w, q)'
        BY <1>1, <1>2, <1>3, <3>2, <4>2, <4>3
           DEF ProcessInv, Held, Labels, Recorded, ReceiptOf, treeVars, lockVars, diskVars, IsOf
      <4> QED BY <4>1, <4>2, <4>4
    <3> QED BY <1>5, <3>1, <3>2
  <2> QED BY <1>3, <2>1, <2>2, <2>4, <2>5, Respected DEF diskVars, treeVars
<1> QED BY <1>0, <1>4, <1>5 DEF Land

LEMMA VerifyKeeps == ASSUME IInv, TypeOK', NEW w \in Workers, Verify(w) PROVE IInv'
<1>0. PICK p : p = worker[w] OBVIOUS
<1>1. worker[w] # None /\ p.at = "verify" BY <1>0 DEF Verify, At
<1>2. /\ ProcessInv(w, p) /\ TypeOK /\ p.id \in Jobs /\ p.rec \in JobRecord
      /\ head[p.id] \in Commit /\ p.seen \in 0 .. MaxTarget
  BY <1>0, <1>1, Doing
<1>3. UNCHANGED <<diskVars, treeVars, remoteVars, fetched, boundVars>> BY DEF Verify
<1>4. PICK R : R = [Checkpointed(p.rec, head[p.id], "integrated") EXCEPT !.integration = p.seen + 1]
  OBVIOUS
<1>5. CASE End(w) BY <1>1, <1>3, <1>5, QuietEnd DEF diskVars, remoteVars
<1>6. CASE Len(target) = p.seen + 1 /\ GotoWith(w, "receipt", R) /\ UNCHANGED lockVars
  <2>1. /\ p.seen + 1 \in 1 .. Len(target) /\ p.seen + 1 \in 0 .. MaxTarget
        /\ IsOf(target[p.seen + 1], p.id) /\ target[p.seen + 1].checkpoint = head[p.id]
    BY <1>1, <1>2, <1>6, Bounds DEF ProcessInv, TypeOK
  <2>2. R \in JobRecord /\ R.state = "integrated" /\ R.last = head[p.id] /\ R.integration = p.seen + 1
    BY <1>2, <1>4, <2>1, IntegratedIs
  <2>3. R # None BY <2>2, MarksAssumption
  <2>4. PICK q : q = worker'[w] OBVIOUS
  <2>5. Moves(w) /\ q.at = "receipt" /\ q.rec = R /\ q.id = p.id /\ q.cmd = p.cmd
    BY <1>0, <1>1, <1>2, <1>6, <2>2, <2>4, GotoWithIs DEF Labels
  <2>6. Told(p.id, R)' BY <1>3, <2>1, <2>2 DEF Told, remoteVars
  <2>7. ProcessInv(w, q)'
    BY <1>1, <1>2, <1>3, <1>6, <2>3, <2>5, <2>6
       DEF ProcessInv, Held, Labels, diskVars, treeVars, lockVars
  <2> QED BY <1>1, <1>3, <1>6, <2>4, <2>5, <2>7, QuietGoes DEF diskVars, remoteVars
<1> QED BY <1>0, <1>4, <1>5, <1>6 DEF Verify

\* A receipt is created once, and what is there already must tell the same.
LEMMA OpenKeeps == ASSUME IInv, TypeOK', NEW w \in Workers, OpenReceipt(w) PROVE IInv'
<1>0. PICK p : p = worker[w] OBVIOUS
<1>1. worker[w] # None /\ p.at = "receipt" BY <1>0 DEF OpenReceipt, At
<1>2. /\ ProcessInv(w, p) /\ TypeOK /\ p.id \in Jobs /\ p.rec \in JobRecord
  BY <1>0, <1>1, Doing
<1>3. Told(p.id, p.rec) /\ jobLock[p.id] = w BY <1>1, <1>2 DEF ProcessInv, Held, Labels
<1>4. UNCHANGED <<job, treeVars, remoteVars, fetched, boundVars>> BY DEF OpenReceipt
<1>5. CASE End(w) /\ UNCHANGED receipt BY <1>1, <1>4, <1>5, QuietEnd DEF remoteVars
<1>6. CASE UNCHANGED receipt /\ receipt[p.id] = ReceiptOf(p.rec) /\ Goto(w, "save") /\ UNCHANGED lockVars
  <2>1. PICK q : q = worker'[w] OBVIOUS
  <2>2. Moves(w) /\ q.at = "save" /\ q.rec = p.rec /\ q.id = p.id /\ q.cmd = p.cmd
    BY <1>0, <1>1, <1>2, <1>6, <2>1, GotoIs DEF Labels
  <2>3. receipt[p.id] \in Receipt
    BY <1>2, <1>3, <1>6, Bounds DEF ReceiptOf, Receipt, JobRecord, Told, TypeOK
  <2>4. ProcessInv(w, q)'
    BY <1>1, <1>2, <1>3, <1>4, <1>6, <2>2, <2>3
       DEF ProcessInv, Held, Labels, Recorded, ReceiptOf, treeVars, lockVars, remoteVars, Told
  <2> QED BY <1>1, <1>4, <1>6, <2>1, <2>2, <2>4, QuietGoes DEF remoteVars
<1>7. CASE /\ receipt[p.id] = None /\ receipt' = [receipt EXCEPT ![p.id] = Torn]
           /\ Goto(w, "write") /\ UNCHANGED lockVars
  <2>1. PICK q : q = worker'[w] OBVIOUS
  <2>2. Moves(w) /\ q.at = "write" /\ q.rec = p.rec /\ q.id = p.id /\ q.cmd = p.cmd
    BY <1>0, <1>1, <1>2, <1>7, <2>1, GotoIs DEF Labels
  <2>3. /\ receipt'[p.id] = Torn /\ \A j \in Jobs \ {p.id} : receipt'[j] = receipt[j]
        /\ receipt[p.id] \notin Receipt
    BY <1>2, <1>7, MarksAssumption DEF TypeOK
  <2>4. ProcessInv(w, q)'
    BY <1>1, <1>2, <1>3, <1>4, <1>7, <2>2, <2>3
       DEF ProcessInv, Held, Labels, treeVars, lockVars, remoteVars, Told
  <2>5. Persists BY <1>4, <2>3 DEF Persists, treeVars
  <2>6. \A v \in Workers \ {w} : Respects(v) BY <1>3, <1>4, <1>7, <2>3 DEF Respects, treeVars, lockVars
  <2>7. Grows BY <1>2, <1>4, LenProperties DEF Grows, remoteVars, TypeOK
  <2>8. \A j \in Jobs : UNCHANGED receipt[j] \/ ReceiptInv(j)'
    BY <2>3, MarksAssumption DEF ReceiptInv
  <2> QED BY <1>4, <2>1, <2>2, <2>4, <2>5, <2>6, <2>7, <2>8, Respected DEF treeVars, remoteVars
<1> QED BY <1>0, <1>5, <1>6, <1>7 DEF OpenReceipt


LEMMA WriteKeeps == ASSUME IInv, TypeOK', NEW w \in Workers, WriteReceipt(w) PROVE IInv'
<1>0. PICK p : p = worker[w] OBVIOUS
<1>1. worker[w] # None /\ p.at = "write" BY <1>0 DEF WriteReceipt, At
<1>2. ProcessInv(w, p) /\ TypeOK /\ p.id \in Jobs /\ p.rec \in JobRecord BY <1>0, <1>1, Doing
<1>3. Told(p.id, p.rec) /\ jobLock[p.id] = w /\ receipt[p.id] = Torn
  BY <1>1, <1>2 DEF ProcessInv, Held, Labels
<1>4. /\ receipt' = [receipt EXCEPT ![p.id] = ReceiptOf(p.rec)] /\ Goto(w, "save")
      /\ UNCHANGED <<job, treeVars, remoteVars, fetched, lockVars, boundVars>>
  BY <1>0 DEF WriteReceipt
<1>5. PICK c : c = ReceiptOf(p.rec) OBVIOUS
<1>6. c \in Receipt /\ c.integration = p.rec.integration /\ c.checkpoint = p.rec.last
  BY <1>2, <1>3, <1>5, Bounds DEF ReceiptOf, Receipt, JobRecord, Told, TypeOK
<1>7. /\ receipt'[p.id] = c /\ \A j \in Jobs \ {p.id} : receipt'[j] = receipt[j]
      /\ receipt[p.id] \notin Receipt
  BY <1>2, <1>3, <1>4, <1>5, MarksAssumption DEF TypeOK
<1>8. PICK q : q = worker'[w] OBVIOUS
<1>9. Moves(w) /\ q.at = "save" /\ q.rec = p.rec /\ q.id = p.id /\ q.cmd = p.cmd
  BY <1>0, <1>1, <1>2, <1>4, <1>8, GotoIs DEF Labels
<1>10. Recorded(p.id, p.rec)' BY <1>5, <1>6, <1>7 DEF Recorded, ReceiptOf
<1>11. ProcessInv(w, q)'
  BY <1>1, <1>2, <1>3, <1>4, <1>9, <1>10
     DEF ProcessInv, Held, Labels, treeVars, lockVars, remoteVars, Told
<1>12. Persists BY <1>4, <1>7 DEF Persists, treeVars
<1>13. \A v \in Workers \ {w} : Respects(v) BY <1>3, <1>4, <1>7 DEF Respects, treeVars, lockVars
<1>14. Grows BY <1>2, <1>4, LenProperties DEF Grows, remoteVars, TypeOK
<1>15. \A j \in Jobs : UNCHANGED receipt[j] \/ ReceiptInv(j)'
  BY <1>3, <1>4, <1>6, <1>7 DEF ReceiptInv, Told, remoteVars
<1> QED BY <1>4, <1>8, <1>9, <1>11, <1>12, <1>13, <1>14, <1>15, Respected DEF treeVars, remoteVars

LEMMA SaveKeeps == ASSUME IInv, TypeOK', NEW w \in Workers, SaveIntegrated(w) PROVE IInv'
<1>0. PICK p : p = worker[w] OBVIOUS
<1>1. worker[w] # None /\ p.at = "save" BY <1>0 DEF SaveIntegrated, At
<1>2. ProcessInv(w, p) /\ TypeOK /\ p.id \in Jobs /\ p.rec \in JobRecord BY <1>0, <1>1, Doing
<1>3. Recorded(p.id, p.rec) BY <1>1, <1>2, MarksAssumption DEF ProcessInv
<1>4. Save(w, p.rec) /\ End(w) /\ UNCHANGED <<receipt, treeVars, remoteVars, fetched, boundVars>>
  BY <1>0 DEF SaveIntegrated
<1> QED BY <1>0, <1>1, <1>2, <1>3, <1>4, QuietEnd DEF remoteVars

-----------------------------------------------------------------------------
(***************************************************************************)
(* The commands that take no lock, and everything else that happens.       *)
(***************************************************************************)
LEMMA MarkKeeps == ASSUME IInv, TypeOK', NEW w \in Workers, MarkReconciled(w) PROVE IInv'
<1>0. PICK p : p = worker[w] OBVIOUS
<1>1. worker[w] # None /\ p.at = "check" BY <1>0 DEF MarkReconciled, At
<1>2. ProcessInv(w, p) /\ TypeOK /\ p.id \in Jobs /\ p.rec \in JobRecord BY <1>0, <1>1, Doing
<1>3. UNCHANGED <<diskVars, treeVars, remoteVars, boundVars>> BY DEF MarkReconciled
<1>4. PICK r : r = [p.rec EXCEPT !.reconciled = Len(target)] OBVIOUS
<1>5. CASE End(w) BY <1>1, <1>3, <1>5, QuietEnd DEF diskVars, remoteVars
<1>6. CASE GotoWith(w, "put", r) /\ UNCHANGED lockVars
  <2>1. Len(target) \in 0 .. MaxTarget BY <1>2, Bounds, LenProperties DEF TypeOK
  <2>2. r \in JobRecord /\ r.state = p.rec.state /\ r.last = p.rec.last
        /\ r.integration = p.rec.integration
    BY <1>2, <1>4, <2>1 DEF JobRecord
  <2>3. r # None /\ Recorded(p.id, p.rec)
    BY <1>1, <1>2, <2>2, MarksAssumption DEF ProcessInv
  <2>4. Recorded(p.id, r)' BY <1>3, <2>2, <2>3 DEF Recorded, ReceiptOf, diskVars
  <2>5. PICK q : q = worker'[w] OBVIOUS
  <2>6. Moves(w) /\ q.at = "put" /\ q.rec = r /\ q.id = p.id /\ q.cmd = p.cmd
    BY <1>0, <1>1, <1>2, <1>6, <2>2, <2>5, GotoWithIs DEF Labels
  <2>7. ProcessInv(w, q)'
    BY <1>1, <1>2, <1>3, <1>6, <2>3, <2>4, <2>6 DEF ProcessInv, Held, treeVars
  <2> QED BY <1>1, <1>3, <1>6, <2>5, <2>6, <2>7, QuietGoes DEF diskVars, remoteVars
<1> QED BY <1>0, <1>4, <1>5, <1>6 DEF MarkReconciled

LEMMA InitialKeeps == ASSUME IInv, TypeOK', NEW w \in Workers, PushInitial(w) PROVE IInv'
<1>0. PICK p : p = worker[w] OBVIOUS
<1>1. worker[w] # None /\ p.at = "check" BY <1>0 DEF PushInitial, At
<1>2. /\ ProcessInv(w, p) /\ TypeOK /\ p.id \in Jobs /\ p.rec \in JobRecord
      /\ head[p.id] \in Commit
  BY <1>0, <1>1, Doing
<1>3. UNCHANGED <<diskVars, treeVars, target, fetched, boundVars>> BY DEF PushInitial
<1>4. PICK r : r = [p.rec EXCEPT !.remote = head[p.id]] OBVIOUS
<1>5. CASE End(w) BY <1>1, <1>3, <1>5, QuietEnd DEF diskVars
<1>6. CASE GotoWith(w, "put", r) /\ UNCHANGED lockVars
  <2>2. r \in JobRecord /\ r.state = p.rec.state /\ r.last = p.rec.last
        /\ r.integration = p.rec.integration
    BY <1>2, <1>4 DEF JobRecord
  <2>3. r # None /\ Recorded(p.id, p.rec)
    BY <1>1, <1>2, <2>2, MarksAssumption DEF ProcessInv
  <2>4. Recorded(p.id, r)' BY <1>3, <2>2, <2>3 DEF Recorded, ReceiptOf, diskVars
  <2>5. PICK q : q = worker'[w] OBVIOUS
  <2>6. Moves(w) /\ q.at = "put" /\ q.rec = r /\ q.id = p.id /\ q.cmd = p.cmd
    BY <1>0, <1>1, <1>2, <1>6, <2>2, <2>5, GotoWithIs DEF Labels
  <2>7. ProcessInv(w, q)'
    BY <1>1, <1>2, <1>3, <1>6, <2>3, <2>4, <2>6 DEF ProcessInv, Held, treeVars
  <2> QED BY <1>1, <1>3, <1>6, <2>5, <2>6, <2>7, QuietGoes DEF diskVars
<1> QED BY <1>0, <1>4, <1>5, <1>6 DEF PushInitial

LEMMA PutKeeps == ASSUME IInv, TypeOK', NEW w \in Workers, Put(w) PROVE IInv'
<1>0. PICK p : p = worker[w] OBVIOUS
<1>1. worker[w] # None /\ p.at = "put" BY <1>0 DEF Put, At
<1>2. ProcessInv(w, p) /\ TypeOK /\ p.id \in Jobs /\ p.rec \in JobRecord /\ p \in Process
  BY <1>0, <1>1, Doing
<1>3. Recorded(p.id, p.rec) /\ p.rec # None BY <1>1, <1>2, MarksAssumption DEF ProcessInv
<1>4. Save(w, p.rec) /\ UNCHANGED <<receipt, treeVars, remoteVars, fetched, boundVars>>
  BY <1>0 DEF Put
<1>5. CASE End(w) BY <1>0, <1>1, <1>2, <1>3, <1>4, <1>5, QuietEnd DEF remoteVars
<1>6. CASE /\ worker' = [worker EXCEPT ![w].at = "check", ![w].cmd = "ensure"]
           /\ UNCHANGED lockVars
  <2>1. PICK q : q = worker'[w] OBVIOUS
  <2>2. Moves(w) /\ q.at = "check" /\ q.rec = p.rec /\ q.id = p.id
    BY <1>0, <1>2, <1>6, <2>1 DEF Moves, TypeOK, Process
  <2>3. job'[p.id] # None BY <1>0, <1>1, <1>2, <1>3, <1>4, SaveIs
  <2>4. Recorded(p.id, p.rec)' BY <1>3, <1>4 DEF Recorded, ReceiptOf
  <2>5. ProcessInv(w, q)' BY <1>2, <1>3, <1>4, <2>2, <2>3, <2>4 DEF ProcessInv, Held, treeVars
  <2> QED BY <1>0, <1>1, <1>2, <1>3, <1>4, <1>6, <2>1, <2>2, <2>5, QuietGoes DEF remoteVars
<1> QED BY <1>4, <1>5, <1>6 DEF Put


LEMMA LoadKeeps ==
    ASSUME IInv, TypeOK', NEW w \in Workers, NEW j \in Jobs, NEW c \in {"exec", "mark", "ensure"},
           Load(w, c, j)
    PROVE  IInv'
<1>1. /\ job[j] # None /\ UNCHANGED <<diskVars, treeVars, remoteVars, fetched, lockVars>>
      /\ Start(w, c, j, IF c = "exec" THEN "wait" ELSE "check", job[j])
  BY DEF Load
<1>2. PICK r : r = job[j] OBVIOUS
<1>3. r \in JobRecord /\ r # None /\ worktree[j] # "absent" /\ Recorded(j, r)
  BY <1>1, <1>2 DEF IInv, JobInv, TypeOK
<1>4. PICK q : q = worker'[w] OBVIOUS
<1>5. Moves(w) /\ q.at \in {"wait", "check"} /\ q.rec = r /\ q.id = j
  BY <1>1, <1>2, <1>3, <1>4, StartIs DEF IInv, Labels, Commands
<1>6. ProcessInv(w, q)'
  BY <1>1, <1>2, <1>3, <1>5 DEF ProcessInv, Held, Recorded, ReceiptOf, diskVars, treeVars
<1> QED BY <1>1, <1>4, <1>5, <1>6, Quiet DEF diskVars, remoteVars, lockVars

LEMMA QueueKeeps ==
    ASSUME IInv, TypeOK', NEW w \in Workers, NEW j \in Jobs, NEW c \in {"ready", "integrate", "finish"},
           Queue(w, c, j)
    PROVE  IInv'
<1>1. /\ job[j] # None /\ UNCHANGED <<diskVars, treeVars, remoteVars, fetched, lockVars>>
      /\ Start(w, c, j, "wait", None)
  BY DEF Queue
<1>2. worktree[j] # "absent" BY <1>1 DEF IInv, JobInv
<1>3. PICK q : q = worker'[w] OBVIOUS
<1>4. Moves(w) /\ q.at = "wait" /\ q.rec = None /\ q.id = j /\ q.cmd = c
  BY <1>1, <1>3, StartIs DEF IInv, Labels, Commands
<1>5. ProcessInv(w, q)' BY <1>1, <1>2, <1>4 DEF ProcessInv, Held, diskVars, treeVars
<1> QED BY <1>1, <1>3, <1>4, <1>5, Quiet DEF diskVars, remoteVars, lockVars

\* The branch is made over when no process knows the job.
LEMMA CreateKeeps ==
    ASSUME IInv, TypeOK', NEW w \in Workers, NEW j \in Jobs, Create(w, j) PROVE IInv'
<1>0. TypeOK BY DEF IInv
<1>1. PICK r : r = NewJob(Len(target)) OBVIOUS
<1>2. /\ job[j] = None /\ worktree[j] = "absent"
      /\ head' = [head EXCEPT ![j] = r.last] /\ worktree' = [worktree EXCEPT ![j] = "present"]
      /\ Start(w, "create", j, "put", r) /\ UNCHANGED <<diskVars, dirty, remoteVars, lockVars>>
  BY <1>1 DEF Create
<1>3. /\ r \in JobRecord /\ r.state = "active" /\ r # None /\ r.last = [edits |-> 0, merged |-> Len(target)]
  BY <1>0, <1>1, Bounds, LenProperties, NewJobIs DEF TypeOK
<1>4. /\ head'[j].edits = 0 /\ worktree'[j] = "present"
      /\ \A i \in Jobs \ {j} : head'[i] = head[i] /\ worktree'[i] = worktree[i]
  BY <1>0, <1>2, <1>3 DEF TypeOK
<1>5. PICK q : q = worker'[w] OBVIOUS
<1>6. Moves(w) /\ q.at = "put" /\ q.rec = r /\ q.id = j /\ q.cmd = "create"
  BY <1>0, <1>2, <1>3, <1>5, StartIs DEF Labels, Commands
<1>7. ProcessInv(w, q)' BY <1>3, <1>4, <1>6 DEF ProcessInv, Held, Recorded
<1>8. \A v \in Workers \ {w} : Respects(v)
  <2>1. \A v \in Workers : worker[v] # None => worker[v].id # j
    BY <1>2 DEF IInv, WorkerInv, ProcessInv
  <2> QED BY <1>2, <1>4, <2>1 DEF Respects, diskVars, lockVars
<1>9. Persists BY <1>2, <1>4 DEF Persists, diskVars
<1>10. Grows BY <1>0, <1>2, LenProperties DEF Grows, TypeOK, remoteVars
<1>11. \A i \in Jobs : UNCHANGED <<head[i], dirty[i]>> \/ (dirty'[i] => head'[i].edits < MaxEdits)
  BY <1>2, <1>4, Bounds
<1>12. \A i \in Jobs : UNCHANGED <<worktree[i], head[i], dirty[i]>> \/ ReleaseInv(i)'
  BY <1>2, <1>4 DEF ReleaseInv
<1> QED
  BY <1>2, <1>5, <1>6, <1>7, <1>8, <1>9, <1>10, <1>11, <1>12, Respected DEF diskVars, remoteVars

LEMMA RecoverKeeps ==
    ASSUME IInv, TypeOK', NEW w \in Workers, NEW j \in Jobs, Recover(w, j) PROVE IInv'
<1>0. TypeOK BY DEF IInv
<1>1. PICK r : r = [state |-> "interrupted", base |-> head[j].merged, last |-> head[j],
                    remote |-> None, reconciled |-> head[j].merged, integration |-> 0]
  OBVIOUS
<1>2. /\ worktree[j] = "present" /\ Start(w, "recover", j, "put", r)
      /\ UNCHANGED <<diskVars, treeVars, remoteVars, lockVars>>
  BY <1>1 DEF Recover
<1>3. r \in JobRecord /\ r # None /\ r.state = "interrupted"
  <2>1. head[j] \in Commit /\ head[j].merged \in 0 .. MaxTarget BY <1>0, HeadIs
  <2>2. r \in JobRecord BY <1>1, <2>1, Bounds DEF JobRecord, States
  <2> QED BY <1>1, <2>2, MarksAssumption
<1>4. PICK q : q = worker'[w] OBVIOUS
<1>5. Moves(w) /\ q.at = "put" /\ q.rec = r /\ q.id = j /\ q.cmd = "recover"
  BY <1>0, <1>2, <1>3, <1>4, StartIs DEF Labels, Commands
<1>6. ProcessInv(w, q)' BY <1>2, <1>3, <1>5 DEF ProcessInv, Held, Recorded, treeVars
<1> QED BY <1>2, <1>4, <1>5, <1>6, Quiet DEF diskVars, remoteVars, lockVars

\* Collected is what the target tells: the job's last commit is there.
LEMMA CollectKeeps ==
    ASSUME IInv, TypeOK', NEW w \in Workers, NEW j \in Jobs, Collect(w, j) PROVE IInv'
<1>0. TypeOK /\ None \notin Workers BY ConstantsAssumption DEF IInv
<1>1. /\ job[j] # None /\ job[j].state = "integrated"
      /\ job[j].remote = job[j].last /\ job[j].integration \in Matches(j, job[j])
      /\ jobLock[j] = None /\ head[j] = job[j].last /\ ~dirty[j] /\ worktree[j] = "present"
      /\ worktree' = [worktree EXCEPT ![j] = "released"]
      /\ UNCHANGED <<diskVars, head, dirty, target, integrateLock>>
  BY DEF Collect, Integrated, Release
<1>2. PICK r : r = job[j] OBVIOUS
<1>3. r \in JobRecord /\ r # None /\ Recorded(j, r) /\ CheckpointOf(r) = r.last
  BY <1>0, <1>1, <1>2 DEF TypeOK, IInv, JobInv, CheckpointOf
<1>4. /\ worktree'[j] = "released" /\ \A i \in Jobs \ {j} : worktree'[i] = worktree[i]
  BY <1>0, <1>1 DEF TypeOK
<1>5. ReleaseInv(j)' BY <1>1, <1>2, <1>3 DEF ReleaseInv, Matches, IsOf
<1>6. Persists BY <1>1, <1>4 DEF Persists, diskVars
<1>7. Grows BY <1>0, <1>1, LenProperties DEF Grows, TypeOK
<1>8. \A i \in Jobs : UNCHANGED <<worktree[i], head[i], dirty[i]>> \/ ReleaseInv(i)'
  BY <1>1, <1>4, <1>5
<1>9. CASE Start(w, "gc", j, "save", r) /\ jobLock' = [jobLock EXCEPT ![j] = w]
  <2>1. PICK q : q = worker'[w] OBVIOUS
  <2>2. Moves(w) /\ q.at = "save" /\ q.rec = r /\ q.id = j
    BY <1>0, <1>3, <1>9, <2>1, StartIs DEF Labels, Commands
  <2>3. jobLock'[j] = w /\ \A i \in Jobs \ {j} : jobLock'[i] = jobLock[i] BY <1>0, <1>9 DEF TypeOK
  <2>4. \A v \in Workers \ {w} : Respects(v)
    BY <1>0, <1>1, <2>3 DEF Respects, diskVars
  <2>5. Told(j, r) BY <1>1, <1>2, <1>3 DEF Told, Matches
  <2>6. Told(j, r)' /\ Recorded(j, r)'
    BY <1>1, <1>3, <2>5 DEF Told, IsOf, Recorded, ReceiptOf, diskVars
  <2>7. ProcessInv(w, q)'
    BY <1>1, <1>3, <1>4, <2>2, <2>3, <2>6 DEF ProcessInv, Held, diskVars
  <2> QED BY <1>1, <1>6, <1>7, <1>8, <2>1, <2>2, <2>4, <2>7, Respected DEF diskVars
<1>10. CASE UNCHANGED <<worker, boundVars, jobLock>>
  <2>1. Moves(None) BY <1>10 DEF Moves
  <2>2. \A v \in Workers : Respects(v) BY <1>1, <1>10 DEF Respects, diskVars
  <2> QED BY <1>0, <1>1, <1>6, <1>7, <1>8, <2>1, <2>2, Respected DEF diskVars
<1> QED BY <1>2, <1>9, <1>10 DEF Collect, Release

LEMMA OutsideKeeps == ASSUME IInv, TypeOK', PushOutside PROVE IInv'
<1>0. TypeOK /\ None \notin Workers BY ConstantsAssumption DEF IInv
<1>1. /\ Len(target) < MaxTarget /\ target' = Append(target, Outside)
      /\ UNCHANGED <<diskVars, treeVars, branch, fetched, lockVars, worker, boundVars>>
  BY DEF PushOutside
<1>2. Grows BY <1>0, <1>1, PushedIs, LenProperties DEF Grows, Entry, TypeOK
<1>3. Moves(None) /\ Persists BY <1>1 DEF Moves, Persists, diskVars, treeVars
<1>4. \A v \in Workers : Respects(v) BY <1>1 DEF Respects, diskVars, treeVars, lockVars
<1> QED BY <1>0, <1>1, <1>2, <1>3, <1>4, Respected DEF diskVars, treeVars

LEMMA DieKeeps == ASSUME IInv, TypeOK', NEW w \in Workers, Die(w) PROVE IInv'
  BY QuietEnd DEF Die, diskVars, remoteVars


-----------------------------------------------------------------------------
(***************************************************************************)
(* The invariant holds in every reachable state.                           *)
(***************************************************************************)
LEMMA InitHolds == Init => IInv
<1> SUFFICES ASSUME Init PROVE IInv OBVIOUS
<1>1. TypeOK BY InitTyped
<1>2. /\ receipt = [j \in Jobs |-> None] /\ dirty = [j \in Jobs |-> FALSE]
      /\ target \in {<<>>, <<Outside>>} /\ worker = [w \in Workers |-> None]
  BY DEF Init
<1>3. WorkerInv BY <1>2 DEF WorkerInv
<1>4. \A j \in Jobs : worktree[j] # "released" /\ (job[j] # None => worktree[j] = "present" /\ job[j].state = "active")
  <2>1. PICK phase \in [Jobs -> {"none", "created", "edited"}] :
          /\ worktree = [j \in Jobs |-> IF phase[j] = "none" THEN "absent" ELSE "present"]
          /\ job = [j \in Jobs |->
               CASE phase[j] = "none"    -> None
                 [] phase[j] = "created" -> NewJob(0)
                 [] OTHER -> Checkpointed(NewJob(0),
                               [edits |-> IF phase[j] = "edited" THEN 1 ELSE 0, merged |-> 0], "active")]
    BY DEF Init
  <2>0. 0 \in 0 .. MaxTarget BY Bounds
  <2>2. NewJob(0) \in JobRecord /\ NewJob(0).state = "active" BY <2>0, NewJobIs
  <2>3. \A c : Checkpointed(NewJob(0), c, "active").state = "active"
    BY <2>2 DEF Checkpointed, JobRecord
  <2> SUFFICES ASSUME NEW j \in Jobs
               PROVE  /\ worktree[j] # "released"
                      /\ job[j] # None => worktree[j] = "present" /\ job[j].state = "active"
    OBVIOUS
  <2>4. CASE phase[j] = "none" BY <2>1, <2>4
  <2>5. CASE phase[j] = "created" BY <2>1, <2>2, <2>5
  <2>6. CASE phase[j] = "edited" BY <2>1, <2>3, <2>6
  <2> QED BY <2>4, <2>5, <2>6
<1>5. JobInv BY <1>2, <1>4, MarksAssumption DEF JobInv, Recorded
<1>6. ReleasedIsIntegrated BY <1>4 DEF ReleasedIsIntegrated
<1>7. \A k \in 1 .. Len(target) : target[k] = Outside
  <2>1. CASE target = <<>> BY <2>1
  <2>2. CASE target = <<Outside>> BY <2>2
  <2> QED BY <1>2, <2>1, <2>2
<1> QED BY <1>1, <1>3, <1>5, <1>6, <1>7 DEF IInv, ReconciledBeforeIntegrated, EditsLandOnce

LEMMA StepKeeps == IInv /\ [Next]_vars => IInv'
<1> SUFFICES ASSUME IInv, [Next]_vars PROVE IInv' OBVIOUS
<1>0. TypeOK' BY TypeStep
<1>1. CASE \E w \in Workers : WorkerStep(w)
  BY <1>0, <1>1, LockJobKeeps, PayloadKeeps, CommitKeeps, PublishKeeps, CheckpointKeeps,
     ReadyKeeps, ReconcileKeeps, LockTargetKeeps, MergeKeeps, LandKeeps, VerifyKeeps,
     OpenKeeps, WriteKeeps, SaveKeeps, MarkKeeps, InitialKeeps, PutKeeps
     DEF WorkerStep
<1>2. CASE \E w \in Workers : Die(w) BY <1>0, <1>2, DieKeeps
<1>3. CASE \E w \in Workers, j \in Jobs : Begin(w, j)
  BY <1>0, <1>3, CreateKeeps, LoadKeeps, QueueKeeps, RecoverKeeps, CollectKeeps DEF Begin
<1>4. CASE PushOutside BY <1>0, <1>4, OutsideKeeps
<1>5. CASE UNCHANGED vars
  <2>1. UNCHANGED <<job, receipt, head, dirty, worktree, target, jobLock, worker>>
    BY <1>5 DEF vars, diskVars, treeVars, remoteVars, lockVars
  <2>2. Moves(None) /\ None \notin Workers BY <2>1, ConstantsAssumption DEF Moves
  <2> QED BY <1>0, <2>1, <2>2, Quiet DEF treeVars
<1> QED BY <1>1, <1>2, <1>3, <1>4, <1>5 DEF Next

LEMMA Inductive == Spec => []IInv
  BY InitHolds, StepKeeps, PTL DEF Spec

\* The records, receipts, branches and commits are what save_job, the receipt
\* writer and Git make of them: no step loads a record it does not have.
THEOREM WorkspaceTyped == Spec => []TypeOK
<1>1. IInv => TypeOK BY DEF IInv
<1> QED BY <1>1, Inductive, PTL

\* No lost update: whatever landed since the base of a job, on what the job
\* changes, was merged into the job before it landed (_integrate_job_locked).
THEOREM NothingOverwritten == Spec => []ReconciledBeforeIntegrated
<1>1. IInv => ReconciledBeforeIntegrated BY DEF IInv
<1> QED BY <1>1, Inductive, PTL

\* A second push of what the target already has never happens, whichever of
\* the push, its answer, the receipt and the job record was lost
\* (_find_existing_integration and the empty squash).
THEOREM NothingLandsTwice == Spec => []EditsLandOnce
<1>1. IInv => EditsLandOnce BY DEF IInv
<1> QED BY <1>1, Inductive, PTL

\* A written receipt names a commit of the job on the target, and a record of
\* an integration has that receipt (_write_terminal_receipt before save_job).
THEOREM ReceiptsTrue == Spec => []ReceiptTellsTarget
<1>1. ASSUME IInv PROVE ReceiptTellsTarget
  <2> SUFFICES ASSUME NEW j \in Jobs
               PROVE  /\ receipt[j] \notin {None, Torn} =>
                           /\ receipt[j].integration \in 1 .. Len(target)
                           /\ IsOf(target[receipt[j].integration], j)
                           /\ target[receipt[j].integration].checkpoint = receipt[j].checkpoint
                      /\ (job[j] # None /\ job[j].state = "integrated") => receipt[j] = ReceiptOf(job[j])
    BY DEF ReceiptTellsTarget
  <2>1. receipt[j] \in Receipt \cup {None, Torn} BY <1>1 DEF IInv, TypeOK
  <2> QED BY <1>1, <2>1 DEF IInv, JobInv, Recorded
<1> QED BY <1>1, Inductive, PTL

\* gc removes a worktree only when the target holds its last commit (gc_jobs).
THEOREM NothingReleasedIsLost == Spec => []ReleasedIsIntegrated
<1>1. IInv => ReleasedIsIntegrated BY DEF IInv
<1> QED BY <1>1, Inductive, PTL
=============================================================================
