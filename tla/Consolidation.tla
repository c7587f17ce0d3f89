---------------------------- MODULE Consolidation ----------------------------
(***************************************************************************)
(* v6_consolidate.py: an operator retires every daemon that ever served a  *)
(* mailbox and installs one release in their place, while launchd keeps    *)
(* the old daemons alive, requests arrive, and the Mac can restart.  The   *)
(* daemons keep each other out with the lock files of bridge.py.           *)
(*                                                                         *)
(* Each registration file declares a label; a label stands for a launchd   *)
(* job, its process and the one request that process may be working on.    *)
(* One migration is run, and rolled back as often as the operator likes.   *)
(***************************************************************************)
EXTENDS Naturals, Sequences, FiniteSets, SequencesExt

CONSTANTS
    Labels,             \* the labels of bridge daemons
    Keeper,             \* the label the release is installed under
    Production,         \* the labels that use the production state directory
    Identities,         \* [Labels -> sets], what the old daemon of a label locks
    Files,              \* the registration files of the LaunchAgents directory
    LabelOf,            \* [Files -> Labels]
    KeeperFile,         \* the file named after the keeper label
    MaxAdmitted,        \* bound on requests that are taken up
    MaxFaults           \* bound on deaths of daemons and of the script, and restarts

MailboxPaths == {"canonical", "aside", "legacy", "legacyAside", "shim"}

ASSUME LabelsAssumption ==
    /\ Keeper \in Production /\ Production \subseteq Labels
    /\ KeeperFile \in Files /\ LabelOf \in [Files -> Labels] /\ LabelOf[KeeperFile] = Keeper
    /\ IsFiniteSet(Files) /\ Files \cap MailboxPaths = {}
    /\ MaxAdmitted \in Nat /\ MaxFaults \in Nat

Absent == "none"
Nothing == <<>>
NoScript == [at |-> "idle"]
Paths == Files \cup MailboxPaths

VARIABLES
    fs,         \* [Paths -> what is there]
    job,        \* [Labels -> Absent, "old" or "release"], the jobs launchd has loaded
    disabled,   \* the labels disabled in launchd, across restarts
    proc,       \* [Labels -> Absent, "old" or "release"], the daemon processes
    draining,   \* the labels whose process was told to end
    work,       \* [Labels -> the request of the label and where it is]
    script,     \* the running migrate or rollback
    seen,       \* labels whose process is still the one of the census
    run,        \* the run directory: the files before, and the recorded actions
    released,   \* the point of no automatic return was passed, and no rollback began
    admitted, faults

launchd == <<job, disabled>>
daemons == <<proc, draining, work, seen>>
consolidationVars ==
    <<fs, job, disabled, proc, draining, work, seen, script, run, released, admitted, faults>>

\* Every historical identity of the mailbox is locked by the release, those of
\* its own build by an old daemon.
LockedBy(l, program) ==
    IF program = "release" THEN UNION {Identities[m] : m \in Labels} ELSE Identities[l]
Up == {l \in Labels : proc[l] # Absent}
LocksFree(l) ==
    \A m \in Labels \ {l} : proc[m] # Absent => LockedBy(l, job[l]) \cap LockedBy(m, proc[m]) = {}

ConsolidationInit ==
    /\ \E canonical \in {Absent, "dir", "link"}, legacy \in {Absent, "dir"} :
         fs = [p \in Paths |-> CASE p \in Files -> "plist"
                                 [] p = "canonical" -> canonical
                                 [] p = "legacy" -> legacy
                                 [] OTHER -> Absent]
    /\ job \in [Labels -> {Absent, "old"}]
    /\ disabled = {}
    /\ \E up \in SUBSET Labels :
         /\ \A l, m \in up : l # m => Identities[l] \cap Identities[m] = {}
         /\ proc = [l \in Labels |-> IF l \in up THEN "old" ELSE Absent]
    /\ draining = {} /\ seen = {}
    /\ work = [l \in Labels |-> Absent]
    /\ script = NoScript /\ run = Nothing /\ released = FALSE
    /\ admitted = 0 /\ faults = 0

-----------------------------------------------------------------------------
(***************************************************************************)
(* The daemons and launchd.                                                *)
(***************************************************************************)
SameState(l, m) == l = m \/ {l, m} \subseteq Production

\* KeepAlive: a job without a process gets one, and keeps it when it can take its
\* locks.  A daemon that starts ends the commands its journal has recorded.
Spawn(l) ==
    /\ job[l] # Absent /\ proc[l] = Absent /\ LocksFree(l)
    /\ proc' = [proc EXCEPT ![l] = job[l]]
    /\ work' = [m \in Labels |-> IF SameState(l, m) /\ work[m] = "orphan"
                                 THEN "unfinished" ELSE work[m]]
    /\ UNCHANGED <<fs, launchd, draining, seen, script, run, released, admitted, faults>>

\* A request is run, or waits for the operator's approval.
Admit(l) ==
    /\ proc[l] # Absent /\ l \notin draining /\ work[l] = Absent
    /\ admitted < MaxAdmitted /\ admitted' = admitted + 1
    /\ \E to \in {"running", "approval"} : work' = [work EXCEPT ![l] = to]
    /\ UNCHANGED <<fs, launchd, proc, draining, seen, script, run, released, faults>>

\* The command of a live daemon ends, an approval is given or expires, a command
\* nobody waits for ends without a record, and a daemon of the same state settles
\* the request when it sees it again.
Proceed(l) ==
    /\ \/ work[l] = "running" /\ proc[l] # Absent /\ work' = [work EXCEPT ![l] = Absent]
       \/ work[l] = "approval" /\ work' = [work EXCEPT ![l] = Absent]
       \/ work[l] = "approval" /\ proc[l] # Absent /\ l \notin draining
             /\ work' = [work EXCEPT ![l] = "running"]
       \/ work[l] = "orphan" /\ work' = [work EXCEPT ![l] = "unfinished"]
       \/ /\ work[l] = "unfinished" /\ \E m \in Up \ draining : SameState(l, m)
          /\ work' = [work EXCEPT ![l] = Absent]
    /\ UNCHANGED <<fs, launchd, proc, draining, seen, script, run, released, admitted, faults>>

End(l) ==
    /\ proc' = [proc EXCEPT ![l] = Absent]
    /\ draining' = draining \ {l} /\ seen' = seen \ {l}
    /\ work' = [work EXCEPT ![l] = IF @ = "running" THEN "orphan" ELSE @]

\* A draining daemon ends when its work did, or is killed by launchd.
Drained(l) ==
    /\ l \in draining /\ End(l)
    /\ UNCHANGED <<fs, launchd, script, run, released, admitted, faults>>

Die(l) ==
    /\ proc[l] # Absent /\ faults < MaxFaults /\ faults' = faults + 1
    /\ End(l)
    /\ UNCHANGED <<fs, launchd, script, run, released, admitted>>

\* A label that is declared and not disabled is loaded from a file that declares it.
ProgramOf(f) == IF fs[f] = "new" THEN "release" ELSE "old"
Declaring(l) == {f \in Files : LabelOf[f] = l /\ fs[f] # Absent}

Reboot ==
    /\ faults < MaxFaults /\ faults' = faults + 1
    /\ job' \in [Labels -> {Absent, "old", "release"}]
    /\ \A l \in Labels :
         IF l \in disabled \/ Declaring(l) = {} THEN job'[l] = Absent
         ELSE \E f \in Declaring(l) : job'[l] = ProgramOf(f)
    /\ proc' = [l \in Labels |-> Absent]
    /\ draining' = {} /\ seen' = {}
    /\ work' = [l \in Labels |-> IF work[l] \in {"running", "orphan"}
                                 THEN "unfinished" ELSE work[l]]
    /\ script' = NoScript
    /\ UNCHANGED <<fs, disabled, run, released, admitted>>

-----------------------------------------------------------------------------
(***************************************************************************)
(* migrate.  A Hold ends it and leaves everything as it is.                *)
(***************************************************************************)
ScriptAt(place) == script.at = place
ScriptGoes(place) == script' = [script EXCEPT !.at = place]
Hold == script' = NoScript
ScriptDies ==
    /\ ~ScriptAt("idle") /\ faults < MaxFaults /\ faults' = faults + 1
    /\ Hold
    /\ UNCHANGED <<fs, launchd, daemons, run, released, admitted>>

\* Children are those of the processes of loaded jobs; the journal is read for
\* the production state only, the approvals of every state.
LiveWork ==
    \/ \E l \in Labels : proc[l] # Absent /\ job[l] = Absent
    \/ \E l \in Labels : proc[l] # Absent /\ work[l] = "running"
    \/ \E l \in Labels : work[l] = "approval"
    \/ \E l \in Production : work[l] \in {"running", "orphan", "unfinished"}

Loaded == {l \in Labels : job[l] # Absent}

Begin ==
    /\ ScriptAt("idle") /\ run = Nothing /\ ~LiveWork
    /\ run' = [before |-> fs, actions |-> <<>>]
    /\ script' = [at |-> "stop", up |-> Up, loaded |-> Loaded, label |-> Absent,
                  todo |-> Loaded \cup {LabelOf[f] : f \in Files}]
    /\ seen' = Up
    /\ UNCHANGED <<fs, launchd, proc, draining, work, released, admitted, faults>>

\* Variant: only the keeper has its place, the last.
IsNextByName(l) == \A m \in script.todo : l = Keeper => m = Keeper

\* Labels without a process first, and the keeper last among its like.
Rank(l) == (IF l \in script.up THEN 2 ELSE 0) + (IF l = Keeper THEN 1 ELSE 0)
IsNext(l) == \A m \in script.todo : Rank(l) <= Rank(m)

Disable ==
    /\ ScriptAt("stop")
    /\ \E l \in script.todo :
         /\ IsNext(l)
         /\ disabled' = IF l = Keeper THEN disabled ELSE disabled \cup {l}
         /\ script' = [script EXCEPT !.at = "bootout", !.label = l, !.todo = @ \ {l}]
    /\ UNCHANGED <<fs, job, daemons, run, released, admitted, faults>>

\* bootout unloads the job and ends its process with SIGTERM; its failure shows
\* in the wait.
Bootout ==
    /\ ScriptAt("bootout") /\ ScriptGoes("unload")
    /\ \/ /\ script.label \in script.loaded
          /\ job' = [job EXCEPT ![script.label] = Absent]
          /\ draining' = IF proc[script.label] # Absent
                         THEN draining \cup {script.label} ELSE draining
       \/ UNCHANGED <<job, draining>>
    /\ UNCHANGED <<fs, disabled, proc, work, seen, run, released, admitted, faults>>

\* The wait is for the label, then for the process of the census.
Stopped ==
    /\ ScriptAt("unload")
    /\ \/ /\ job[script.label] = Absent /\ script.label \notin seen
          /\ ScriptGoes(IF script.todo = {} THEN "stopped" ELSE "stop")
       \/ Hold
    /\ UNCHANGED <<fs, launchd, daemons, run, released, admitted, faults>>

\* Variant: only the file named after the keeper is taken for its registration.
ArchiveNamed ==
    SetToSeq({[kind |-> "archive", path |-> f] : f \in {KeeperFile} \cup
                 {g \in Files : LabelOf[g] # Keeper}})

\* The steps of the installation: each is recorded, then takes effect.
ArchiveSteps == SetToSeq({[kind |-> "archive", path |-> f] : f \in Files})
CanonicalSteps ==
    CASE fs["canonical"] = "link" -> <<[kind |-> "remove", path |-> "canonical"]>>
      [] fs["canonical"] = "dir" -> <<[kind |-> "rename", path |-> "canonical", to |-> "aside"]>>
      [] OTHER -> <<>>
LegacySteps ==
    IF fs["legacy"] = Absent THEN <<>>
    ELSE <<[kind |-> "rename", path |-> "legacy", to |-> "legacyAside"]>>
Steps ==
    ArchiveSteps \o CanonicalSteps \o <<[kind |-> "create", path |-> "canonical"]>>
    \o LegacySteps \o <<[kind |-> "mkdir", path |-> "legacy"],
                        [kind |-> "create", path |-> "shim"],
                        [kind |-> "create", path |-> KeeperFile]>>

\* Variant: nothing is looked at again once every service was stopped.
StoppedUnchecked ==
    /\ ScriptAt("stopped")
    /\ script' = [at |-> "step", todo |-> Steps]
    /\ UNCHANGED <<fs, launchd, daemons, run, released, admitted, faults>>

AfterStop ==
    /\ ScriptAt("stopped")
    /\ IF Up = {} /\ Loaded = {} /\ ~LiveWork
       THEN script' = [at |-> "step", todo |-> Steps]
       ELSE Hold
    /\ UNCHANGED <<fs, launchd, daemons, run, released, admitted, faults>>

Applied(a) ==
    CASE a.kind \in {"archive", "remove"} -> [fs EXCEPT ![a.path] = Absent]
      [] a.kind = "rename" -> [fs EXCEPT ![a.to] = fs[a.path], ![a.path] = Absent]
      [] a.kind = "mkdir" -> [fs EXCEPT ![a.path] = "newdir"]
      [] a.kind = "create" -> [fs EXCEPT ![a.path] = "new"]

Recorded ==
    /\ run' = [run EXCEPT !.actions = Append(@, Head(script.todo))]
    /\ UNCHANGED fs
Effected ==
    /\ fs' = Applied(Head(script.todo))
    /\ UNCHANGED run

\* A directory is made before its making is recorded, everything else after.
StepFirst ==
    /\ ScriptAt("step") /\ ScriptGoes("effect")
    /\ IF Head(script.todo).kind = "mkdir" THEN Effected ELSE Recorded
    /\ UNCHANGED <<launchd, daemons, released, admitted, faults>>

\* The archived copy is linked before the original is unlinked, which alone shows.
StepSecond ==
    /\ ScriptAt("effect")
    /\ IF Head(script.todo).kind = "mkdir" THEN Recorded ELSE Effected
    /\ script' = [at |-> IF Len(script.todo) = 1 THEN "enable" ELSE "step",
                  todo |-> Tail(script.todo)]
    /\ UNCHANGED <<launchd, daemons, released, admitted, faults>>

Enable ==
    /\ ScriptAt("enable") /\ ScriptGoes("bootstrap")
    /\ disabled' = disabled \ {Keeper}
    /\ released' = TRUE
    /\ UNCHANGED <<fs, job, daemons, run, admitted, faults>>

Bootstrap ==
    /\ ScriptAt("bootstrap")
    /\ \/ job' = [job EXCEPT ![Keeper] = "release"] /\ ScriptGoes("verify")
       \/ Hold /\ UNCHANGED job
    /\ UNCHANGED <<fs, disabled, daemons, run, released, admitted, faults>>

\* verify_single_owner: the health file is the one of the release's process, and
\* nothing else is loaded, runs or is declared.
SingleOwner ==
    /\ proc[Keeper] = "release"
    /\ Loaded = {Keeper} /\ Up = {Keeper}
    /\ \A f \in Files : fs[f] # Absent => LabelOf[f] = Keeper
VerifyOwner ==
    /\ ScriptAt("verify")
    /\ IF SingleOwner THEN ScriptGoes("complete") ELSE Hold
    /\ UNCHANGED <<fs, launchd, daemons, run, released, admitted, faults>>

Complete ==
    /\ ScriptAt("complete") /\ Hold
    /\ UNCHANGED <<fs, launchd, daemons, run, released, admitted, faults>>

-----------------------------------------------------------------------------
(***************************************************************************)
(* rollback, which the operator calls once no bridge runs.                 *)
(***************************************************************************)
\* The operator unloads every job.
StandDown ==
    /\ ScriptAt("idle") /\ run # Nothing
    /\ job' = [l \in Labels |-> Absent]
    /\ draining' = Up
    /\ UNCHANGED <<fs, disabled, proc, work, seen, script, run, released, admitted, faults>>

RollbackAllowed ==
    /\ ScriptAt("idle") /\ run # Nothing
    /\ Up = {} /\ Loaded = {}
    /\ \A l \in Production : work[l] \notin {"running", "orphan", "unfinished"}

\* Variant: the actions are reversed in the order they were taken.
RollbackForward ==
    /\ RollbackAllowed
    /\ script' = [at |-> "undo", todo |-> run.actions]
    /\ released' = FALSE
    /\ UNCHANGED <<fs, launchd, daemons, run, admitted, faults>>

Rollback ==
    /\ RollbackAllowed
    /\ script' = [at |-> "undo", todo |-> Reverse(run.actions)]
    /\ released' = FALSE
    /\ UNCHANGED <<fs, launchd, daemons, run, admitted, faults>>

\* What each reversal needs, and what it does.  A file or link that is to be
\* removed may be missing; everything else must be as the action left it.
Reversible(a) ==
    CASE a.kind = "mkdir" -> fs[a.path] = "newdir" /\ fs["shim"] = Absent
      [] a.kind = "remove" -> fs[a.path] = Absent
      [] a.kind = "rename" -> fs[a.to] # Absent /\ fs[a.path] \in {Absent, "newdir"}
      [] OTHER -> TRUE

Reversed(a) ==
    CASE a.kind = "create" -> [fs EXCEPT ![a.path] = IF @ \in {"dir", "newdir"}
                                                       THEN @ ELSE Absent]
      [] a.kind = "mkdir" -> [fs EXCEPT ![a.path] = Absent]
      [] a.kind = "remove" -> [fs EXCEPT ![a.path] = "link"]
      [] a.kind = "rename" -> [fs EXCEPT ![a.path] = fs[a.to], ![a.to] = Absent]
      [] a.kind = "archive" -> [fs EXCEPT ![a.path] = IF @ = Absent THEN "plist" ELSE @]

Undo ==
    /\ ScriptAt("undo") /\ script.todo # <<>>
    /\ IF Reversible(Head(script.todo))
       THEN /\ fs' = Reversed(Head(script.todo))
            /\ script' = [script EXCEPT !.todo = Tail(@)]
       ELSE Hold /\ UNCHANGED fs
    /\ UNCHANGED <<launchd, daemons, run, released, admitted, faults>>

Restored ==
    /\ ScriptAt("undo") /\ script.todo = <<>> /\ Hold
    /\ UNCHANGED <<fs, launchd, daemons, run, released, admitted, faults>>

Migrate ==
    \/ Begin \/ Disable \/ Bootout \/ Stopped \/ AfterStop
    \/ StepFirst \/ StepSecond \/ Enable \/ Bootstrap \/ VerifyOwner \/ Complete

ConsolidationNext ==
    \/ \E l \in Labels : Spawn(l) \/ Admit(l) \/ Proceed(l) \/ Drained(l) \/ Die(l)
    \/ Reboot
    \/ Migrate \/ StandDown \/ Rollback \/ Undo \/ Restored
    \/ ScriptDies

ConsolidationSpec == ConsolidationInit /\ [][ConsolidationNext]_consolidationVars

-----------------------------------------------------------------------------
(***************************************************************************)
(* Properties.                                                             *)
(***************************************************************************)
Programs == {Absent, "old", "release"}

\* A process belongs to a program, a request to a stage, and only a process drains.
ConsolidationTypeOK ==
    /\ fs \in [Paths -> {Absent, "plist", "dir", "link", "new", "newdir"}]
    /\ job \in [Labels -> Programs] /\ proc \in [Labels -> Programs]
    /\ disabled \subseteq Labels /\ draining \subseteq Up /\ seen \subseteq Up
    /\ work \in [Labels -> {Absent, "running", "approval", "orphan", "unfinished"}]
    /\ released \in BOOLEAN

\* "Labels without a running process first (respawn loops), so that no claimant can
\* take the mailbox when a running owner later releases it."
NoClaimantTakesOver ==
    [][\A l \in Labels :
          (script.at \in {"stop", "bootout", "unload"} /\ l \notin script.up
              /\ proc[l] = Absent /\ proc'[l] # Absent)
          => script.up \subseteq script.todo]_consolidationVars

Installing == script.at \in {"step", "effect", "enable", "bootstrap"}

\* Registrations are retired and the release is installed only while no daemon runs
\* or can be started, and over a production journal without unfinished work.
InstallsInQuiet ==
    Installing =>
        /\ Up = {} /\ Loaded = {}
        /\ \A l \in Production : work[l] \in {Absent, "approval"}

\* "From here on, never restart an old owner": whatever dies, and however often the
\* Mac restarts, every daemon from then on is the release.
OldOwnerStaysRetired == released => \A l \in Up : proc[l] = "release"

\* A rollback that ends without a Hold has put back every file, link and directory,
\* whatever the migration died over and however often the rollback was tried.  ScriptAt
\* most the empty directory of a legacy coordinator is left over.
RollbackRestores ==
    [][Restored => \A p \in Paths : \/ fs[p] = run.before[p]
                                    \/ run.before[p] = Absent /\ fs[p] = "newdir"
     ]_consolidationVars

\* "Record a reversible filesystem action BEFORE relying on it": a rollback that
\* begins with the files as the migration left them is able to end.  (False after a
\* death between a record and its effect: README, section 5.)
RollbackGoesThrough ==
    [][ScriptAt("undo") /\ script.todo # <<>> => Reversible(Head(script.todo))]_consolidationVars

\* "Hold on anything a stop could abandon": no command of a retired daemon runs on
\* while the release is installed.  (False: a command that a daemon outside the
\* production state takes up after the census.)
NothingAbandoned == Installing => \A l \in Labels : work[l] # "orphan"
=============================================================================
