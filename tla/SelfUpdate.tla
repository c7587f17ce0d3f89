----------------------------- MODULE SelfUpdate -----------------------------
(***************************************************************************)
(* The self-update of the protocol-v2 bridge: the watcher writes a handoff *)
(* and starts the supervisor of self_update.py, which publishes the        *)
(* qualified commit, switches the pointer to the active runtime, restarts  *)
(* the watcher through launchd and goes back when the new runtime does not *)
(* report itself healthy in time.                                          *)
(*                                                                         *)
(* A commit is the sequence of the changes that lead to it.  A runtime is  *)
(* named by its commit.  A run of the supervisor does not outlive its      *)
(* process: each action is one command or file operation it acts on.       *)
(***************************************************************************)
EXTENDS Naturals, Sequences, FiniteSets, SequencesExt

CONSTANTS
    Updates,            \* the updates that can be asked for
    Changes,            \* the changes the updates bring
    CommitOf,           \* [Updates -> commit], the field "target_sha"
    MaxRequests,        \* bound on self_update requests
    MaxCrashes,         \* bound on deaths of the supervisor
    MaxActs             \* bound on acts of the developer and of others

None == "none"
Root == <<"root">>
Base == <<"root", "base">>      \* the commit of the installed runtime

ASSUME UpdatesAssumption ==
    /\ None \notin Updates
    /\ CommitOf \in [Updates -> Seq({"root", "base"} \cup Changes)]
    /\ \A u \in Updates : IsStrictPrefix(Base, CommitOf[u])
    /\ {MaxRequests, MaxCrashes, MaxActs} \subseteq Nat

Branches == {"main", "topic"}
Commits == {Base} \cup {CommitOf[u] : u \in Updates}
Idle == [at |-> "idle"]

VARIABLES
    offered,    \* updates with a receipt whose safe branch is at their commit
    handoff,    \* the handoff file: an update or None
    owed,       \* the watcher is between writing a handoff and the launch
    sup,        \* the supervisor that holds the lock
    active,     \* the pointer to the active runtime
    health,     \* the health marker, <<>> when there is none
    watcher,    \* the watcher process: where it is and the runtime it runs
    journal,    \* the journal of the supervisor: target and status
    origin,     \* main of the remote
    branch,     \* [Branches -> commit] of the source repository
    previousTip,\* [Branches -> commit], the tip before the last one (the reflog)
    head,       \* the branch checked out there
    edited,     \* tracked files hold edits nobody committed
    broken,     \* commits whose watcher dies before it reports healthy
    verified,   \* runtimes a supervisor found healthy
    abandoned,  \* a supervisor ended between a switch and its verdict
    requests, crashes, acts

files == <<handoff, owed, active, health, journal>>
repository == <<branch, previousTip, head, edited>>
outside == <<offered, broken>>
bounds == <<requests, crashes, acts>>
vars == <<offered, handoff, owed, sup, active, health, watcher, journal, origin, branch,
          previousTip, head, edited, broken, verified, abandoned, requests, crashes, acts>>

Init ==
    /\ offered \in SUBSET Updates
    /\ handoff = None /\ owed = FALSE
    /\ sup = Idle
    /\ active = Base
    /\ watcher = [at |-> "up", runtime |-> Base, fresh |-> TRUE]
    /\ health = [runtime |-> Base, fresh |-> TRUE]
    /\ journal = [target |-> None, status |-> None]
    /\ origin = Base
    /\ \E topic \in {Root, Base} : branch = [b \in Branches |-> IF b = "main" THEN Base ELSE topic]
    /\ previousTip = [b \in Branches |-> Root]
    /\ head = "main" /\ edited = FALSE
    /\ broken \in SUBSET {CommitOf[u] : u \in Updates}
    /\ verified = {Base} /\ abandoned = FALSE
    /\ requests = 0 /\ crashes = 0 /\ acts = 0

-----------------------------------------------------------------------------
(***************************************************************************)
(* The watcher.  launchd keeps it alive; the launcher reads the pointer.   *)
(* "fresh" says that a process, or the marker it wrote, started after the  *)
(* pointer was last written.                                               *)
(***************************************************************************)
Launch ==
    /\ watcher.at = "down"
    /\ watcher' = [at |-> "starting", runtime |-> active, fresh |-> TRUE]
    /\ UNCHANGED <<files, sup, origin, repository, outside, verified, abandoned, bounds>>

\* The marker is the first thing cmd_watch writes.  A broken runtime ends before.
Mark ==
    /\ watcher.at = "starting"
    /\ IF watcher.runtime \in broken
       THEN watcher' = [watcher EXCEPT !.at = "down"] /\ UNCHANGED health
       ELSE /\ watcher' = [watcher EXCEPT !.at = "up"]
            /\ health' = [runtime |-> watcher.runtime, fresh |-> watcher.fresh]
    /\ UNCHANGED <<handoff, owed, active, journal, sup, origin, repository, outside,
                   verified, abandoned, bounds>>

\* A draining watcher finished its workers, or any watcher died.
Exit ==
    /\ watcher.at \in {"up", "draining"}
    /\ watcher' = [watcher EXCEPT !.at = "down"]
    /\ owed' = FALSE
    /\ UNCHANGED <<handoff, active, health, journal, sup, origin, repository, outside,
                   verified, abandoned, bounds>>

\* A self_update request is accepted: receipt and tip are right.
Request(u) ==
    /\ watcher.at = "up" /\ ~owed /\ requests < MaxRequests
    /\ u \in offered
    /\ handoff' = u /\ owed' = TRUE
    /\ requests' = requests + 1
    /\ UNCHANGED <<active, health, journal, sup, watcher, origin, repository, outside,
                   verified, abandoned, crashes, acts>>

\* The launch follows the publication of the result, and only in the poll that
\* made it: not when the publication fails, and never with one worker.
NotLaunched ==
    /\ owed /\ owed' = FALSE
    /\ UNCHANGED <<handoff, active, health, journal, sup, watcher, origin, repository,
                   outside, verified, abandoned, bounds>>

-----------------------------------------------------------------------------
(***************************************************************************)
(* The supervisor.                                                         *)
(***************************************************************************)
At(place) == sup.at = place
Goto(place) == sup' = [sup EXCEPT !.at = place]
Raise == sup' = Idle
Target == CommitOf[sup.update]
Tip == branch[head]

Sound(u) ==
    /\ u \in offered
    /\ ~edited /\ head = "main" /\ IsPrefix(Tip, CommitOf[u])

\* A second supervisor finds the lock taken and ends.  The checks that come
\* before the installation are read-only and made in one step.
Start ==
    /\ owed /\ owed' = FALSE
    /\ IF At("idle") /\ handoff # None /\ Sound(handoff)
       THEN sup' = [at |-> "install", update |-> handoff, previous |-> active, head |-> Tip]
       ELSE UNCHANGED sup
    /\ UNCHANGED <<handoff, active, health, journal, watcher, origin, repository, outside,
                   verified, abandoned, bounds>>

\* A runtime directory is complete or absent.  The journal keeps the fields of
\* earlier updates that are not given again.
Install ==
    /\ At("install")
    /\ \/ Goto("remote") /\ journal' = [journal EXCEPT !.target = sup.update]
       \/ Raise /\ UNCHANGED journal
    /\ UNCHANGED <<handoff, owed, active, health, watcher, origin, repository, outside,
                   verified, abandoned, bounds>>

ReadRemote ==
    /\ At("remote")
    /\ Goto(IF origin = Target THEN "promote" ELSE "push") \/ Raise
    /\ UNCHANGED <<files, watcher, origin, repository, outside, verified, abandoned, bounds>>

\* Variant: the exit code of git push is not looked at.
PushUnchecked ==
    /\ At("push")
    /\ origin' = IF IsPrefix(origin, Target) THEN Target ELSE origin
    /\ Goto("promote")
    /\ UNCHANGED <<files, watcher, repository, outside, verified, abandoned, bounds>>

\* git push without force; its answer can be lost.
Push ==
    /\ At("push")
    /\ \/ IsPrefix(origin, Target) /\ origin' = Target /\ (Goto("promote") \/ Raise)
       \/ Raise /\ UNCHANGED origin
    /\ UNCHANGED <<files, watcher, repository, outside, verified, abandoned, bounds>>

(***************************************************************************)
(* _promote_local_main, skipped when the checkout is at the commit.        *)
(***************************************************************************)
Promote ==
    /\ At("promote")
    /\ \/ Tip = Target /\ Goto("switch")
       \/ Tip = sup.head /\ Tip # Target /\ head = "main" /\ ~edited /\ Goto("merge")
       \/ Tip # Target /\ (Tip # sup.head \/ head # "main" \/ edited) /\ Raise
    /\ UNCHANGED <<files, watcher, origin, repository, outside, verified, abandoned, bounds>>

\* git merge --ff-only moves whatever branch is checked out by now.  A branch that
\* is there already gets no new entry in its reflog.
Merge ==
    /\ At("merge")
    /\ \/ /\ IsPrefix(Tip, Target)
          /\ branch' = [branch EXCEPT ![head] = Target]
          /\ previousTip' = IF Tip = Target THEN previousTip
                            ELSE [previousTip EXCEPT ![head] = Tip]
          /\ Goto("merged")
       \/ (~IsPrefix(Tip, Target) \/ edited) /\ Raise /\ UNCHANGED <<branch, previousTip>>
    /\ UNCHANGED <<files, watcher, origin, head, edited, outside, verified, abandoned, bounds>>

Merged ==
    /\ At("merged")
    /\ sup' = CASE Tip = Target /\ ~edited /\ head = "main" -> [sup EXCEPT !.at = "switch"]
                [] Tip = Target /\ ~edited /\ head # "main" -> [sup EXCEPT !.at = "repair", !.head = head]
                [] OTHER -> Idle
    /\ UNCHANGED <<files, watcher, origin, repository, outside, verified, abandoned, bounds>>

\* The other branch gets back the tip its reflog names, by compare-and-swap.
Repair ==
    /\ At("repair")
    /\ LET b == sup.head IN
       IF branch[b] = Target
       THEN branch' = [branch EXCEPT ![b] = previousTip[b]] /\ Goto("repaired")
       ELSE Raise /\ UNCHANGED branch
    /\ UNCHANGED <<files, watcher, origin, previousTip, head, edited, outside, verified,
                   abandoned, bounds>>

Repaired ==
    /\ At("repaired")
    /\ IF head = sup.head THEN Goto("reset") ELSE Raise
    /\ UNCHANGED <<files, watcher, origin, repository, outside, verified, abandoned, bounds>>

\* git reset --hard moves the branch that is checked out; the update fails in
\* any case.
Reset ==
    /\ At("reset") /\ Raise
    /\ branch' = [branch EXCEPT ![head] = previousTip[sup.head]]
    /\ edited' = FALSE
    /\ UNCHANGED <<files, watcher, origin, previousTip, head, outside, verified,
                   abandoned, bounds>>

(***************************************************************************)
(* The switch, its verification, and the way back.  "back" distinguishes   *)
(* the second time from the first.                                         *)
(***************************************************************************)
\* Whoever runs now, and the marker it wrote, is from before this change.
Point(commit) ==
    /\ active' = commit
    /\ watcher' = [watcher EXCEPT !.fresh = @ /\ commit = active]
    /\ health' = IF health = <<>> THEN <<>> ELSE [health EXCEPT !.fresh = @ /\ commit = active]

Switch ==
    /\ At("switch") /\ Point(Target) /\ Goto("unlink")
    /\ UNCHANGED <<handoff, owed, journal, origin, repository, outside, verified, abandoned,
                   bounds>>

\* Variant: the marker of the runtime before is left.
KeepMarker(from, to) ==
    /\ At(from) /\ Goto(to)
    /\ UNCHANGED <<files, watcher, origin, repository, outside, verified, abandoned, bounds>>

UnlinkHealth(from, to) ==
    /\ At(from) /\ health' = <<>> /\ Goto(to)
    /\ UNCHANGED <<handoff, owed, active, journal, watcher, origin, repository, outside,
                   verified, abandoned, bounds>>

\* SIGTERM drains a watcher that has installed its handlers and ends one that
\* has not.  When there is no process launchd starts one.
Restart(from, to) ==
    /\ At(from) /\ Goto(to)
    /\ watcher' = [watcher EXCEPT !.at = CASE @ = "up" -> "draining"
                                           [] @ = "starting" -> "down"
                                           [] OTHER -> @]
    /\ UNCHANGED <<files, origin, repository, outside, verified, abandoned, bounds>>

\* The marker cannot be removed, the journal cannot be written, the LaunchAgent is
\* gone or launchctl fails: nobody goes back.
RestartFails ==
    /\ sup.at \in {"unlink", "restart", "unlinkBack", "restartBack"}
    /\ Raise /\ abandoned' = TRUE
    /\ UNCHANGED <<files, watcher, origin, repository, outside, verified, bounds>>

Healthy(commit) == health # <<>> /\ health.runtime = commit

Verify ==
    /\ At("wait") /\ Healthy(Target)
    /\ journal' = [journal EXCEPT !.status = "success"]
    /\ verified' = verified \cup {Target} /\ abandoned' = FALSE
    /\ Goto("finish")
    /\ UNCHANGED <<handoff, owed, active, health, watcher, origin, repository, outside,
                   bounds>>

\* Variant: an unhealthy runtime stays active.
StayForward ==
    /\ At("wait") /\ ~Healthy(Target) /\ Raise
    /\ UNCHANGED <<files, watcher, origin, repository, outside, verified, abandoned, bounds>>

RollBack ==
    /\ At("wait") /\ ~Healthy(Target)
    /\ Point(sup.previous) /\ Goto("unlinkBack")
    /\ UNCHANGED <<handoff, owed, journal, origin, repository, outside, verified, abandoned,
                   bounds>>

RolledBack ==
    /\ At("waitBack") /\ Raise
    /\ journal' = [journal EXCEPT !.status = IF Healthy(sup.previous) THEN "rolled-back"
                                             ELSE "rollback-health-failed"]
    /\ UNCHANGED <<handoff, owed, active, health, watcher, origin, repository, outside,
                   verified, abandoned, bounds>>

\* The handoff file is removed, whatever it holds by now.
Finish ==
    /\ At("finish") /\ Raise /\ handoff' = None
    /\ UNCHANGED <<owed, active, health, journal, watcher, origin, repository, outside,
                   verified, abandoned, bounds>>

Unverified == sup.at \in {"unlink", "restart", "wait"}

Crash ==
    /\ ~At("idle") /\ crashes < MaxCrashes
    /\ Raise /\ crashes' = crashes + 1
    /\ abandoned' = (abandoned \/ Unverified)
    /\ UNCHANGED <<files, watcher, origin, repository, outside, verified, requests, acts>>

Supervisor ==
    \/ Start \/ Install \/ ReadRemote \/ Push
    \/ Promote \/ Merge \/ Merged \/ Repair \/ Repaired \/ Reset
    \/ Switch \/ UnlinkHealth("unlink", "restart") \/ Restart("restart", "wait")
    \/ Verify \/ RollBack
    \/ UnlinkHealth("unlinkBack", "restartBack") \/ Restart("restartBack", "waitBack")
    \/ RestartFails \/ RolledBack \/ Finish

-----------------------------------------------------------------------------
(***************************************************************************)
(* The developer of the source repository, and the others who use it.      *)
(***************************************************************************)
Acts ==
    /\ acts < MaxActs /\ acts' = acts + 1
    /\ UNCHANGED <<files, sup, watcher, broken, verified, abandoned, requests, crashes>>

DevEdit ==
    /\ Acts /\ ~edited /\ edited' = TRUE
    /\ UNCHANGED <<offered, origin, branch, previousTip, head>>

DevCommit ==
    /\ Acts /\ edited' = FALSE
    /\ branch' = [branch EXCEPT ![head] = Append(@, "dev")]
    /\ previousTip' = [previousTip EXCEPT ![head] = Tip]
    /\ UNCHANGED <<offered, origin, head>>

DevSwitch ==
    /\ Acts /\ head' \in Branches \ {head}
    /\ UNCHANGED <<offered, origin, branch, previousTip, edited>>

OthersPush ==
    /\ Acts /\ origin' = Append(origin, "other")
    /\ UNCHANGED <<offered, repository>>

\* A transaction qualifies a commit, or its safe branch moves on.
Offer(u) ==
    /\ Acts /\ offered' = IF u \in offered THEN offered \ {u} ELSE offered \cup {u}
    /\ UNCHANGED <<origin, repository>>

Next ==
    \/ Launch \/ Mark \/ Exit
    \/ \E u \in Updates : Request(u) \/ Offer(u)
    \/ NotLaunched
    \/ Supervisor \/ Crash
    \/ DevEdit \/ DevCommit \/ DevSwitch \/ OthersPush

Spec == Init /\ [][Next]_vars

-----------------------------------------------------------------------------
(***************************************************************************)
(* Properties.                                                             *)
(***************************************************************************)
\* The pointer names an installed runtime, the marker one that ran.
TypeOK ==
    /\ active \in Commits /\ verified \subseteq Commits
    /\ handoff \in Updates \cup {None} /\ owed \in BOOLEAN
    /\ health # <<>> => health.runtime \in Commits
    /\ watcher.at \in {"starting", "up", "draining", "down"}
    /\ watcher.runtime \in Commits
    /\ head \in Branches /\ edited \in BOOLEAN

\* The bridge never runs code that is not on the remote's main: a runtime becomes
\* active only once its commit, or a descendant, is there, whatever others push
\* and whatever answer of a push is lost.
ActiveIsPromoted == IsPrefix(active, origin)

\* A verdict of the supervisor is about the runtime that runs: when it reports
\* success, or a successful way back, a watcher that was started after the pointer
\* was written has reported that runtime healthy.
VerdictIsObserved ==
    [][(Verify \/ (RolledBack /\ journal'.status = "rolled-back")) =>
         /\ health # <<>> /\ health.fresh
         /\ health.runtime = active]_vars

\* Between updates the active runtime is one that was once found healthy: a target
\* that does not report itself in time is taken back.  A supervisor that dies, or
\* for which launchctl fails, between the switch and its verdict is the exception.
ActiveIsVerified == At("idle") /\ ~abandoned => active \in verified

\* "When accepted, the watcher writes a bounded local handoff for the installed
\* updater": a handoff is only removed by the supervisor that carried it out.  (False:
\* the file is unlinked by name when the supervisor ends.)
HandoffIsCarriedOut ==
    [][handoff # None /\ handoff' = None => handoff = sup.update]_vars
=============================================================================
