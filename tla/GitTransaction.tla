--------------------------- MODULE GitTransaction ---------------------------
(***************************************************************************)
(* One transaction of protocol v2 in a repository that a developer is      *)
(* using at the same time: process_transaction of core.py, one action for  *)
(* each git command whose result it acts on, interleaved with the          *)
(* developer's own git commands and with deaths of the daemon.             *)
(*                                                                         *)
(* A commit is the sequence of the changes that lead to it, so that an     *)
(* ancestor is a prefix.  Every request declares the same base commit.     *)
(* The answer of a request is what the scheduler stores once the worker    *)
(* returned; a request without one is run again (TransactionScheduler,     *)
(* ResultDelivery).                                                        *)
(***************************************************************************)
EXTENDS Naturals, Sequences, FiniteSets, SequencesExt

CONSTANTS
    Requests,           \* the requests that can arrive
    IdOf,               \* [Requests -> transaction ids]
    TargetOf,           \* [Requests -> Branches], the field "branch"
    PushRequests,       \* the requests with push: true
    RunRequests,        \* the requests that name configured commands
    Branches,           \* the names of the local branches
    SafeBranches,       \* those with the safe prefix of the policy
    AllowCurrent,       \* the policy allow_current_branch_write
    MaxCrashes,         \* bound on deaths of the daemon
    MaxActs             \* bound on the developer's commands

ASSUME ConstantsAssumption ==
    /\ TargetOf \in [Requests -> Branches]
    /\ SafeBranches \subseteq Branches
    /\ PushRequests \subseteq Requests /\ RunRequests \subseteq Requests
    /\ Requests \cap {"root", "base", "dev", "none"} = {}
    /\ Branches \cap {"none", "detached"} = {}
    /\ "main" \in Branches /\ AllowCurrent \in BOOLEAN
    /\ MaxCrashes \in Nat /\ MaxActs \in Nat

Ids == {IdOf[q] : q \in Requests}
Absent == <<>>                              \* the branch does not exist
Root == <<<<"root", 0>>>>
Base == Append(Root, <<"base", 0>>)         \* base_sha of every request
CommitOf(q, n) == Append(Base, <<q, n>>)    \* what run n of q commits
None == "none"
Idle == [at |-> "idle"]

VARIABLES
    branch,     \* [Branches -> commit], refs/heads of the repository
    head,       \* the branch checked out in the repository
    tree,       \* the commit whose files the index and working tree hold
    edited,     \* tracked files hold edits nobody committed
    origin,     \* [Branches -> commit], the branches of the remote
    claim,      \* [Ids -> request or None], the refs that claim an id
    worktree,   \* [Ids -> None, "detached" or the branch it is attached to]
    job,        \* the worker: where it is, and its local variables
    answer,     \* [Requests -> <<None>>, <<"error">> or a success]
    landed,     \* <<commit, branch>> the bridge ever put on a branch
    crashes, acts

repository == <<branch, head, tree, edited, origin>>
durable == <<claim, worktree, answer, landed>>
vars == <<repository, durable, job, crashes, acts>>

Clean == ~edited /\ tree = branch[head]
Success(c) == <<"success", c>>

Init ==
    /\ head = "main"
    /\ \E topic \in {Root, Base}, ai \in {Absent, Base} :
         branch = [b \in Branches |-> CASE b = "main" -> Base
                                        [] b = "topic" -> topic
                                        [] OTHER -> ai]
    /\ tree = Base /\ edited = FALSE
    /\ origin = [b \in Branches |-> IF b = "main" THEN Base ELSE Absent]
    /\ claim = [i \in Ids |-> None]
    /\ worktree = [i \in Ids |-> None]
    /\ job = Idle
    /\ answer = [q \in Requests |-> <<None>>]
    /\ landed = {}
    /\ crashes = 0 /\ acts = 0

-----------------------------------------------------------------------------
(***************************************************************************)
(* The worker.  A BridgeError before the worktree is added leaves at once; *)
(* a later one goes through the finally clause, which retires it.          *)
(***************************************************************************)
At(place) == job.at = place
Goto(place) == job' = [job EXCEPT !.at = place]
Leave(place, r) == job' = [at |-> place, q |-> job.q, result |-> r]
Failed == Leave("returned", <<"error">>)
FailLate == Leave("retire", <<"error">>)
Target == TargetOf[job.q]
Id == IdOf[job.q]
Direct == AllowCurrent /\ job.current = Target

\* ensure_tracked_clean of the authoritative checkout.
Start(q) ==
    /\ At("idle") /\ answer[q] = <<None>>
    /\ job' = IF Clean
              THEN [at |-> "branch", q |-> q, head |-> branch[head], current |-> None,
                    tip |-> Absent, commit |-> Absent, seen |-> <<>>, wrong |-> None]
              ELSE [at |-> "returned", q |-> q, result |-> <<"error">>]
    /\ UNCHANGED <<repository, durable, crashes, acts>>

\* The current branch is the only one without the safe prefix that is allowed.
Permitted == Target \in SafeBranches \/ (AllowCurrent /\ head = Target)

ReadBranch ==
    /\ At("branch")
    /\ IF Permitted
       THEN job' = [job EXCEPT !.at = "refs", !.current = head]
       ELSE Failed
    /\ UNCHANGED <<repository, durable, crashes, acts>>

\* The claim and the tip of the target branch come from one git command.  A
\* commit found there is recovered whatever the policy says now; a new one needs
\* allow_commit, and allow_push when a push is requested.
ClaimedByOther == claim[Id] \notin {None, job.q}
Recovers(tip) == Len(tip) = Len(Base) + 1 /\ Front(tip) = Base /\ Last(tip)[1] = job.q
Stale(tip) == IF tip = Absent THEN job.head # Base ELSE tip # Base /\ ~Recovers(tip)

\* Variant: a commit of the request itself is not looked for, and built upon like
\* the base.
ReadRefsForgetful ==
    /\ At("refs")
    /\ LET tip == branch[Target] IN
       \/ ~ClaimedByOther /\ (~Stale(tip) \/ Recovers(tip))
          /\ job' = [job EXCEPT !.at = "claim", !.tip = tip, !.commit = Absent]
       \/ Failed
    /\ UNCHANGED <<repository, durable, crashes, acts>>

ReadRefs ==
    /\ At("refs")
    /\ LET tip == branch[Target]
           recovered == IF Recovers(tip) THEN tip ELSE Absent
           refused == ClaimedByOther \/ Stale(tip) IN
       \/ ~refused /\ job' = [job EXCEPT !.at = "claim", !.tip = tip, !.commit = recovered]
       \/ (refused \/ recovered = Absent) /\ Failed
    /\ UNCHANGED <<repository, durable, crashes, acts>>

\* update-ref with an empty old value, when the id had no claim.
Claim ==
    /\ At("claim")
    /\ claim' = [claim EXCEPT ![Id] = IF @ = None THEN job.q ELSE @]
    /\ Goto("worktree")
    /\ UNCHANGED <<repository, worktree, answer, landed, crashes, acts>>

\* A branch is checked out in the repository or in a disposable worktree other
\* than that of id i.
InUse(b, i) == b = head \/ \E j \in Ids \ {i} : worktree[j] = b
Attaches == job.commit = Absent /\ job.tip # Absent /\ ~Direct

\* Variant: the worktree of an existing branch is detached too.
AddDetached ==
    /\ At("worktree")
    /\ worktree' = [worktree EXCEPT ![Id] = "detached"]
    /\ Goto(IF job.commit # Absent THEN "push" ELSE "build")
    /\ UNCHANGED <<repository, claim, answer, landed, crashes, acts>>

\* The stale worktree of an earlier run of this id is retired first, which is
\* why only those of other ids can hold the branch.  A branch deleted since it
\* was read is made again by git from the remote's branch of the same name.
AddWorktree ==
    /\ At("worktree")
    /\ \/ /\ ~Attaches \/ (branch[Target] # Absent /\ ~InUse(Target, Id))
          /\ UNCHANGED branch
          /\ worktree' = [worktree EXCEPT ![Id] = IF Attaches THEN Target ELSE "detached"]
          /\ Goto(IF job.commit # Absent THEN "push" ELSE "build")
       \/ /\ Attaches /\ branch[Target] = Absent /\ origin[Target] # Absent
          /\ branch' = [branch EXCEPT ![Target] = origin[Target]]
          /\ worktree' = [worktree EXCEPT ![Id] = Target]
          /\ Goto("build")
       \/ /\ Attaches /\ (branch[Target] = Absent \/ InUse(Target, Id))
          /\ worktree' = [worktree EXCEPT ![Id] = None]
          /\ Failed
          /\ UNCHANGED branch
    /\ UNCHANGED <<head, tree, edited, origin, claim, answer, landed, crashes, acts>>

\* The patch is applied and checked in the worktree; what the commands must leave
\* alone is recorded, the local branches among it.
Apply ==
    /\ At("build")
    /\ \/ job' = [job EXCEPT !.at = IF job.q \in RunRequests THEN "commands" ELSE "commit",
                             !.seen = IF job.q \in RunRequests THEN branch ELSE <<>>]
       \/ FailLate
    /\ UNCHANGED <<repository, durable, crashes, acts>>

\* A branch that anyone moved meanwhile fails the transaction, as does a command
\* that fails, runs out of time or is cancelled.
ControlUnchanged == branch = job.seen
RunCommands ==
    /\ At("commands")
    /\ \/ ControlUnchanged /\ job' = [job EXCEPT !.at = "commit", !.seen = <<>>]
       \/ FailLate
    /\ UNCHANGED <<repository, durable, crashes, acts>>

\* commit-tree makes an object that no ref names.
Commit ==
    /\ At("commit")
    /\ job' = [job EXCEPT !.at = IF Direct THEN "recheck" ELSE "publish",
                          !.commit = CommitOf(job.q, crashes + 1)]
    /\ UNCHANGED <<repository, durable, crashes, acts>>

\* Variant: the exit code of update-ref is not looked at.
PublishUnchecked ==
    /\ At("publish")
    /\ IF branch[Target] = job.tip
       THEN /\ branch' = [branch EXCEPT ![Target] = job.commit]
            /\ landed' = landed \cup {<<job.commit, Target>>}
       ELSE UNCHANGED <<branch, landed>>
    /\ Goto("push")
    /\ UNCHANGED <<head, tree, edited, origin, claim, worktree, answer, crashes, acts>>

\* Variant: the ref is written without its expected old value.
PublishOver ==
    /\ At("publish")
    /\ branch' = [branch EXCEPT ![Target] = job.commit]
    /\ landed' = landed \cup {<<job.commit, Target>>}
    /\ Goto("push")
    /\ UNCHANGED <<head, tree, edited, origin, claim, worktree, answer, crashes, acts>>

\* The compare-and-swap: the declared base for an existing branch, nothing for a
\* new one.  git may run out of time after its effect.
Publish ==
    /\ At("publish")
    /\ IF branch[Target] = job.tip
       THEN /\ branch' = [branch EXCEPT ![Target] = job.commit]
            /\ landed' = landed \cup {<<job.commit, Target>>}
            /\ Goto("push") \/ FailLate
       ELSE FailLate /\ UNCHANGED <<branch, landed>>
    /\ UNCHANGED <<head, tree, edited, origin, claim, worktree, answer, crashes, acts>>

-----------------------------------------------------------------------------
(***************************************************************************)
(* Publication on the branch that is checked out: a fast-forward of the    *)
(* checkout itself, verified before and after.                             *)
(***************************************************************************)
Recheck ==
    /\ At("recheck")
    /\ IF Clean /\ branch[head] = Base THEN Goto("recheckBranch") ELSE FailLate
    /\ UNCHANGED <<repository, durable, crashes, acts>>

RecheckBranch ==
    /\ At("recheckBranch")
    /\ IF head = Target THEN Goto("merge") ELSE FailLate
    /\ UNCHANGED <<repository, durable, crashes, acts>>

\* git merge --ff-only moves whatever branch is checked out by now; it refuses
\* when edits overlap the change, and keeps edits that do not.  It may run out of
\* time after its effect.
Merge ==
    /\ At("merge")
    /\ \/ /\ IsPrefix(branch[head], job.commit) /\ tree = branch[head]
          /\ branch' = [branch EXCEPT ![head] = job.commit]
          /\ tree' = job.commit
          /\ landed' = landed \cup {<<job.commit, head>>}
          /\ Goto("verify") \/ FailLate
       \/ /\ ~IsPrefix(branch[head], job.commit) \/ tree # branch[head] \/ edited
          /\ FailLate
          /\ UNCHANGED <<branch, tree, landed>>
    /\ UNCHANGED <<head, edited, origin, claim, worktree, answer, crashes, acts>>

Verify ==
    /\ At("verify")
    /\ IF Clean /\ branch[head] = job.commit THEN Goto("verifyBranch") ELSE FailLate
    /\ UNCHANGED <<repository, durable, crashes, acts>>

VerifyBranch ==
    /\ At("verifyBranch")
    /\ IF head = Target THEN Goto("push")
       ELSE job' = [job EXCEPT !.at = "wrong", !.wrong = head]
    /\ UNCHANGED <<repository, durable, crashes, acts>>

\* The fast-forward landed on a branch the developer switched to meanwhile: it
\* is taken back when the checkout is still clean at the commit.
WrongBranch ==
    /\ At("wrong")
    /\ IF Clean /\ branch[head] = job.commit THEN Goto("rollback") ELSE FailLate
    /\ UNCHANGED <<repository, durable, crashes, acts>>

Rollback ==
    /\ At("rollback")
    /\ IF branch[job.wrong] = job.commit
       THEN branch' = [branch EXCEPT ![job.wrong] = Base] /\ (Goto("rollbackBranch") \/ FailLate)
       ELSE FailLate /\ UNCHANGED branch
    /\ UNCHANGED <<head, tree, edited, origin, durable, crashes, acts>>

RollbackBranch ==
    /\ At("rollbackBranch")
    /\ IF head = job.wrong THEN Goto("reset") ELSE FailLate
    /\ UNCHANGED <<repository, durable, crashes, acts>>

\* git reset --hard moves the branch that is checked out and its files, or fails.
Reset ==
    /\ At("reset")
    /\ \/ /\ branch' = [branch EXCEPT ![head] = Base]
          /\ tree' = Base /\ edited' = FALSE
       \/ UNCHANGED <<branch, tree, edited>>
    /\ FailLate
    /\ UNCHANGED <<head, origin, durable, crashes, acts>>

-----------------------------------------------------------------------------
(***************************************************************************)
(* After publication: push and snapshot are secondary, then the worktree   *)
(* is retired and the worker returns.                                      *)
(***************************************************************************)
\* A push that is refused by the policy or by the remote, that fails, or whose
\* answer is lost, does not change the result.
Push ==
    /\ At("push")
    /\ Leave("retire", Success(job.commit))
    /\ \/ /\ job.q \in PushRequests
          /\ IsPrefix(origin[Target], job.commit)
          /\ origin' = [origin EXCEPT ![Target] = job.commit]
       \/ UNCHANGED origin
    /\ UNCHANGED <<branch, head, tree, edited, durable, crashes, acts>>

Retire ==
    /\ At("retire")
    /\ worktree' = [worktree EXCEPT ![Id] = None]
    /\ Goto("returned")
    /\ UNCHANGED <<repository, claim, answer, landed, crashes, acts>>

\* The scheduler stores the signed result.
Answered ==
    /\ At("returned")
    /\ answer' = [answer EXCEPT ![job.q] = job.result]
    /\ job' = Idle
    /\ UNCHANGED <<repository, claim, worktree, landed, crashes, acts>>

Crash ==
    /\ ~At("idle") /\ crashes < MaxCrashes
    /\ job' = Idle
    /\ crashes' = crashes + 1
    /\ UNCHANGED <<repository, durable, acts>>

Worker ==
    \/ \E q \in Requests : Start(q)
    \/ ReadBranch \/ ReadRefs \/ Claim \/ AddWorktree
    \/ Apply \/ RunCommands \/ Commit \/ Publish
    \/ Recheck \/ RecheckBranch \/ Merge \/ Verify \/ VerifyBranch
    \/ WrongBranch \/ Rollback \/ RollbackBranch \/ Reset
    \/ Push \/ Retire \/ Answered

-----------------------------------------------------------------------------
(***************************************************************************)
(* The developer, in the same repository, and the others who use the       *)
(* remote.                                                                 *)
(***************************************************************************)
Acts == acts < MaxActs /\ acts' = acts + 1

DevEdit ==
    /\ Acts /\ ~edited
    /\ edited' = TRUE
    /\ UNCHANGED <<branch, head, tree, origin, durable, job, crashes>>

\* git commit -a, of edits made before or just now: the files of the checkout
\* become a commit on its branch.
DevCommit ==
    /\ Acts
    /\ branch' = [branch EXCEPT ![head] = Append(@, <<"dev", acts>>)]
    /\ tree' = branch'[head] /\ edited' = FALSE
    /\ UNCHANGED <<head, origin, durable, job, crashes>>

\* git switch carries edits along, and refuses a branch that a worktree holds.
DevSwitch(b) ==
    /\ Acts /\ branch[b] # Absent /\ tree = branch[head]
    /\ b # head /\ \A i \in Ids : worktree[i] # b
    /\ head' = b /\ tree' = branch[b]
    /\ UNCHANGED <<branch, edited, origin, durable, job, crashes>>

\* git branch -D, and git branch -f at the commit checked out.
DevMove(b, c) ==
    /\ Acts /\ branch[b] # c
    /\ b # head /\ \A i \in Ids : worktree[i] # b
    /\ branch' = [branch EXCEPT ![b] = c]
    /\ UNCHANGED <<head, tree, edited, origin, durable, job, crashes>>

RemoteCommit(b) ==
    /\ Acts
    /\ origin' = [origin EXCEPT ![b] = Append(IF @ = Absent THEN Base ELSE @, <<"dev", acts>>)]
    /\ UNCHANGED <<branch, head, tree, edited, durable, job, crashes>>

Developer ==
    \/ DevEdit \/ DevCommit
    \/ \E b \in Branches : DevSwitch(b) \/ DevMove(b, Absent) \/ DevMove(b, branch[head])
    \/ \E q \in PushRequests : RemoteCommit(TargetOf[q])

Next == Worker \/ Crash \/ Developer

Spec == Init /\ [][Next]_vars

-----------------------------------------------------------------------------
(***************************************************************************)
(* Properties.                                                             *)
(***************************************************************************)
Changes == (Requests \cup {"root", "base", "dev"}) \X Nat
Results == {<<None>>, <<"error">>} \cup ({"success"} \X Seq(Changes))

\* The refs name commits, the worktree of an id is attached to one branch at
\* most, and every answer is one process_transaction returns.
TypeOK ==
    /\ branch \in [Branches -> Seq(Changes)] /\ origin \in [Branches -> Seq(Changes)]
    /\ head \in Branches /\ edited \in BOOLEAN
    /\ claim \in [Ids -> Requests \cup {None}]
    /\ worktree \in [Ids -> Branches \cup {None, "detached"}]
    /\ answer \in [Requests -> Results]
    /\ crashes \in Nat /\ acts \in Nat

RequestOf(c) == Last(c)[1]

\* Two requests with the same transaction id and different bytes never both put
\* a commit on a branch, whatever was answered, lost, deleted or retried between
\* them: the claim outlives the branch.
OneRequestPerId ==
    \A x, y \in landed :
        IdOf[RequestOf(x[1])] = IdOf[RequestOf(y[1])] => RequestOf(x[1]) = RequestOf(y[1])

\* What lands under an id is of one request, and that request commits once: "Resuming
\* here is idempotent and does not re-run patch/tests".  A request that is run again,
\* after the daemon died with a commit made and no answer stored, puts a second commit
\* on a branch only when the first one is gone from it; other bytes put none.
CommitsOnce ==
    [][\A x \in landed' \ landed, y \in landed :
         IdOf[RequestOf(x[1])] = IdOf[RequestOf(y[1])] =>
           /\ RequestOf(x[1]) = RequestOf(y[1])
           /\ x[2] = y[2] => ~IsPrefix(y[1], branch[x[2]])]_vars

\* A request is told a success only with a commit of its own that the bridge put
\* on a branch, in this run or in one the daemon did not survive: by the
\* compare-and-swap on the branch it names, or by the fast-forward of the
\* checkout.
ToldIsLanded ==
    \A q \in Requests : answer[q][1] = "success" =>
        /\ RequestOf(answer[q][2]) = q
        /\ \E b \in Branches : <<answer[q][2], b>> \in landed

\* "A stale HEAD, branch switch or tracked local edit causes the transaction to
\* fail": a success is only told when the branch of the request got the commit.  (False
\* when the developer switches branches before the merge.)
ToldIsPublished ==
    \A q \in Requests : answer[q][1] = "success" => <<answer[q][2], TargetOf[q]>> \in landed

\* The files of the developer's checkout are those of its branch: the bridge
\* never moves a branch from under them.  The one exception is a branch from which
\* the bridge's commit was taken back and whose files were not reset yet.
FilesFollowBranch ==
    tree = branch[head] \/ (branch[head] = Base /\ tree \in {x[1] : x \in landed})

KeepsWork(old, new) ==
    \A i \in 1 .. Len(old) : old[i][1] = "dev" => i <= Len(new) /\ new[i] = old[i]

\* No step of the bridge other than the repair's reset takes a commit of the
\* developer off a branch, here or at the remote, or an edit off the checkout.
DeveloperKept ==
    [][(Worker /\ ~At("reset")) =>
          /\ \A b \in Branches : KeepsWork(branch[b], branch'[b]) /\ KeepsWork(origin[b], origin'[b])
          /\ edited => edited']_vars

\* "Never discard concurrent tracked user work in order to recover" (the repair
\* of a wrong branch): the same, of the reset too.  (False for edits made between the
\* merge and the reset.)
NeverDiscards ==
    [][Worker =>
          /\ \A b \in Branches : KeepsWork(branch[b], branch'[b])
          /\ edited => edited']_vars
=============================================================================
