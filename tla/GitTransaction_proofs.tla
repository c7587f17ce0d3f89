------------------------ MODULE GitTransaction_proofs ------------------------
(***************************************************************************)
(* Proofs about GitTransaction, for any number of requests, transaction    *)
(* ids, branches, deaths of the daemon and acts of the developer.          *)
(***************************************************************************)
EXTENDS GitTransaction, SequenceTheorems, TLAPS

-----------------------------------------------------------------------------
(* Commits. *)
Commits == Seq(Changes)

\* The change a commit adds is its last one.
LEMMA AppendedLast ==
    ASSUME NEW c \in Commits, NEW e \in Changes
    PROVE  /\ Append(c, e) \in Commits /\ Append(c, e) # <<>>
           /\ RequestOf(Append(c, e)) = e[1]
<1>1. /\ Append(c, e) \in Commits /\ Append(c, e) # <<>>
      /\ Len(Append(c, e)) = Len(c) + 1 /\ Append(c, e)[Len(c) + 1] = e
  BY AppendProperties DEF Commits
<1> HIDE DEF Changes
<1> QED BY <1>1 DEF RequestOf, Last

LEMMA BaseIsCommit ==
    /\ Absent \in Commits /\ Root \in Commits /\ Base \in Commits
    /\ Root # <<>> /\ RequestOf(Root) = "root"
    /\ Base # <<>> /\ RequestOf(Base) = "base"
<1>1. <<"root", 0>> \in Changes /\ <<"base", 0>> \in Changes BY DEF Changes
<1>2. Absent \in Commits BY DEF Absent, Commits
<1>3. Root = Append(<<>>, <<"root", 0>>) BY AppendIsConcat DEF Root
<1>4. Root \in Commits /\ Root # <<>> /\ RequestOf(Root) = <<"root", 0>>[1]
  BY <1>1, <1>2, <1>3, AppendedLast DEF Absent
<1>5. Base \in Commits /\ Base # <<>> /\ RequestOf(Base) = <<"base", 0>>[1]
  BY <1>1, <1>4, AppendedLast DEF Base
<1> QED BY <1>2, <1>4, <1>5

LEMMA CommitIsItsRequests ==
    ASSUME NEW q \in Requests, NEW n \in Nat
    PROVE  CommitOf(q, n) \in Commits /\ CommitOf(q, n) # <<>> /\ RequestOf(CommitOf(q, n)) = q
<1>1. <<q, n>> \in Changes BY DEF Changes
<1>2. <<q, n>>[1] = q OBVIOUS
<1> QED BY <1>1, <1>2, BaseIsCommit, AppendedLast DEF CommitOf

LEMMA DevelopersCommit ==
    ASSUME NEW c \in Commits, NEW n \in Nat
    PROVE  /\ Append(c, <<"dev", n>>) \in Commits /\ Append(c, <<"dev", n>>) # <<>>
           /\ RequestOf(Append(c, <<"dev", n>>)) = "dev"
<1>1. <<"dev", n>> \in Changes BY DEF Changes
<1>2. <<"dev", n>>[1] = "dev" OBVIOUS
<1> QED BY <1>1, <1>2, AppendedLast

-----------------------------------------------------------------------------
(***************************************************************************)
(* Types.  A job is a worker that runs, with its local variables, or one   *)
(* that leaves with a result.                                              *)
(***************************************************************************)
Places == {"branch", "refs", "claim", "worktree", "build", "commands", "commit", "publish",
           "recheck", "recheckBranch", "merge", "verify", "verifyBranch", "wrong", "rollback",
           "rollbackBranch", "reset", "push"}
Running == [at : Places, q : Requests, head : Commits, current : Branches \cup {None},
            tip : Commits, commit : Commits, seen : {<<>>} \cup [Branches -> Commits],
            wrong : Branches \cup {None}]
Leaving == [at : {"retire", "returned"}, q : Requests, result : Results]
JobOK == job = Idle \/ job \in Running \/ job \in Leaving
LandedOK == landed \subseteq Commits \X Branches
TypeInv == TypeOK /\ tree \in Commits /\ JobOK /\ LandedOK

\* A job at a place of Places has the local variables of a running worker.
LEMMA JobShape ==
    ASSUME JobOK
    PROVE  /\ ~At("idle") => job.q \in Requests /\ Id \in Ids /\ Target \in Branches
           /\ job.at \in Places => job \in Running
           /\ job.at \in {"retire", "returned"} => job \in Leaving
  BY ConstantsAssumption DEF JobOK, Idle, Running, Leaving, Places, At, Id, Ids, Target

LEMMA ErrorIsResult == <<"error">> \in Results BY DEF Results

\* A worker goes on, with or without news, or leaves with an error.
LEMMA JobMoves ==
    ASSUME job \in Running
    PROVE  /\ job.q \in Requests /\ job.commit \in Commits
           /\ \A p \in Places : [job EXCEPT !.at = p] \in Running
           /\ \A p \in Places, b \in Branches : [job EXCEPT !.at = p, !.current = b] \in Running
           /\ \A p \in Places, b \in Branches : [job EXCEPT !.at = p, !.wrong = b] \in Running
           /\ \A p \in Places, c \in Commits : [job EXCEPT !.at = p, !.commit = c] \in Running
           /\ \A p \in Places, c, d \in Commits :
                 [job EXCEPT !.at = p, !.tip = c, !.commit = d] \in Running
           /\ \A p \in Places, x \in {<<>>} \cup [Branches -> Commits] :
                 [job EXCEPT !.at = p, !.seen = x] \in Running
           /\ Failed \/ FailLate => job' \in Leaving
<1> USE DEF Running
<1>1. job.q \in Requests /\ job.commit \in Commits OBVIOUS
<1>2. \A p \in Places : [job EXCEPT !.at = p] \in Running OBVIOUS
<1>3. \A p \in Places, b \in Branches : [job EXCEPT !.at = p, !.current = b] \in Running OBVIOUS
<1>4. \A p \in Places, b \in Branches : [job EXCEPT !.at = p, !.wrong = b] \in Running OBVIOUS
<1>5. \A p \in Places, c \in Commits : [job EXCEPT !.at = p, !.commit = c] \in Running OBVIOUS
<1>6. \A p \in Places, c, d \in Commits :
         [job EXCEPT !.at = p, !.tip = c, !.commit = d] \in Running
  OBVIOUS
<1>7. \A p \in Places, x \in {<<>>} \cup [Branches -> Commits] :
         [job EXCEPT !.at = p, !.seen = x] \in Running
  OBVIOUS
<1>8. Failed \/ FailLate => job' \in Leaving
  BY <1>1, ErrorIsResult DEF Failed, FailLate, Leave, Leaving
<1> HIDE DEF Running
<1> QED BY <1>1, <1>2, <1>3, <1>4, <1>5, <1>6, <1>7, <1>8

LEMMA InitTyped == Init => TypeInv
<1> SUFFICES ASSUME Init PROVE TypeInv OBVIOUS
<1>1. branch \in [Branches -> Commits] /\ origin \in [Branches -> Commits]
  BY BaseIsCommit DEF Init
<1>2. job = Idle /\ landed = {} /\ tree \in Commits BY BaseIsCommit DEF Init
<1>3. answer \in [Requests -> Results] BY DEF Init, Results
<1> QED BY <1>1, <1>2, <1>3, ConstantsAssumption
     DEF Init, TypeInv, TypeOK, JobOK, LandedOK, Commits

\* What a step may write: a step of the worker, a death, or the developer.
LEMMA StepTyped == TypeInv /\ [Next]_vars => TypeInv'
<1> SUFFICES ASSUME TypeInv, [Next]_vars PROVE TypeInv' OBVIOUS
<1> USE DEF TypeInv, Commits
<1>j. /\ ~At("idle") => job.q \in Requests /\ Id \in Ids /\ Target \in Branches
      /\ job.at \in Places => job \in Running
      /\ job.at \in {"retire", "returned"} => job \in Leaving
  BY JobShape
<1>b. Absent \in Seq(Changes) /\ Root \in Seq(Changes) /\ Base \in Seq(Changes)
  BY BaseIsCommit
<1> HIDE DEF Changes, Base, Root, Absent
<1> USE DEF JobOK
<1>1. ASSUME NEW q \in Requests, Start(q) PROVE TypeInv'
  <2>1. job' \in Running \/ job' \in Leaving
    BY <1>1, <1>b, ErrorIsResult DEF Start, Running, Leaving, Places, TypeOK
  <2> QED BY <1>1, <2>1 DEF Start, repository, durable, TypeOK, LandedOK
<1>2. CASE ReadBranch
  <2>1. job \in Running BY <1>2, <1>j DEF ReadBranch, At, Places
  <2>2. "refs" \in Places /\ head \in Branches BY DEF Places, TypeOK
  <2>3. job' \in Running \/ job' \in Leaving BY <1>2, <2>1, <2>2, JobMoves DEF ReadBranch
  <2> QED BY <1>2, <2>3 DEF ReadBranch, repository, durable, TypeOK, LandedOK
<1>3. CASE ReadRefs
  <2>1. branch[Target] \in Seq(Changes) BY <1>3, <1>j DEF ReadRefs, At, TypeOK
  <2>2. job \in Running /\ job.q \in Requests BY <1>3, <1>j DEF ReadRefs, At, Places
  <2>3. job' \in Running \/ job' \in Leaving
    <3> DEFINE recovered == IF Recovers(branch[Target]) THEN branch[Target] ELSE Absent
    <3>1. "claim" \in Places BY DEF Places
    <3>2. recovered \in Commits BY <1>b, <2>1
    <3>3. [job EXCEPT !.at = "claim", !.tip = branch[Target], !.commit = recovered] \in Running
      BY <2>1, <2>2, <3>1, <3>2, JobMoves
    <3>4. \/ job' = [job EXCEPT !.at = "claim", !.tip = branch[Target], !.commit = recovered]
          \/ Failed
      BY <1>3 DEF ReadRefs
    <3> HIDE DEF recovered
    <3> QED BY <2>2, <3>3, <3>4, JobMoves
  <2> QED BY <1>3, <2>3 DEF ReadRefs, repository, durable, TypeOK, LandedOK
<1>4. CASE Claim
  <2>1. job \in Running /\ job.q \in Requests /\ Id \in Ids
    BY <1>4, <1>j DEF Claim, At, Places
  <2>2. job' \in Running BY <1>4, <2>1 DEF Claim, Goto, Running, Places
  <2>3. claim' \in [Ids -> Requests \cup {None}] BY <1>4, <2>1 DEF Claim, TypeOK
  <2> QED BY <1>4, <2>2, <2>3 DEF Claim, repository, TypeOK, LandedOK
<1>5. CASE AddWorktree
  <2>1. job \in Running /\ Id \in Ids /\ Target \in Branches
    BY <1>5, <1>j DEF AddWorktree, At, Places
  <2>2. job' \in Running \/ job' \in Leaving
    <3>1. {"push", "build"} \subseteq Places BY DEF Places
    <3>2. (\E p \in Places : job' = [job EXCEPT !.at = p]) \/ Failed
      BY <1>5, <3>1 DEF AddWorktree, Goto
    <3>3. \A p \in Places : [job EXCEPT !.at = p] \in Running BY <2>1, JobMoves
    <3>4. Failed => job' \in Leaving BY <2>1, JobMoves
    <3> QED BY <3>2, <3>3, <3>4
  <2>3. /\ branch' \in [Branches -> Seq(Changes)]
        /\ worktree' \in [Ids -> Branches \cup {None, "detached"}]
    BY <1>5, <2>1 DEF AddWorktree, TypeOK
  <2> QED BY <1>5, <2>2, <2>3 DEF AddWorktree, TypeOK, LandedOK
<1>6. CASE Apply
  <2>1. job \in Running BY <1>6, <1>j DEF Apply, At, Places
  <2>2. job' \in Running \/ job' \in Leaving
    <3>1. "commands" \in Places /\ "commit" \in Places BY DEF Places
    <3>2. branch \in [Branches -> Commits] BY DEF TypeOK
    <3>3. \/ job' = [job EXCEPT !.at = "commands", !.seen = branch]
          \/ job' = [job EXCEPT !.at = "commit", !.seen = <<>>]
          \/ FailLate
      BY <1>6 DEF Apply
    <3>4. [job EXCEPT !.at = "commands", !.seen = branch] \in Running
      BY <2>1, <3>1, <3>2, JobMoves
    <3>5. [job EXCEPT !.at = "commit", !.seen = <<>>] \in Running
      BY <2>1, <3>1, JobMoves
    <3>6. FailLate => job' \in Leaving BY <2>1, JobMoves
    <3> QED BY <3>3, <3>4, <3>5, <3>6
  <2> QED BY <1>6, <2>2 DEF Apply, repository, durable, TypeOK, LandedOK
<1>7. CASE RunCommands
  <2>1. job \in Running BY <1>7, <1>j DEF RunCommands, At, Places
  <2>2. job' \in Running \/ job' \in Leaving
    <3>1. "commit" \in Places BY DEF Places
    <3>2. \/ job' = [job EXCEPT !.at = "commit", !.seen = <<>>]
          \/ FailLate
      BY <1>7 DEF RunCommands
    <3>3. [job EXCEPT !.at = "commit", !.seen = <<>>] \in Running
      BY <2>1, <3>1, JobMoves
    <3>4. FailLate => job' \in Leaving BY <2>1, JobMoves
    <3> QED BY <3>2, <3>3, <3>4
  <2> QED BY <1>7, <2>2 DEF RunCommands, repository, durable, TypeOK, LandedOK
<1>8. CASE Commit
  <2>1. job \in Running /\ job.q \in Requests BY <1>8, <1>j DEF Commit, At, Places
  <2>2. CommitOf(job.q, crashes + 1) \in Seq(Changes)
    BY <2>1, CommitIsItsRequests DEF TypeOK
  <2>3. job' \in Running BY <1>8, <2>1, <2>2 DEF Commit, Running, Places
  <2> QED BY <1>8, <2>3 DEF Commit, repository, durable, TypeOK, LandedOK
<1>9. CASE Publish
  <2>1. job \in Running /\ Target \in Branches BY <1>9, <1>j DEF Publish, At, Places
  <2>2. job' \in Running \/ job' \in Leaving
    <3>1. "push" \in Places BY DEF Places
    <3> QED BY <1>9, <2>1, <3>1, JobMoves DEF Publish, Goto
  <2>3. job.commit \in Seq(Changes) BY <2>1 DEF Running
  <2>4. branch' \in [Branches -> Seq(Changes)] BY <1>9, <2>1, <2>3 DEF Publish, TypeOK
  <2>5. LandedOK' BY <1>9, <2>1, <2>3 DEF Publish, LandedOK
  <2> QED BY <1>9, <2>2, <2>4, <2>5 DEF Publish, TypeOK
<1>10. CASE Recheck \/ RecheckBranch \/ Verify \/ VerifyBranch \/ WrongBranch \/ RollbackBranch
  <2>1. job \in Running
    BY <1>10, <1>j
       DEF Recheck, RecheckBranch, Verify, VerifyBranch, WrongBranch, RollbackBranch, At, Places
  <2>2. job' \in Running \/ job' \in Leaving
    <3>1. /\ {"recheckBranch", "merge", "verifyBranch", "push", "wrong", "rollback", "reset"}
               \subseteq Places
          /\ head \in Branches
      BY DEF Places, TypeOK
    <3>2. CASE Recheck \/ RecheckBranch \/ Verify
      BY <2>1, <3>1, <3>2, JobMoves DEF Recheck, RecheckBranch, Verify, Goto
    <3>3. CASE VerifyBranch
      <4>1. \/ job' = [job EXCEPT !.at = "push"]
            \/ job' = [job EXCEPT !.at = "wrong", !.wrong = head]
        BY <3>3 DEF VerifyBranch, Goto
      <4>2. "push" \in Places /\ "wrong" \in Places /\ head \in Branches BY <3>1
      <4>3. [job EXCEPT !.at = "wrong", !.wrong = head] \in Running BY <2>1, <4>2, JobMoves
      <4>4. [job EXCEPT !.at = "push"] \in Running BY <2>1, <4>2, JobMoves
      <4> QED BY <4>1, <4>3, <4>4
    <3>4. CASE WrongBranch \/ RollbackBranch
      BY <2>1, <3>1, <3>4, JobMoves DEF WrongBranch, RollbackBranch, Goto
    <3> QED BY <1>10, <3>2, <3>3, <3>4
  <2>3. UNCHANGED <<repository, durable, crashes, acts>>
    BY <1>10 DEF Recheck, RecheckBranch, Verify, VerifyBranch, WrongBranch, RollbackBranch
  <2> QED BY <2>2, <2>3 DEF repository, durable, TypeOK, LandedOK
<1>11. CASE Merge
  <2>1. job \in Running BY <1>11, <1>j DEF Merge, At, Places
  <2>2. job' \in Running \/ job' \in Leaving
    <3>1. "verify" \in Places BY DEF Places
    <3> QED BY <1>11, <2>1, <3>1, JobMoves DEF Merge, Goto
  <2>3. job.commit \in Seq(Changes) BY <2>1 DEF Running
  <2>4. branch' \in [Branches -> Seq(Changes)] /\ tree' \in Seq(Changes)
    BY <1>11, <2>3 DEF Merge, TypeOK
  <2>5. head \in Branches BY DEF TypeOK
  <2>6. LandedOK' BY <1>11, <2>3, <2>5 DEF Merge, LandedOK
  <2> QED BY <1>11, <2>2, <2>4, <2>6 DEF Merge, TypeOK
<1>12. CASE Rollback \/ Reset
  <2>1. job \in Running BY <1>12, <1>j DEF Rollback, Reset, At, Places
  <2>2. job' \in Running \/ job' \in Leaving
    <3>1. "rollbackBranch" \in Places BY DEF Places
    <3> QED BY <1>12, <2>1, <3>1, JobMoves DEF Rollback, Reset, Goto
  <2>3. branch' \in [Branches -> Seq(Changes)] /\ tree' \in Seq(Changes)
    BY <1>12, <1>b DEF Rollback, Reset, TypeOK
  <2> QED BY <1>12, <2>2, <2>3 DEF Rollback, Reset, durable, TypeOK, LandedOK
<1>13. CASE Push
  <2>1. job \in Running BY <1>13, <1>j DEF Push, At, Places
  <2>2. job.commit \in Seq(Changes) BY <2>1 DEF Running
  <2>3. Success(job.commit) \in Results BY <2>2 DEF Success, Results
  <2>4. job' \in Leaving BY <1>13, <2>1, <2>3 DEF Push, Leave, Running, Leaving
  <2>5. origin' \in [Branches -> Seq(Changes)] BY <1>13, <2>2 DEF Push, TypeOK
  <2> QED BY <1>13, <2>4, <2>5 DEF Push, durable, TypeOK, LandedOK
<1>14. CASE Retire
  <2>1. job \in Leaving /\ Id \in Ids BY <1>14, <1>j DEF Retire, At
  <2>2. job' \in Leaving BY <1>14, <2>1 DEF Retire, Goto, Leaving
  <2> QED BY <1>14, <2>1, <2>2 DEF Retire, repository, TypeOK, LandedOK
<1>15. CASE Answered
  <2>1. job \in Leaving BY <1>15, <1>j DEF Answered, At
  <2>2. answer' \in [Requests -> Results] BY <1>15, <2>1 DEF Answered, Leaving, TypeOK
  <2> QED BY <1>15, <2>2 DEF Answered, repository, TypeOK, LandedOK
<1>16. CASE Crash
  BY <1>16 DEF Crash, repository, durable, TypeOK, LandedOK
<1>17. CASE Developer
  <2>1. UNCHANGED <<durable, job, crashes>> /\ acts' = acts + 1
    BY <1>17 DEF Developer, DevEdit, DevCommit, DevSwitch, DevMove, RemoteCommit, Acts
  <2>2. CASE DevEdit BY <2>1, <2>2 DEF DevEdit, durable, TypeOK, LandedOK
  <2>3. CASE DevCommit
    <3>1. Append(branch[head], <<"dev", acts>>) \in Seq(Changes)
      BY DevelopersCommit DEF TypeOK
    <3>2. branch' \in [Branches -> Seq(Changes)] /\ tree' \in Seq(Changes)
      BY <2>3, <3>1 DEF DevCommit, TypeOK
    <3>3. UNCHANGED <<head, origin>> BY <2>3 DEF DevCommit
    <3>4. edited' \in BOOLEAN BY <2>3 DEF DevCommit
    <3>5. acts' \in Nat /\ crashes' \in Nat BY <2>1 DEF TypeOK
    <3>6. TypeOK' BY <2>1, <3>2, <3>3, <3>4, <3>5 DEF durable, TypeOK
    <3> QED BY <2>1, <3>2, <3>6 DEF durable, LandedOK
  <2>4. ASSUME NEW b \in Branches, DevSwitch(b) PROVE TypeInv'
    BY <2>1, <2>4 DEF DevSwitch, durable, TypeOK, LandedOK
  <2>5. ASSUME NEW b \in Branches, NEW c \in Seq(Changes), DevMove(b, c) PROVE TypeInv'
    BY <2>1, <2>5 DEF DevMove, durable, TypeOK, LandedOK
  <2>6. ASSUME NEW b \in Branches, RemoteCommit(b) PROVE TypeInv'
    <3>1. (IF origin[b] = Absent THEN Base ELSE origin[b]) \in Seq(Changes)
      BY <1>b DEF TypeOK
    <3>2. Append(IF origin[b] = Absent THEN Base ELSE origin[b], <<"dev", acts>>) \in Seq(Changes)
      BY <3>1, DevelopersCommit DEF TypeOK
    <3>3. origin' \in [Branches -> Seq(Changes)] BY <2>6, <3>2 DEF RemoteCommit, TypeOK
    <3> QED BY <2>1, <2>6, <3>3 DEF RemoteCommit, durable, TypeOK, LandedOK
  <2> QED BY <1>17, <1>b, <2>2, <2>3, <2>4, <2>5, <2>6, ConstantsAssumption DEF Developer, TypeOK
<1>18. CASE UNCHANGED vars
  BY <1>18 DEF vars, repository, durable, TypeOK, LandedOK
<1> QED
  BY <1>1, <1>2, <1>3, <1>4, <1>5, <1>6, <1>7, <1>8, <1>9, <1>10, <1>11, <1>12, <1>13, <1>14,
     <1>15, <1>16, <1>17, <1>18 DEF Next, Worker

\* Refs name commits, a worktree is attached to one branch at most, and every answer
\* is one that process_transaction returns.
THEOREM TypeCorrect == Spec => []TypeOK
<1>1. Spec => []TypeInv BY InitTyped, StepTyped, PTL DEF Spec
<1>2. TypeInv => TypeOK BY DEF TypeInv
<1> QED BY <1>1, <1>2, PTL

-----------------------------------------------------------------------------
(***************************************************************************)
(* Who put what on which branch.  The claim of an id is made before the    *)
(* worktree and never changed, and every later place of the worker is      *)
(* reached with the claim in the name of its own request.  A request's     *)
(* commit is on a branch, here or at the remote, only once it landed, so   *)
(* that one found at the tip of a branch may be told again.                *)
(***************************************************************************)
HasLanded(S, c, q) == c # <<>> /\ RequestOf(c) = q /\ \E b \in Branches : <<c, b>> \in S

Claimed == Places \ {"branch", "refs", "claim"}
Made == {"publish", "recheck", "recheckBranch", "merge"}
Told == {"verify", "verifyBranch", "push"}

LandedClaimed ==
    \A x \in landed : RequestOf(x[1]) \in Requests /\ claim[IdOf[RequestOf(x[1])]] = RequestOf(x[1])
JobClaimed ==
    /\ job.at = "claim" => claim[IdOf[job.q]] \in {None, job.q}
    /\ job.at \in Claimed => claim[IdOf[job.q]] = job.q
JobCommit ==
    /\ job.at \in {"claim", "worktree"} => job.commit = Absent \/ HasLanded(landed, job.commit, job.q)
    /\ job.at \in Made => job.commit # <<>> /\ RequestOf(job.commit) = job.q
    /\ job.at \in Told => HasLanded(landed, job.commit, job.q)
    /\ job.at \in {"retire", "returned"} /\ job.result[1] = "success" =>
          HasLanded(landed, job.result[2], job.q)
BranchesLanded ==
    \A b \in Branches, q \in Requests :
        /\ branch[b] # <<>> /\ RequestOf(branch[b]) = q => HasLanded(landed, branch[b], q)
        /\ origin[b] # <<>> /\ RequestOf(origin[b]) = q => HasLanded(landed, origin[b], q)
AnswersLanded ==
    \A q \in Requests : answer[q][1] = "success" => HasLanded(landed, answer[q][2], q)
ClaimInv == LandedClaimed /\ JobClaimed /\ JobCommit /\ BranchesLanded /\ AnswersLanded

LEMMA NotRequests == \A q \in Requests : q \notin {"root", "base", "dev", None}
  BY ConstantsAssumption DEF None

\* What the worker carries along when it goes on.
LEMMA JobFields ==
    ASSUME job \in Running, NEW p
    PROVE  /\ \/ job' = [job EXCEPT !.at = p]
              \/ job' = [job EXCEPT !.at = p, !.current = head]
              \/ job' = [job EXCEPT !.at = p, !.wrong = head]
              \/ job' = [job EXCEPT !.at = p, !.seen = branch]
              \/ job' = [job EXCEPT !.at = p, !.seen = <<>>]
              => job'.at = p /\ job'.q = job.q /\ job'.commit = job.commit
           /\ \A c, d : job' = [job EXCEPT !.at = p, !.tip = c, !.commit = d]
                        => job'.at = p /\ job'.q = job.q /\ job'.commit = d
  BY DEF Running

LEMMA FailedFields ==
    ASSUME Failed \/ FailLate
    PROVE  job'.at \in {"retire", "returned"} /\ job'.q = job.q /\ job'.result[1] # "success"
<1>1. <<"error">>[1] # "success" OBVIOUS
<1> QED BY <1>1 DEF Failed, FailLate, Leave

\* A step that changes nothing but the worker, and fails or goes on to p with its
\* commit, keeps the invariant when the place it comes from established what the
\* place p needs.
LEMMA WorkerOnly ==
    ASSUME TypeInv, ClaimInv, UNCHANGED <<claim, landed, branch, origin, answer>>,
           JobClaimed', JobCommit'
    PROVE  ClaimInv'
  BY DEF ClaimInv, LandedClaimed, BranchesLanded, AnswersLanded, HasLanded

LEMMA FailsSoundly ==
    ASSUME Failed \/ FailLate PROVE JobClaimed' /\ JobCommit'
  BY FailedFields DEF JobClaimed, JobCommit, Claimed, Places, Made, Told

LEMMA GoesOnSoundly ==
    ASSUME JobClaimed, JobCommit, UNCHANGED <<claim, landed>>,
           job'.q = job.q, job'.commit = job.commit, job.at \in Claimed, job'.at \in Claimed,
           job'.at # "worktree",
           job'.at \in Made => job.at \in Made,
           job'.at \in Told => job.at \in Told
    PROVE  JobClaimed' /\ JobCommit'
  BY DEF JobClaimed, JobCommit, Claimed, Places, Made, Told, HasLanded

LEMMA InitClaimed == Init => ClaimInv
<1> SUFFICES ASSUME Init PROVE ClaimInv OBVIOUS
<1>1. \A b \in Branches : branch[b] \in {Base, Root, Absent} /\ origin[b] \in {Base, Absent}
  BY DEF Init
<1>2. BranchesLanded BY <1>1, BaseIsCommit, NotRequests DEF BranchesLanded, Absent
<1>3. AnswersLanded BY DEF Init, AnswersLanded, None
<1> QED
  BY <1>2, <1>3 DEF Init, Idle, ClaimInv, LandedClaimed, JobClaimed, JobCommit, Claimed, Places,
     Made, Told

\* The steps in which the worker only looks, computes or makes objects.
LEMMA LookingStep ==
    ASSUME TypeInv, ClaimInv,
           \/ \E q \in Requests : Start(q)
           \/ ReadBranch \/ ReadRefs \/ Apply \/ RunCommands \/ Commit \/ Recheck \/ RecheckBranch
           \/ Verify \/ VerifyBranch \/ WrongBranch \/ RollbackBranch
    PROVE  ClaimInv'
<1> USE DEF ClaimInv
<1>u. UNCHANGED <<claim, landed, branch, origin, answer>>
  BY DEF Start, ReadBranch, ReadRefs, Apply, RunCommands, Commit, Recheck, RecheckBranch,
     Verify, VerifyBranch, WrongBranch, RollbackBranch, repository, durable
<1>j. job.at \in Places => job \in Running /\ job.q \in Requests /\ Target \in Branches
  BY JobShape DEF TypeInv, Running, At, Places
<1> SUFFICES JobClaimed' /\ JobCommit' BY <1>u, WorkerOnly
<1>1. ASSUME NEW q \in Requests, Start(q) PROVE JobClaimed' /\ JobCommit'
  <2>1. <<"error">>[1] # "success" OBVIOUS
  <2> QED BY <1>1, <2>1 DEF Start, JobClaimed, JobCommit, Claimed, Places, Made, Told
<1>2. CASE ReadBranch
  <2>1. job \in Running BY <1>2, <1>j DEF ReadBranch, At, Places
  <2>2. job'.at = "refs" \/ Failed BY <1>2, <2>1, JobFields DEF ReadBranch
  <2>3. job'.at = "refs" => JobClaimed' /\ JobCommit'
    BY DEF JobClaimed, JobCommit, Claimed, Places, Made, Told
  <2> QED BY <2>2, <2>3, FailsSoundly
<1>3. CASE ReadRefs
  <2>1. job \in Running /\ job.q \in Requests /\ Target \in Branches
    BY <1>3, <1>j DEF ReadRefs, At, Places
  <2> DEFINE tip == branch[Target]
             found == IF Recovers(tip) THEN tip ELSE Absent
  <2>2. \/ /\ ~ClaimedByOther
           /\ job' = [job EXCEPT !.at = "claim", !.tip = tip, !.commit = found]
        \/ Failed
    BY <1>3 DEF ReadRefs
  <2>3. Recovers(tip) => HasLanded(landed, tip, job.q)
    <3>1. ASSUME Recovers(tip) PROVE tip # <<>> /\ RequestOf(tip) = job.q
      <4>1. Len(Base) \in Nat BY BaseIsCommit, LenProperties DEF Commits
      <4>2. Len(<<>>) = 0 OBVIOUS
      <4> QED BY <3>1, <4>1, <4>2 DEF Recovers, RequestOf
    <3> QED BY <3>1, <2>1 DEF BranchesLanded
  <2>4. ASSUME ~ClaimedByOther, job' = [job EXCEPT !.at = "claim", !.tip = tip, !.commit = found]
        PROVE  JobClaimed' /\ JobCommit'
    <3>1. job'.at = "claim" /\ job'.q = job.q /\ job'.commit = found
      BY <2>1, <2>4, JobFields
    <3>2. found = Absent \/ HasLanded(landed, found, job.q) BY <2>3
    <3>3. claim[IdOf[job.q]] \in {None, job.q} BY <2>4 DEF ClaimedByOther, Id
    <3> HIDE DEF found
    <3> QED BY <1>u, <3>1, <3>2, <3>3
         DEF JobClaimed, JobCommit, Claimed, Places, Made, Told, HasLanded
  <2> QED BY <2>2, <2>4, FailsSoundly
<1>4. CASE Apply
  <2>1. job \in Running /\ job.at = "build" BY <1>4, <1>j DEF Apply, At, Places
  <2>2. \/ /\ job'.at \in {"commands", "commit"}
           /\ job'.q = job.q /\ job'.commit = job.commit
        \/ FailLate
    <3>1. \/ job' = [job EXCEPT !.at = "commands", !.seen = branch]
          \/ job' = [job EXCEPT !.at = "commit", !.seen = <<>>]
          \/ FailLate
      BY <1>4 DEF Apply
    <3> QED BY <2>1, <3>1, JobFields
  <2> QED BY <1>u, <2>1, <2>2, FailsSoundly, GoesOnSoundly DEF Claimed, Places, Made, Told
<1>5. CASE RunCommands
  <2>1. job \in Running /\ job.at = "commands" BY <1>5, <1>j DEF RunCommands, At, Places
  <2>2. \/ job'.at = "commit" /\ job'.q = job.q /\ job'.commit = job.commit
        \/ FailLate
    BY <1>5, <2>1, JobFields DEF RunCommands
  <2> QED BY <1>u, <2>1, <2>2, FailsSoundly, GoesOnSoundly DEF Claimed, Places, Made, Told
<1>6. CASE Commit
  <2>1. job \in Running /\ job.at = "commit" /\ job.q \in Requests
    BY <1>6, <1>j DEF Commit, At, Places
  <2> DEFINE new == CommitOf(job.q, crashes + 1)
  <2>2. new # <<>> /\ RequestOf(new) = job.q
    BY <2>1, CommitIsItsRequests DEF TypeInv, TypeOK
  <2>3. job'.at \in {"recheck", "publish"} /\ job'.q = job.q /\ job'.commit = new
    <3>1. \/ job' = [job EXCEPT !.at = "recheck", !.commit = new]
          \/ job' = [job EXCEPT !.at = "publish", !.commit = new]
      BY <1>6 DEF Commit
    <3> HIDE DEF new
    <3>2. CASE job' = [job EXCEPT !.at = "recheck", !.commit = new]
      BY <2>1, <3>2 DEF Running
    <3>3. CASE job' = [job EXCEPT !.at = "publish", !.commit = new]
      BY <2>1, <3>3 DEF Running
    <3> QED BY <3>1, <3>2, <3>3
  <2> HIDE DEF new
  <2> QED BY <1>u, <2>1, <2>2, <2>3 DEF JobClaimed, JobCommit, Claimed, Places, Made, Told
<1>7. CASE Recheck \/ RecheckBranch \/ WrongBranch \/ RollbackBranch \/ Verify
  <2>1. /\ job \in Running
        /\ job.at \in {"recheck", "recheckBranch", "wrong", "rollbackBranch", "verify"}
    BY <1>7, <1>j DEF Recheck, RecheckBranch, WrongBranch, RollbackBranch, Verify, At, Places
  <2>2. \/ /\ \/ job.at \in {"recheck", "recheckBranch"} /\ job'.at \in {"recheckBranch", "merge"}
              \/ job.at \in {"wrong", "rollbackBranch"} /\ job'.at \in {"rollback", "reset"}
              \/ job.at = "verify" /\ job'.at = "verifyBranch"
           /\ job'.q = job.q /\ job'.commit = job.commit
        \/ FailLate
    BY <1>7, <2>1, JobFields
       DEF Recheck, RecheckBranch, WrongBranch, RollbackBranch, Verify, At, Goto
  <2> QED BY <1>u, <2>1, <2>2, FailsSoundly, GoesOnSoundly DEF Claimed, Places, Made, Told
<1>8. CASE VerifyBranch
  <2>1. job \in Running /\ job.at = "verifyBranch" BY <1>8, <1>j DEF VerifyBranch, At, Places
  <2>2. job'.at \in {"push", "wrong"} /\ job'.q = job.q /\ job'.commit = job.commit
    BY <1>8, <2>1, JobFields DEF VerifyBranch, Goto
  <2> QED BY <1>u, <2>1, <2>2, GoesOnSoundly DEF Claimed, Places, Made, Told
<1> QED BY <1>1, <1>2, <1>3, <1>4, <1>5, <1>6, <1>7, <1>8

\* What a step may do to claims, to what landed and to the branches: a claim is never
\* changed, and only a commit of the worker's own, claimed request lands.
LEMMA LandingStep ==
    ASSUME TypeInv, ClaimInv, JobClaimed', JobCommit',
           \A i \in Ids : claim[i] # None => claim'[i] = claim[i],
           UNCHANGED answer,
           \/ UNCHANGED landed
           \/ /\ job.at \in Made /\ job.q \in Requests
              /\ \E b \in Branches : landed' = landed \cup {<<job.commit, b>>},
           \A b \in Branches :
              /\ \/ \E d \in Branches : branch'[b] \in {branch[d], origin[d]}
                 \/ branch'[b] \in {Base, Absent}
                 \/ \E c \in Commits, n \in Nat : branch'[b] = Append(c, <<"dev", n>>)
                 \/ job.at \in Made /\ <<branch'[b], b>> \in landed'
              /\ \/ origin'[b] = origin[b]
                 \/ \E c \in Commits, n \in Nat : origin'[b] = Append(c, <<"dev", n>>)
                 \/ job.at = "push" /\ job.q \in Requests /\ origin'[b] = job.commit
    PROVE  ClaimInv'
<1> USE DEF ClaimInv
<1>1. landed \subseteq landed' OBVIOUS
<1>2. \A c, q : HasLanded(landed, c, q) => HasLanded(landed', c, q) BY <1>1 DEF HasLanded
<1>3. \A x \in landed' : x \in landed \/ (RequestOf(x[1]) = job.q /\ job.at \in Made)
  <2>1. job.at \in Made => RequestOf(job.commit) = job.q BY DEF JobCommit
  <2>2. CASE landed' = landed BY <2>2
  <2>3. ASSUME NEW b \in Branches, landed' = landed \cup {<<job.commit, b>>}, job.at \in Made
        PROVE  \A x \in landed' : x \in landed \/ (RequestOf(x[1]) = job.q /\ job.at \in Made)
    <3>1. \A x \in landed' : x \in landed \/ x[1] = job.commit BY <2>3
    <3> QED BY <2>1, <2>3, <3>1
  <2> QED BY <2>2, <2>3
<1>4. LandedClaimed'
  <2> SUFFICES ASSUME NEW x \in landed'
               PROVE  RequestOf(x[1]) \in Requests /\ claim'[IdOf[RequestOf(x[1])]] = RequestOf(x[1])
    BY DEF LandedClaimed
  <2>1. RequestOf(x[1]) \in Requests /\ claim[IdOf[RequestOf(x[1])]] = RequestOf(x[1])
    <3>1. job.at \in Made => claim[IdOf[job.q]] = job.q
      BY DEF JobClaimed, Made, Claimed, Places
    <3> QED BY <1>3, <3>1 DEF LandedClaimed
  <2>2. IdOf[RequestOf(x[1])] \in Ids BY <2>1 DEF Ids
  <2> QED BY <2>1, <2>2, NotRequests
<1>5. BranchesLanded'
  <2> SUFFICES ASSUME NEW b \in Branches, NEW q \in Requests
               PROVE  /\ branch'[b] # <<>> /\ RequestOf(branch'[b]) = q => HasLanded(landed', branch'[b], q)
                      /\ origin'[b] # <<>> /\ RequestOf(origin'[b]) = q => HasLanded(landed', origin'[b], q)
    BY DEF BranchesLanded
  <2>1. \A d \in Branches :
           /\ branch[d] # <<>> /\ RequestOf(branch[d]) = q => HasLanded(landed', branch[d], q)
           /\ origin[d] # <<>> /\ RequestOf(origin[d]) = q => HasLanded(landed', origin[d], q)
    BY <1>2 DEF BranchesLanded
  <2>2. Absent = <<>> /\ RequestOf(Base) # q BY BaseIsCommit, NotRequests DEF Absent
  <2>3. \A c \in Commits, n \in Nat : RequestOf(Append(c, <<"dev", n>>)) # q
    BY DevelopersCommit, NotRequests
  <2>4. branch'[b] # <<>> /\ RequestOf(branch'[b]) = q => HasLanded(landed', branch'[b], q)
    <3>1. CASE \E d \in Branches : branch'[b] \in {branch[d], origin[d]} BY <2>1, <3>1
    <3>2. CASE branch'[b] \in {Base, Absent} BY <2>2, <3>2
    <3>3. CASE \E c \in Commits, n \in Nat : branch'[b] = Append(c, <<"dev", n>>) BY <2>3, <3>3
    <3>4. CASE <<branch'[b], b>> \in landed' BY <3>4 DEF HasLanded
    <3> QED BY <3>1, <3>2, <3>3, <3>4
  <2>5. job.at = "push" => HasLanded(landed', job.commit, job.q) BY <1>2 DEF JobCommit, Told
  <2>6. origin'[b] # <<>> /\ RequestOf(origin'[b]) = q => HasLanded(landed', origin'[b], q)
    <3>1. CASE origin'[b] = origin[b] BY <2>1, <3>1
    <3>2. CASE \E c \in Commits, n \in Nat : origin'[b] = Append(c, <<"dev", n>>) BY <2>3, <3>2
    <3>3. CASE job.at = "push" /\ origin'[b] = job.commit BY <2>5, <3>3 DEF HasLanded
    <3> QED BY <3>1, <3>2, <3>3
  <2> QED BY <2>4, <2>6
<1>6. AnswersLanded' BY <1>2 DEF AnswersLanded
<1> QED BY <1>4, <1>5, <1>6

LEMMA StepClaimed == TypeInv /\ ClaimInv /\ [Next]_vars => ClaimInv'
<1> SUFFICES ASSUME TypeInv, ClaimInv, [Next]_vars PROVE ClaimInv' OBVIOUS
<1>j. job.at \in Places => job \in Running /\ job.q \in Requests /\ Target \in Branches /\ Id \in Ids
  BY JobShape DEF TypeInv, Running, At, Places
<1>c. /\ JobClaimed /\ JobCommit /\ AnswersLanded /\ LandedClaimed /\ BranchesLanded
      /\ head \in Branches /\ branch \in [Branches -> Commits] /\ origin \in [Branches -> Commits]
      /\ claim \in [Ids -> Requests \cup {None}]
  BY DEF ClaimInv, TypeInv, TypeOK, Commits
<1>1. CASE \/ \E q \in Requests : Start(q)
           \/ ReadBranch \/ ReadRefs \/ Apply \/ RunCommands \/ Commit \/ Recheck \/ RecheckBranch
           \/ Verify \/ VerifyBranch \/ WrongBranch \/ RollbackBranch
  BY <1>1, LookingStep
<1>2. CASE Claim
  <2>1. job \in Running /\ job.at = "claim" /\ job.q \in Requests /\ Id \in Ids
    BY <1>2, <1>j DEF Claim, At, Places
  <2>2. UNCHANGED <<landed, branch, origin, answer>> /\ job' = [job EXCEPT !.at = "worktree"]
    BY <1>2 DEF Claim, Goto, repository
  <2>3. job'.at = "worktree" /\ job'.q = job.q /\ job'.commit = job.commit
    BY <2>1, <2>2, JobFields
  <2>4. /\ \A i \in Ids : claim[i] # None => claim'[i] = claim[i]
        /\ claim'[IdOf[job.q]] = job.q
    BY <1>2, <1>c, <2>1 DEF Claim, Id, JobClaimed
  <2>5. JobClaimed' /\ JobCommit'
    BY <1>c, <2>1, <2>2, <2>3, <2>4 DEF JobClaimed, JobCommit, Claimed, Places, Made, Told, HasLanded
  <2> QED BY <2>2, <2>4, <2>5, LandingStep
<1>3. CASE AddWorktree
  <2>1. job \in Running /\ job.at = "worktree" /\ job.q \in Requests /\ Target \in Branches
    BY <1>3, <1>j DEF AddWorktree, At, Places
  <2>2. UNCHANGED <<claim, landed, origin, answer>> BY <1>3 DEF AddWorktree
  <2>3. \A b \in Branches : \E d \in Branches : branch'[b] \in {branch[d], origin[d]}
    BY <1>3, <1>c, <2>1 DEF AddWorktree
  <2>4. \/ job.commit # Absent /\ job' = [job EXCEPT !.at = "push"]
        \/ job' = [job EXCEPT !.at = "build"]
        \/ Failed
    BY <1>3 DEF AddWorktree, Goto
  <2>5. ASSUME job.commit # Absent, job' = [job EXCEPT !.at = "push"]
        PROVE  JobClaimed' /\ JobCommit'
    <3>1. job'.at = "push" /\ job'.q = job.q /\ job'.commit = job.commit
      BY <2>1, <2>5, JobFields
    <3>2. HasLanded(landed, job.commit, job.q) BY <1>c, <2>1, <2>5 DEF JobCommit
    <3>3. HasLanded(landed', job'.commit, job'.q) BY <2>2, <3>1, <3>2
    <3>4. claim'[IdOf[job'.q]] = job'.q
      BY <1>c, <2>1, <2>2, <3>1 DEF JobClaimed, Claimed, Places
    <3> QED BY <3>1, <3>3, <3>4 DEF JobClaimed, JobCommit, Made, Told
  <2>6. ASSUME job' = [job EXCEPT !.at = "build"] PROVE JobClaimed' /\ JobCommit'
    <3>1. job'.at = "build" /\ job'.q = job.q /\ job'.commit = job.commit
      BY <2>1, <2>6, JobFields
    <3> QED BY <1>c, <2>1, <2>2, <3>1, GoesOnSoundly DEF Claimed, Places, Made, Told
  <2>7. JobClaimed' /\ JobCommit' BY <2>4, <2>5, <2>6, FailsSoundly
  <2> QED BY <2>2, <2>3, <2>7, LandingStep
<1>4. CASE Publish
  <2>1. job \in Running /\ job.at = "publish" /\ job.q \in Requests /\ Target \in Branches
    BY <1>4, <1>j DEF Publish, At, Places
  <2>2. UNCHANGED <<claim, origin, answer>> BY <1>4 DEF Publish
  <2>3. CASE /\ branch' = [branch EXCEPT ![Target] = job.commit]
             /\ landed' = landed \cup {<<job.commit, Target>>}
             /\ job' = [job EXCEPT !.at = "push"] \/ FailLate
    <3>1. ASSUME FailLate PROVE JobClaimed' /\ JobCommit' BY <3>1, FailsSoundly
    <3>2. ASSUME job' = [job EXCEPT !.at = "push"] PROVE JobClaimed' /\ JobCommit'
      <4>1. job'.at = "push" /\ job'.q = job.q /\ job'.commit = job.commit
        BY <2>1, <3>2, JobFields
      <4> QED
        BY <1>c, <2>1, <2>2, <2>3, <4>1
           DEF JobClaimed, JobCommit, Claimed, Places, Made, Told, HasLanded
    <3>4. JobClaimed' /\ JobCommit' BY <2>3, <3>1, <3>2
    <3>3. \A b \in Branches : branch'[b] = branch[b] \/ <<branch'[b], b>> \in landed'
      BY <1>c, <2>1, <2>3
    <3> QED BY <2>1, <2>2, <2>3, <3>3, <3>4, LandingStep DEF Made
  <2>4. CASE FailLate /\ UNCHANGED <<branch, landed>>
    BY <2>2, <2>4, FailsSoundly, WorkerOnly
  <2> QED BY <1>4, <2>3, <2>4 DEF Publish, Goto
<1>5. CASE Merge
  <2>1. job \in Running /\ job.at = "merge" /\ job.q \in Requests
    BY <1>5, <1>j DEF Merge, At, Places
  <2>2. UNCHANGED <<claim, origin, answer>> BY <1>5 DEF Merge
  <2>3. CASE /\ branch' = [branch EXCEPT ![head] = job.commit]
             /\ landed' = landed \cup {<<job.commit, head>>}
             /\ job' = [job EXCEPT !.at = "verify"] \/ FailLate
    <3>1. ASSUME FailLate PROVE JobClaimed' /\ JobCommit' BY <3>1, FailsSoundly
    <3>2. ASSUME job' = [job EXCEPT !.at = "verify"] PROVE JobClaimed' /\ JobCommit'
      <4>1. job'.at = "verify" /\ job'.q = job.q /\ job'.commit = job.commit
        BY <2>1, <3>2, JobFields
      <4> QED
        BY <1>c, <2>1, <2>2, <2>3, <4>1
           DEF JobClaimed, JobCommit, Claimed, Places, Made, Told, HasLanded
    <3>4. JobClaimed' /\ JobCommit' BY <2>3, <3>1, <3>2
    <3>3. \A b \in Branches : branch'[b] = branch[b] \/ <<branch'[b], b>> \in landed'
      BY <1>c, <2>3
    <3> QED BY <1>c, <2>1, <2>2, <2>3, <3>3, <3>4, LandingStep DEF Made
  <2>4. CASE FailLate /\ UNCHANGED <<branch, landed>>
    BY <2>2, <2>4, FailsSoundly, WorkerOnly
  <2> QED BY <1>5, <2>3, <2>4 DEF Merge, Goto
<1>6. CASE Rollback
  <2>1. job \in Running /\ job.at = "rollback" BY <1>6, <1>j DEF Rollback, At, Places
  <2>2. UNCHANGED <<claim, landed, origin, answer>> BY <1>6 DEF Rollback, durable
  <2>3. \A b \in Branches : branch'[b] \in {branch[b], Base} BY <1>6, <1>c DEF Rollback
  <2>4. job' = [job EXCEPT !.at = "rollbackBranch"] \/ FailLate BY <1>6 DEF Rollback, Goto
  <2>5. ASSUME job' = [job EXCEPT !.at = "rollbackBranch"] PROVE JobClaimed' /\ JobCommit'
    <3>1. job'.at = "rollbackBranch" /\ job'.q = job.q /\ job'.commit = job.commit
      BY <2>1, <2>5, JobFields
    <3> QED BY <1>c, <2>1, <2>2, <3>1, GoesOnSoundly DEF Claimed, Places, Made, Told
  <2>6. JobClaimed' /\ JobCommit' BY <2>4, <2>5, FailsSoundly
  <2> QED BY <2>2, <2>3, <2>6, LandingStep
<1>7. CASE Reset
  <2>1. UNCHANGED <<claim, landed, origin, answer>> BY <1>7 DEF Reset, durable
  <2>2. \A b \in Branches : branch'[b] \in {branch[b], Base} BY <1>7, <1>c DEF Reset
  <2>3. JobClaimed' /\ JobCommit' BY <1>7, FailsSoundly DEF Reset
  <2> QED BY <2>1, <2>2, <2>3, LandingStep
<1>8. CASE Push
  <2>1. job \in Running /\ job.at = "push" /\ job.q \in Requests /\ Target \in Branches
    BY <1>8, <1>j DEF Push, At, Places
  <2>2. UNCHANGED <<claim, landed, branch, answer>> BY <1>8 DEF Push, durable
  <2>3. \A b \in Branches : origin'[b] \in {origin[b], job.commit} BY <1>8, <1>c DEF Push
  <2>4. /\ job'.at = "retire" /\ job'.q = job.q /\ job'.result[2] = job.commit
    BY <1>8 DEF Push, Leave, Success
  <2>5. JobClaimed' /\ JobCommit'
    BY <1>c, <2>1, <2>2, <2>4 DEF JobClaimed, JobCommit, Claimed, Places, Made, Told, HasLanded
  <2> QED BY <2>1, <2>2, <2>3, <2>5, LandingStep
<1>9. CASE Retire
  <2>1. job \in Leaving /\ job.at = "retire"
    BY <1>9, JobShape DEF Retire, At, TypeInv
  <2>2. UNCHANGED <<claim, landed, branch, origin, answer>> BY <1>9 DEF Retire, repository
  <2>3. job'.at = "returned" /\ job'.q = job.q /\ job'.result = job.result
    BY <1>9, <2>1 DEF Retire, Goto, Leaving
  <2>4. JobClaimed' /\ JobCommit'
    BY <1>c, <2>1, <2>2, <2>3 DEF JobClaimed, JobCommit, Claimed, Places, Made, Told, HasLanded
  <2> QED BY <2>2, <2>4, WorkerOnly
<1>10. CASE Answered
  <2>1. job.at = "returned" /\ UNCHANGED <<claim, landed, branch, origin>>
    BY <1>10 DEF Answered, At, repository
  <2>2. JobClaimed' /\ JobCommit'
    BY <1>10 DEF Answered, Idle, JobClaimed, JobCommit, Claimed, Places, Made, Told
  <2>3. answer \in [Requests -> Results] /\ answer' = [answer EXCEPT ![job.q] = job.result]
    BY <1>10 DEF Answered, TypeInv, TypeOK
  <2>4. AnswersLanded'
    BY <1>c, <2>1, <2>3 DEF AnswersLanded, JobCommit, HasLanded
  <2>5. LandedClaimed' /\ BranchesLanded'
    BY <1>c, <2>1 DEF LandedClaimed, BranchesLanded, HasLanded
  <2> QED BY <2>2, <2>4, <2>5 DEF ClaimInv
<1>11. CASE Crash
  <2>1. JobClaimed' /\ JobCommit'
    BY <1>11 DEF Crash, Idle, JobClaimed, JobCommit, Claimed, Places, Made, Told
  <2> QED BY <1>11, <2>1, WorkerOnly DEF Crash, repository, durable
<1>12. CASE Developer \/ UNCHANGED vars
  <2>1. UNCHANGED <<durable, job>>
    BY <1>12 DEF Developer, DevEdit, DevCommit, DevSwitch, DevMove, RemoteCommit, vars, durable
  <2>2. JobClaimed' /\ JobCommit'
    BY <1>c, <2>1 DEF durable, JobClaimed, JobCommit, HasLanded
  <2>3. acts \in Nat BY DEF TypeInv, TypeOK
  <2>4. \A b \in Branches :
           \/ \E d \in Branches : branch'[b] \in {branch[d], origin[d]}
           \/ branch'[b] = Absent
           \/ \E c \in Commits, n \in Nat : branch'[b] = Append(c, <<"dev", n>>)
    <3>1. CASE DevCommit BY <3>1, <1>c, <2>3 DEF DevCommit
    <3>2. CASE \E b \in Branches : DevMove(b, Absent) \/ DevMove(b, branch[head])
      BY <3>2, <1>c DEF DevMove
    <3>3. CASE UNCHANGED branch BY <3>3
    <3> QED BY <1>12, <3>1, <3>2, <3>3
            DEF Developer, DevEdit, DevSwitch, RemoteCommit, vars, repository
  <2>5. \A b \in Branches :
           \/ origin'[b] = origin[b]
           \/ \E c \in Commits, n \in Nat : origin'[b] = Append(c, <<"dev", n>>)
    <3>1. CASE \E q \in PushRequests : RemoteCommit(TargetOf[q])
      BY <3>1, <1>c, <2>3, BaseIsCommit DEF RemoteCommit
    <3>2. CASE UNCHANGED origin BY <3>2
    <3> QED BY <1>12, <3>1, <3>2
            DEF Developer, DevEdit, DevCommit, DevSwitch, DevMove, vars, repository
  <2> QED BY <2>1, <2>2, <2>4, <2>5, LandingStep DEF durable
<1> QED
  BY <1>1, <1>2, <1>3, <1>4, <1>5, <1>6, <1>7, <1>8, <1>9, <1>10, <1>11, <1>12 DEF Next, Worker

\* The invariants of TypeCorrect and of this section hold together.
LEMMA AlwaysClaimed == Spec => [](TypeInv /\ ClaimInv)
<1>1. Init => TypeInv /\ ClaimInv BY InitTyped, InitClaimed
<1>2. TypeInv /\ ClaimInv /\ [Next]_vars => (TypeInv /\ ClaimInv)' BY StepTyped, StepClaimed
<1> QED BY <1>1, <1>2, PTL DEF Spec

\* Two requests with one transaction id and different bytes never both put a commit
\* on a branch: update-ref with an empty old value lets one of them have the id.
THEOREM OneRequestLandsPerId == Spec => []OneRequestPerId
<1>1. TypeInv /\ ClaimInv => OneRequestPerId
  BY DEF ClaimInv, LandedClaimed, OneRequestPerId
<1> QED BY <1>1, AlwaysClaimed, PTL

\* Whoever is told a success has a commit of its own that the bridge put on a branch,
\* also when it was found there after a death, pushed late or told a second time.
THEOREM SuccessesLanded == Spec => []ToldIsLanded
<1>1. TypeInv /\ ClaimInv => ToldIsLanded
  BY DEF ClaimInv, AnswersLanded, ToldIsLanded, HasLanded
<1> QED BY <1>1, AlwaysClaimed, PTL
-----------------------------------------------------------------------------
(***************************************************************************)
(* The developer's checkout.  Its branch exists and no disposable worktree *)
(* holds it: git refuses to attach one to it, and to switch to a branch    *)
(* that one holds.  The worker compares-and-swaps only a branch it saw     *)
(* absent or holds in its own worktree, so never that of the checkout, and *)
(* only the declared base is ever replaced, by a commit of the request.    *)
(***************************************************************************)
Swapping == {"build", "commands", "commit", "publish"}
Committed == {"publish", "recheck", "recheckBranch", "merge", "verify", "verifyBranch", "wrong",
              "rollback"}
Merged == {"verify", "verifyBranch", "wrong", "rollback"}

CheckoutFree == branch[head] # Absent /\ \A i \in Ids : worktree[i] # head
JobTip ==
    /\ job.at \in {"claim", "worktree"} /\ job.commit = Absent => job.tip \in {Absent, Base}
    /\ job.at \in Swapping => job.tip \in {Absent, Base}
    /\ job.at \in Swapping => Direct \/ job.tip = Absent \/ worktree[Id] = Target
    /\ job.at = "publish" => ~Direct
JobOwn ==
    /\ job.at \in Committed => \E n \in Nat : job.commit = CommitOf(job.q, n)
    /\ job.at \in Merged => job.commit \in {x[1] : x \in landed}
CheckoutInv == CheckoutFree /\ JobTip /\ JobOwn /\ FilesFollowBranch

\* Only a commit of the developer holds a change of the developer.
LEMMA NothingOfTheirs ==
    ASSUME NEW old \in {Absent, Base} \cup {CommitOf(q, n) : q \in Requests, n \in Nat}, NEW new
    PROVE  KeepsWork(old, new)
<1>1. CASE old = Absent BY <1>1 DEF KeepsWork, Absent
<1>2. \A i \in 1 .. Len(Base) : Base[i][1] # "dev" BY DEF Base, Root
<1>3. CASE old = Base BY <1>2, <1>3 DEF KeepsWork
<1>4. ASSUME NEW q \in Requests, NEW n \in Nat, old = CommitOf(q, n) PROVE KeepsWork(old, new)
  <2>1. q # "dev" /\ <<q, n>> \in Changes BY NotRequests DEF Changes
  <2>2. <<q, n>>[1] = q OBVIOUS
  <2>3. Base \in Seq(Changes) /\ Len(Base) \in Nat
    BY BaseIsCommit, LenProperties DEF Commits
  <2> HIDE DEF Base, Changes
  <2> DEFINE change == <<q, n>>
  <2>4. /\ Len(old) = Len(Base) + 1 /\ old[Len(Base) + 1] = change
        /\ \A i \in 1 .. Len(Base) : old[i] = Base[i]
    BY <1>4, <2>1, <2>3, AppendProperties DEF CommitOf
  <2> HIDE DEF change
  <2>5. change[1] # "dev" BY <2>1, <2>2 DEF change
  <2>6. ASSUME NEW i \in 1 .. Len(old) PROVE old[i][1] # "dev"
    <3>1. i \in 1 .. Len(Base) \/ i = Len(Base) + 1 BY <2>3, <2>4
    <3> QED BY <1>2, <2>4, <2>5, <3>1
  <2> QED BY <2>6 DEF KeepsWork
<1> QED BY <1>1, <1>3, <1>4

LEMMA PrefixKept ==
    ASSUME NEW old \in Commits, NEW new \in Commits, IsPrefix(old, new)
    PROVE  KeepsWork(old, new)
<1> SUFFICES ASSUME NEW i \in 1 .. Len(old) PROVE i <= Len(new) /\ new[i] = old[i]
  BY DEF KeepsWork
<1>1. Len(old) \in Nat /\ Len(new) \in Nat /\ Len(old) <= Len(new)
      /\ SubSeq(old, 1, Len(old)) = SubSeq(new, 1, Len(old))
  BY LenProperties DEF Commits, IsPrefix
<1>2. SubSeq(old, 1, Len(old))[i] = old[i] /\ SubSeq(new, 1, Len(old))[i] = new[i]
  BY <1>1, SubSeqProperties DEF Commits
<1> QED BY <1>1, <1>2

LEMMA UnmovedKept == ASSUME NEW c \in Commits PROVE KeepsWork(c, c)
<1>1. Len(c) \in Nat BY LenProperties DEF Commits
<1> QED BY <1>1 DEF KeepsWork

LEMMA OwnIsNew ==
    ASSUME NEW q \in Requests, NEW n \in Nat
    PROVE  CommitOf(q, n) \notin {Absent, Base}
  BY NotRequests, CommitIsItsRequests, BaseIsCommit DEF Absent

\* The local variables a worker carries along when it goes on to another place.
LEMMA Carried ==
    ASSUME job \in Running, NEW p
    PROVE  \/ job' = [job EXCEPT !.at = p]
           \/ job' = [job EXCEPT !.at = p, !.wrong = head]
           \/ job' = [job EXCEPT !.at = p, !.seen = branch]
           \/ job' = [job EXCEPT !.at = p, !.seen = <<>>]
           => /\ job'.at = p /\ job'.q = job.q /\ job'.current = job.current
              /\ job'.tip = job.tip /\ job'.commit = job.commit
  BY DEF Running

LEMMA GoesOnFreely ==
    ASSUME JobTip, JobOwn, UNCHANGED <<worktree, landed>>,
           job'.q = job.q, job'.current = job.current, job'.tip = job.tip, job'.commit = job.commit,
           job'.at \in {"claim", "worktree"} => job.at \in {"claim", "worktree"},
           job'.at \in Swapping => job.at \in Swapping,
           job'.at # "publish",
           job'.at \in Committed => job.at \in Committed,
           job'.at \in Merged => job.at \in Merged
    PROVE  JobTip' /\ JobOwn'
  BY DEF JobTip, JobOwn, Direct, Target, Id

LEMMA LeavesFreely ==
    ASSUME job'.at \in {"idle", "branch", "refs", "push", "reset", "rollbackBranch", "retire",
                        "returned"}
    PROVE  JobTip' /\ JobOwn'
  BY DEF JobTip, JobOwn, Swapping, Committed, Merged

LEMMA FailsFreely == ASSUME Failed \/ FailLate PROVE JobTip' /\ JobOwn'
  BY FailedFields, LeavesFreely

\* A step that leaves the repository, the worktrees and what landed alone.
LEMMA CheckoutUntouched ==
    ASSUME CheckoutInv, UNCHANGED <<branch, head, tree, worktree, landed>>, JobTip', JobOwn'
    PROVE  CheckoutInv'
  BY DEF CheckoutInv, CheckoutFree, FilesFollowBranch

LEMMA InitFree == Init => CheckoutInv
<1> SUFFICES ASSUME Init PROVE CheckoutInv OBVIOUS
<1>1. head = "main" /\ branch[head] = Base /\ tree = Base
  BY ConstantsAssumption DEF Init
<1>2. head \notin {None, "detached"} BY <1>1 DEF None
<1>3. CheckoutFree BY <1>1, <1>2, BaseIsCommit DEF Init, CheckoutFree, Absent
<1>4. JobTip /\ JobOwn BY DEF Init, Idle, JobTip, JobOwn, Swapping, Committed, Merged
<1> QED BY <1>1, <1>3, <1>4 DEF CheckoutInv, FilesFollowBranch

\* The steps of the worker, of a death and of the developer, from any state.
LEMMA StepFree == TypeInv /\ CheckoutInv /\ [Next]_vars => CheckoutInv'
<1> SUFFICES ASSUME TypeInv, CheckoutInv, [Next]_vars PROVE CheckoutInv' OBVIOUS
<1>j. job.at \in Places => job \in Running /\ job.q \in Requests /\ Target \in Branches /\ Id \in Ids
  BY JobShape DEF TypeInv, Running, At, Places
<1>c. /\ CheckoutFree /\ JobTip /\ JobOwn /\ FilesFollowBranch
      /\ head \in Branches /\ branch \in [Branches -> Commits]
      /\ worktree \in [Ids -> Branches \cup {None, "detached"}]
  BY DEF CheckoutInv, TypeInv, TypeOK, Commits
<1>m. {None, "detached"} \cap Branches = {} BY ConstantsAssumption DEF None
<1>1. CASE \/ \E q \in Requests : Start(q)
           \/ ReadBranch \/ Answered \/ Crash \/ Push
  <2>1. UNCHANGED <<branch, head, tree, landed, worktree>>
    BY <1>1 DEF Start, ReadBranch, Answered, Crash, Push, repository, durable
  <2>2. job'.at \in {"idle", "branch", "refs", "retire", "returned"}
    <3>1. CASE ReadBranch
      <4>1. job \in Running BY <1>j, <3>1 DEF ReadBranch, At, Places
      <4> QED BY <3>1, <4>1, JobFields, FailedFields DEF ReadBranch
    <3> QED BY <1>1, <3>1 DEF Start, Answered, Crash, Push, Leave, Idle
  <2> QED BY <2>1, <2>2, LeavesFreely, CheckoutUntouched
<1>2. CASE ReadRefs
  <2>1. job \in Running BY <1>2, <1>j DEF ReadRefs, At, Places
  <2> DEFINE tip == branch[Target]
             found == IF Recovers(tip) THEN tip ELSE Absent
  <2>2. \/ /\ ~Stale(tip)
           /\ job' = [job EXCEPT !.at = "claim", !.tip = tip, !.commit = found]
        \/ Failed
    BY <1>2 DEF ReadRefs
  <2>3. ASSUME ~Stale(tip), job' = [job EXCEPT !.at = "claim", !.tip = tip, !.commit = found]
        PROVE  JobTip' /\ JobOwn'
    <3>1. job'.at = "claim" /\ job'.tip = tip /\ job'.commit = found
      BY <2>1, <2>3 DEF Running
    <3>2. found = Absent => tip \in {Absent, Base} BY <2>3 DEF Stale
    <3> HIDE DEF tip, found
    <3> QED BY <3>1, <3>2 DEF JobTip, JobOwn, Swapping, Committed, Merged
  <2>4. UNCHANGED <<branch, head, tree, landed, worktree>>
    BY <1>2 DEF ReadRefs, repository, durable
  <2> QED BY <2>2, <2>3, <2>4, FailsFreely, CheckoutUntouched
<1>3. CASE Claim
  <2>1. job \in Running /\ job.at = "claim" BY <1>3, <1>j DEF Claim, At, Places
  <2>2. job' = [job EXCEPT !.at = "worktree"] /\ UNCHANGED <<branch, head, tree, landed, worktree>>
    BY <1>3 DEF Claim, Goto, repository
  <2>3. JobTip' /\ JobOwn'
    BY <1>c, <2>1, <2>2, Carried, GoesOnFreely DEF Swapping, Committed, Merged
  <2> QED BY <2>2, <2>3, CheckoutUntouched
<1>4. CASE AddWorktree
  <2>1. job \in Running /\ job.at = "worktree" /\ Target \in Branches /\ Id \in Ids
    BY <1>4, <1>j DEF AddWorktree, At, Places
  <2>2. UNCHANGED <<head, tree, landed>> BY <1>4 DEF AddWorktree
  <2>3. ASSUME UNCHANGED branch, \A i \in Ids \ {Id} : worktree'[i] = worktree[i],
               worktree'[Id] # head, JobTip', JobOwn'
        PROVE  CheckoutInv'
    BY <1>c, <2>1, <2>2, <2>3 DEF CheckoutInv, CheckoutFree, FilesFollowBranch
  <2>4. CASE /\ ~Attaches /\ UNCHANGED branch
             /\ worktree' = [worktree EXCEPT ![Id] = "detached"]
             /\ job' = [job EXCEPT !.at = IF job.commit # Absent THEN "push" ELSE "build"]
    <3>1. worktree'[Id] # head /\ \A i \in Ids \ {Id} : worktree'[i] = worktree[i]
      BY <1>c, <1>m, <2>1, <2>4
    <3>2. JobTip' /\ JobOwn'
      <4>1. CASE job.commit # Absent
        <5>1. job'.at = "push" BY <2>1, <2>4, <4>1, Carried
        <5> QED BY <5>1, LeavesFreely
      <4>2. CASE job.commit = Absent
        <5>1. /\ job'.at = "build" /\ job'.q = job.q /\ job'.current = job.current
              /\ job'.tip = job.tip /\ job'.commit = job.commit
          BY <2>1, <2>4, <4>2, Carried
        <5>2. Direct \/ job.tip = Absent BY <2>4, <4>2 DEF Attaches
        <5> QED BY <1>c, <2>1, <4>2, <5>1, <5>2
             DEF JobTip, JobOwn, Swapping, Committed, Merged, Direct, Target
      <4> QED BY <4>1, <4>2
    <3> QED BY <2>3, <2>4, <3>1, <3>2
  <2>5. ASSUME Attaches, worktree' = [worktree EXCEPT ![Id] = Target],
               job' = [job EXCEPT !.at = "build"]
        PROVE  JobTip' /\ JobOwn'
    <3>1. /\ job'.at = "build" /\ job'.q = job.q /\ job'.current = job.current
          /\ job'.tip = job.tip /\ job'.commit = job.commit
      BY <2>1, <2>5, Carried
    <3>2. worktree'[Id] = Target BY <1>c, <2>1, <2>5
    <3> QED BY <1>c, <2>1, <2>5, <3>1, <3>2
         DEF JobTip, JobOwn, Swapping, Committed, Merged, Attaches, Target, Id
  <2>6. CASE /\ Attaches /\ ~InUse(Target, Id) /\ UNCHANGED branch
             /\ worktree' = [worktree EXCEPT ![Id] = Target]
             /\ job' = [job EXCEPT !.at = "build"]
    <3>1. Target # head BY <2>6 DEF InUse
    <3> QED BY <1>c, <2>1, <2>3, <2>5, <2>6, <3>1
  <2>7. CASE /\ Attaches /\ branch[Target] = Absent
             /\ branch' = [branch EXCEPT ![Target] = origin[Target]]
             /\ worktree' = [worktree EXCEPT ![Id] = Target]
             /\ job' = [job EXCEPT !.at = "build"]
    <3>1. Target # head BY <1>c, <2>7 DEF CheckoutFree
    <3>2. branch'[head] = branch[head] BY <1>c, <2>7, <3>1
    <3>3. \A i \in Ids : worktree'[i] # head BY <1>c, <2>7, <3>1 DEF CheckoutFree
    <3> QED BY <1>c, <2>2, <2>5, <2>7, <3>2, <3>3 DEF CheckoutInv, CheckoutFree, FilesFollowBranch
  <2>8. CASE Failed /\ worktree' = [worktree EXCEPT ![Id] = None] /\ UNCHANGED branch
    BY <1>c, <1>m, <2>1, <2>3, <2>8, FailsFreely
  <2> QED BY <1>4, <2>4, <2>6, <2>7, <2>8 DEF AddWorktree, Goto, Attaches
<1>5. CASE Apply \/ RunCommands
  <2>1. job \in Running /\ job.at \in {"build", "commands"}
    BY <1>5, <1>j DEF Apply, RunCommands, At, Places
  <2>2. \/ job' = [job EXCEPT !.at = "commands", !.seen = branch]
        \/ job' = [job EXCEPT !.at = "commit", !.seen = <<>>]
        \/ FailLate
    BY <1>5 DEF Apply, RunCommands
  <2>3. UNCHANGED <<branch, head, tree, landed, worktree>>
    BY <1>5 DEF Apply, RunCommands, repository, durable
  <2>4. JobTip' /\ JobOwn'
    BY <1>c, <2>1, <2>2, <2>3, Carried, GoesOnFreely, FailsFreely DEF Swapping, Committed, Merged
  <2> QED BY <2>3, <2>4, CheckoutUntouched
<1>6. CASE Commit
  <2>1. job \in Running /\ job.at = "commit" BY <1>6, <1>j DEF Commit, At, Places
  <2>2. UNCHANGED <<branch, head, tree, landed, worktree>> BY <1>6 DEF Commit, repository, durable
  <2> DEFINE new == CommitOf(job.q, crashes + 1)
             next == IF Direct THEN "recheck" ELSE "publish"
  <2>3. job' = [job EXCEPT !.at = next, !.commit = new] BY <1>6 DEF Commit
  <2> HIDE DEF new, next
  <2>4. /\ job'.at = next /\ job'.commit = new /\ job'.q = job.q
        /\ job'.current = job.current /\ job'.tip = job.tip
    BY <2>1, <2>3 DEF Running
  <2>5. \E n \in Nat : new = CommitOf(job'.q, n)
    <3>1. crashes + 1 \in Nat BY DEF TypeInv, TypeOK
    <3> QED BY <2>4, <3>1 DEF new
  <2>6. (Direct <=> Direct') /\ Target' = Target /\ Id' = Id BY <2>4 DEF Direct, Target, Id
  <2>7. JobTip' BY <1>c, <2>1, <2>2, <2>4, <2>6 DEF JobTip, Swapping, next
  <2>8. JobOwn' BY <2>4, <2>5 DEF JobOwn, Merged, next
  <2> QED BY <2>2, <2>7, <2>8, CheckoutUntouched
<1>7. CASE Publish
  <2>1. job \in Running /\ job.at = "publish" /\ Target \in Branches /\ Id \in Ids
    BY <1>7, <1>j DEF Publish, At, Places
  <2>2. UNCHANGED <<head, tree, worktree>> BY <1>7 DEF Publish
  <2>3. CASE /\ branch[Target] = job.tip /\ branch' = [branch EXCEPT ![Target] = job.commit]
             /\ landed \subseteq landed'
             /\ job' = [job EXCEPT !.at = "push"] \/ FailLate
    <3>1. Target # head
      <4>1. job.tip = Absent \/ worktree[Id] = Target BY <1>c, <2>1 DEF JobTip, Swapping
      <4>2. CASE job.tip = Absent BY <1>c, <2>3, <4>2 DEF CheckoutFree
      <4>3. CASE worktree[Id] = Target BY <1>c, <2>1, <4>3 DEF CheckoutFree
      <4> QED BY <4>1, <4>2, <4>3
    <3>2. branch'[head] = branch[head] BY <1>c, <2>3, <3>1
    <3>3. job' = [job EXCEPT !.at = "push"] => job'.at = "push" BY <2>1, Carried
    <3>4. JobTip' /\ JobOwn' BY <2>3, <3>3, LeavesFreely, FailsFreely
    <3> QED BY <1>c, <2>2, <2>3, <3>2, <3>4
         DEF CheckoutInv, CheckoutFree, FilesFollowBranch
  <2>4. CASE FailLate /\ UNCHANGED <<branch, landed>>
    BY <2>2, <2>4, FailsFreely, CheckoutUntouched
  <2> QED BY <1>7, <2>3, <2>4 DEF Publish, Goto
<1>8. CASE Recheck \/ RecheckBranch \/ Verify \/ VerifyBranch \/ WrongBranch \/ RollbackBranch
  <2>1. /\ job \in Running
        /\ job.at \in {"recheck", "recheckBranch", "verify", "verifyBranch", "wrong", "rollbackBranch"}
    BY <1>8, <1>j
       DEF Recheck, RecheckBranch, Verify, VerifyBranch, WrongBranch, RollbackBranch, At, Places
  <2>2. UNCHANGED <<branch, head, tree, landed, worktree>>
    BY <1>8 DEF Recheck, RecheckBranch, Verify, VerifyBranch, WrongBranch, RollbackBranch,
                repository, durable
  <2>3. \/ /\ job'.q = job.q /\ job'.current = job.current
           /\ job'.tip = job.tip /\ job'.commit = job.commit
           /\ \/ job.at \in {"recheck", "recheckBranch"} /\ job'.at \in {"recheckBranch", "merge"}
              \/ /\ job.at \in {"verify", "verifyBranch", "wrong"}
                 /\ job'.at \in {"verifyBranch", "wrong", "rollback", "push"}
              \/ job.at = "rollbackBranch" /\ job'.at = "reset"
        \/ FailLate
    BY <1>8, <2>1, Carried
       DEF Recheck, RecheckBranch, Verify, VerifyBranch, WrongBranch, RollbackBranch, At, Goto
  <2>4. JobTip' /\ JobOwn'
    BY <1>c, <2>2, <2>3, GoesOnFreely, LeavesFreely, FailsFreely DEF Swapping, Committed, Merged
  <2> QED BY <2>2, <2>4, CheckoutUntouched
<1>9. CASE Merge
  <2>1. job \in Running /\ job.at = "merge" /\ job.q \in Requests
    BY <1>9, <1>j DEF Merge, At, Places
  <2>2. UNCHANGED <<head, worktree>> BY <1>9 DEF Merge
  <2>3. PICK n \in Nat : job.commit = CommitOf(job.q, n)
    BY <1>c, <2>1 DEF JobOwn, Committed
  <2>4. CASE /\ branch' = [branch EXCEPT ![head] = job.commit] /\ tree' = job.commit
             /\ landed' = landed \cup {<<job.commit, head>>}
             /\ job' = [job EXCEPT !.at = "verify"] \/ FailLate
    <3>1. branch'[head] = job.commit /\ job.commit # Absent BY <1>c, <2>1, <2>3, <2>4, OwnIsNew
    <3>2. <<job.commit, head>> \in landed' /\ <<job.commit, head>>[1] = job.commit BY <2>4
    <3>3. ASSUME job' = [job EXCEPT !.at = "verify"] PROVE JobTip' /\ JobOwn'
      <4>1. job'.at = "verify" /\ job'.q = job.q /\ job'.commit = job.commit
        BY <2>1, <3>3, Carried
      <4>2. JobTip' BY <4>1 DEF JobTip, Swapping
      <4>3. JobOwn' BY <2>3, <3>2, <4>1 DEF JobOwn
      <4> QED BY <4>2, <4>3
    <3>4. ASSUME FailLate PROVE JobTip' /\ JobOwn' BY <3>4, FailsFreely
    <3>5. JobTip' /\ JobOwn' BY <2>4, <3>3, <3>4
    <3> QED BY <1>c, <2>2, <2>4, <3>1, <3>5 DEF CheckoutInv, CheckoutFree, FilesFollowBranch
  <2>5. CASE FailLate /\ UNCHANGED <<branch, tree, landed>>
    BY <2>2, <2>5, FailsFreely, CheckoutUntouched
  <2> QED BY <1>9, <2>4, <2>5 DEF Merge, Goto
<1>10. CASE Rollback
  <2>1. job \in Running /\ job.at = "rollback" BY <1>10, <1>j DEF Rollback, At, Places
  <2>2. UNCHANGED <<head, tree, worktree, landed>> BY <1>10 DEF Rollback, durable
  <2>3. CASE /\ branch[job.wrong] = job.commit /\ branch' = [branch EXCEPT ![job.wrong] = Base]
             /\ job' = [job EXCEPT !.at = "rollbackBranch"] \/ FailLate
    <3>0. job' = [job EXCEPT !.at = "rollbackBranch"] => job'.at = "rollbackBranch"
      BY <2>1, Carried
    <3>1. JobTip' /\ JobOwn' BY <2>3, <3>0, LeavesFreely, FailsFreely
    <3>2. CASE job.wrong # head
      <4>1. branch'[head] = branch[head] BY <1>c, <2>3, <3>2
      <4> QED BY <1>c, <2>2, <3>1, <4>1
           DEF CheckoutInv, CheckoutFree, FilesFollowBranch
    <3>3. CASE job.wrong = head
      <4>1. branch'[head] = Base /\ branch[head] = job.commit BY <1>c, <2>3, <3>3
      <4>2. job.commit \in {x[1] : x \in landed} BY <1>c, <2>1 DEF JobOwn, Merged
      <4>3. tree \in {x[1] : x \in landed} BY <1>c, <4>1, <4>2 DEF FilesFollowBranch
      <4>4. FilesFollowBranch' BY <2>2, <4>1, <4>3 DEF FilesFollowBranch
      <4>5. CheckoutFree' BY <1>c, <2>2, <4>1, BaseIsCommit DEF CheckoutFree, Absent
      <4> QED BY <3>1, <4>4, <4>5 DEF CheckoutInv
    <3> QED BY <3>2, <3>3
  <2>4. CASE FailLate /\ UNCHANGED branch BY <2>2, <2>4, FailsFreely, CheckoutUntouched
  <2> QED BY <1>10, <2>3, <2>4 DEF Rollback, Goto
<1>11. CASE Reset
  <2>1. /\ UNCHANGED <<head, worktree, landed>>
        /\ (branch'[head] = Base /\ tree' = Base) \/ UNCHANGED <<branch, tree>>
    BY <1>11, <1>c DEF Reset, durable
  <2>2. JobTip' /\ JobOwn' BY <1>11, FailsFreely DEF Reset
  <2> QED BY <1>c, <2>1, <2>2, BaseIsCommit DEF CheckoutInv, CheckoutFree, FilesFollowBranch, Absent
<1>12. CASE Retire
  <2>1. job \in Leaving /\ Id \in Ids BY <1>12, JobShape DEF Retire, At, TypeInv
  <2>2. job'.at = "returned" BY <1>12, <2>1 DEF Retire, Goto, Leaving
  <2>3. \A i \in Ids : worktree'[i] \in {worktree[i], None} BY <1>12, <1>c DEF Retire
  <2>4. \A i \in Ids : worktree'[i] # head BY <1>c, <1>m, <2>3 DEF CheckoutFree
  <2>5. UNCHANGED <<branch, head, tree, landed>> BY <1>12 DEF Retire, repository
  <2> QED BY <1>c, <2>2, <2>4, <2>5, LeavesFreely DEF CheckoutInv, CheckoutFree, FilesFollowBranch
<1>13. CASE Developer \/ UNCHANGED vars
  <2>1. UNCHANGED <<worktree, landed, job>>
    BY <1>13 DEF Developer, DevEdit, DevCommit, DevSwitch, DevMove, RemoteCommit, vars, durable
  <2>2. JobTip' /\ JobOwn'
    BY <1>c, <2>1 DEF JobTip, JobOwn, Direct, Target, Id
  <2>3. CASE DevCommit
    <3>1. branch'[head] = Append(branch[head], <<"dev", acts>>) /\ tree' = branch'[head] /\ head' = head
      BY <1>c, <2>3 DEF DevCommit
    <3>2. branch'[head] # Absent
      BY <1>c, <3>1, DevelopersCommit DEF Absent, TypeInv, TypeOK
    <3> QED BY <1>c, <2>1, <2>2, <3>1, <3>2 DEF CheckoutInv, CheckoutFree, FilesFollowBranch
  <2>4. ASSUME NEW b \in Branches, DevSwitch(b) PROVE CheckoutInv'
    BY <2>1, <2>2, <2>4 DEF DevSwitch, CheckoutInv, CheckoutFree, FilesFollowBranch
  <2>5. ASSUME NEW b \in Branches, NEW c, DevMove(b, c) PROVE CheckoutInv'
    <3>1. branch'[head] = branch[head] /\ UNCHANGED <<head, tree>> BY <1>c, <2>5 DEF DevMove
    <3> QED BY <1>c, <2>1, <2>2, <3>1 DEF CheckoutInv, CheckoutFree, FilesFollowBranch
  <2>6. CASE UNCHANGED <<branch, head, tree>> BY <2>1, <2>2, <2>6, CheckoutUntouched
  <2> QED BY <1>13, <2>3, <2>4, <2>5, <2>6
       DEF Developer, DevEdit, RemoteCommit, vars, repository
<1> QED
  BY <1>1, <1>2, <1>3, <1>4, <1>5, <1>6, <1>7, <1>8, <1>9, <1>10, <1>11, <1>12, <1>13
     DEF Next, Worker

\* What a step of the worker writes to the branches, here and at the remote.
LEMMA WorkerKeeps ==
    ASSUME TypeInv, CheckoutInv, Worker, ~At("reset")
    PROVE  /\ \A b \in Branches : KeepsWork(branch[b], branch'[b]) /\ KeepsWork(origin[b], origin'[b])
           /\ edited => edited'
<1>j. job.at \in Places => job \in Running /\ job.q \in Requests /\ Target \in Branches /\ Id \in Ids
  BY JobShape DEF TypeInv, Running, At, Places
<1>c. /\ JobTip /\ JobOwn /\ head \in Branches
      /\ branch \in [Branches -> Commits] /\ origin \in [Branches -> Commits]
  BY DEF CheckoutInv, TypeInv, TypeOK, Commits
<1>n. \A c : \A q \in Requests, n \in Nat :
         /\ KeepsWork(Absent, c) /\ KeepsWork(Base, c) /\ KeepsWork(CommitOf(q, n), c)
  BY NothingOfTheirs
<1>u. \A b \in Branches : KeepsWork(branch[b], branch[b]) /\ KeepsWork(origin[b], origin[b])
  BY <1>c, UnmovedKept
<1>1. ASSUME UNCHANGED <<origin, edited>>, NEW b \in Branches,
             NEW new, branch' = [branch EXCEPT ![b] = new], KeepsWork(branch[b], new)
      PROVE  /\ \A d \in Branches : KeepsWork(branch[d], branch'[d]) /\ KeepsWork(origin[d], origin'[d])
             /\ edited => edited'
  <2>1. branch'[b] = new /\ \A d \in Branches \ {b} : branch'[d] = branch[d] BY <1>c, <1>1
  <2> QED BY <1>u, <1>1, <2>1
<1>2. CASE UNCHANGED <<branch, origin, edited>> BY <1>u, <1>2
<1>3. CASE AddWorktree
  <2>1. Target \in Branches BY <1>3, <1>j DEF AddWorktree, At, Places
  <2>2. UNCHANGED <<origin, edited>> BY <1>3 DEF AddWorktree
  <2>3. \/ UNCHANGED branch
        \/ branch[Target] = Absent /\ branch' = [branch EXCEPT ![Target] = origin[Target]]
    BY <1>3 DEF AddWorktree
  <2>4. KeepsWork(Absent, origin[Target]) BY NothingOfTheirs
  <2> QED BY <1>1, <1>2, <2>1, <2>2, <2>3, <2>4
<1>4. CASE Publish
  <2>1. job.at = "publish" /\ Target \in Branches BY <1>4, <1>j DEF Publish, At, Places
  <2>2. UNCHANGED <<origin, edited>> BY <1>4 DEF Publish
  <2>3. \/ UNCHANGED branch
        \/ branch[Target] = job.tip /\ branch' = [branch EXCEPT ![Target] = job.commit]
    BY <1>4 DEF Publish
  <2>4. KeepsWork(job.tip, job.commit)
    BY <1>c, <2>1, NothingOfTheirs DEF JobTip, Swapping
  <2> QED BY <1>1, <1>2, <2>1, <2>2, <2>3, <2>4
<1>5. CASE Merge
  <2>1. job.commit \in Commits
    BY <1>5, <1>j DEF Merge, At, Places, Running
  <2>2. UNCHANGED <<origin, edited>> BY <1>5 DEF Merge
  <2>3. \/ UNCHANGED branch
        \/ IsPrefix(branch[head], job.commit) /\ branch' = [branch EXCEPT ![head] = job.commit]
    BY <1>5 DEF Merge
  <2>4. IsPrefix(branch[head], job.commit) => KeepsWork(branch[head], job.commit)
    BY <1>c, <2>1, PrefixKept
  <2> QED BY <1>1, <1>2, <1>c, <2>2, <2>3, <2>4
<1>6. CASE Rollback
  <2>1. job \in Running /\ job.at = "rollback" /\ job.q \in Requests
    BY <1>6, <1>j DEF Rollback, At, Places
  <2>2. UNCHANGED <<origin, edited>> BY <1>6 DEF Rollback
  <2>3. PICK n \in Nat : job.commit = CommitOf(job.q, n) BY <1>c, <2>1 DEF JobOwn, Committed
  <2>4. KeepsWork(job.commit, Base) BY <2>1, <2>3, NothingOfTheirs
  <2>5. \/ UNCHANGED branch
        \/ branch[job.wrong] = job.commit /\ branch' = [branch EXCEPT ![job.wrong] = Base]
    BY <1>6 DEF Rollback
  <2>6. job.wrong \notin Branches /\ branch' = [branch EXCEPT ![job.wrong] = Base] => UNCHANGED branch
    BY <1>c
  <2> QED BY <1>1, <1>2, <2>2, <2>4, <2>5, <2>6
<1>7. CASE Push
  <2>1. job.commit \in Commits /\ Target \in Branches BY <1>7, <1>j DEF Push, At, Places, Running
  <2>2. UNCHANGED <<branch, edited>> BY <1>7 DEF Push
  <2>3. \/ UNCHANGED origin
        \/ IsPrefix(origin[Target], job.commit) /\ origin' = [origin EXCEPT ![Target] = job.commit]
    BY <1>7 DEF Push
  <2>4. IsPrefix(origin[Target], job.commit) => KeepsWork(origin[Target], job.commit)
    BY <1>c, <2>1, PrefixKept
  <2>5. \A b \in Branches : KeepsWork(origin[b], origin'[b])
    <3>1. \A b \in Branches \ {Target} : origin' = [origin EXCEPT ![Target] = job.commit]
                                         => origin'[b] = origin[b]
      BY <1>c
    <3>2. origin' = [origin EXCEPT ![Target] = job.commit] => origin'[Target] = job.commit
      BY <1>c, <2>1
    <3> QED BY <1>u, <2>3, <2>4, <3>1, <3>2
  <2> QED BY <1>u, <2>2, <2>5
<1>8. CASE \/ \E q \in Requests : Start(q)
           \/ ReadBranch \/ ReadRefs \/ Claim \/ Apply \/ RunCommands \/ Commit
           \/ Recheck \/ RecheckBranch \/ Verify \/ VerifyBranch \/ WrongBranch \/ RollbackBranch
           \/ Retire \/ Answered
  <2>1. UNCHANGED repository
    BY <1>8 DEF Start, ReadBranch, ReadRefs, Claim, Apply, RunCommands, Commit, Recheck,
                RecheckBranch, Verify, VerifyBranch, WrongBranch, RollbackBranch, Retire, Answered
  <2> QED BY <1>2, <2>1 DEF repository
<1> QED BY <1>3, <1>4, <1>5, <1>6, <1>7, <1>8 DEF Worker, Reset

LEMMA AlwaysFree == Spec => [](TypeInv /\ CheckoutInv)
<1>1. Init => TypeInv /\ CheckoutInv BY InitTyped, InitFree
<1>2. TypeInv /\ CheckoutInv /\ [Next]_vars => (TypeInv /\ CheckoutInv)' BY StepTyped, StepFree
<1> QED BY <1>1, <1>2, PTL DEF Spec

\* The files of the developer's checkout are those of its branch, whatever the daemon
\* publishes meanwhile: the compare-and-swap is never on the branch checked out.
THEOREM CheckoutLeftAlone == Spec => []FilesFollowBranch
<1>1. TypeInv /\ CheckoutInv => FilesFollowBranch BY DEF CheckoutInv
<1> QED BY <1>1, AlwaysFree, PTL

\* No step of the daemon other than the repair's reset takes a commit of the developer
\* off a branch, here or at the remote, or an edit off the checkout.
THEOREM DevelopersWorkKept == Spec => DeveloperKept
<1>1. ASSUME TypeInv /\ CheckoutInv
      PROVE  [(Worker /\ ~At("reset")) =>
                 /\ \A b \in Branches : KeepsWork(branch[b], branch'[b]) /\ KeepsWork(origin[b], origin'[b])
                 /\ edited => edited']_vars
  BY <1>1, WorkerKeeps
<1> QED BY <1>1, AlwaysFree, PTL DEF DeveloperKept
-----------------------------------------------------------------------------
(***************************************************************************)
(* A request that is run again.  What lands is one change on the base, so  *)
(* a branch that still holds an earlier commit of the request is neither   *)
(* the base that is swapped nor an ancestor that is fast-forwarded.        *)
(***************************************************************************)
Own == {CommitOf(q, n) : q \in Requests, n \in Nat}
LandedOwn == \A x \in landed : x[1] \in Own

LEMMA OneOnBase ==
    ASSUME NEW c \in Own PROVE c \in Commits /\ Len(c) = Len(Base) + 1
<1>1. PICK q \in Requests, n \in Nat : c = CommitOf(q, n) BY DEF Own
<1>2. <<q, n>> \in Changes BY DEF Changes
<1>3. Base \in Seq(Changes) BY BaseIsCommit DEF Commits
<1> HIDE DEF Base, Changes
<1> QED BY <1>1, <1>2, <1>3, AppendProperties DEF CommitOf, Commits

LEMMA EarlierIsGone ==
    ASSUME NEW c \in Own, NEW d \in Own, c # d, NEW b \in Commits,
           b \in {Absent, Base} \/ IsPrefix(b, c)
    PROVE  ~IsPrefix(d, b)
<1>1. /\ c \in Seq(Changes) /\ d \in Seq(Changes) /\ b \in Seq(Changes)
      /\ Len(c) = Len(Base) + 1 /\ Len(d) = Len(Base) + 1
  BY OneOnBase DEF Commits
<1>2. Len(Base) \in Nat /\ Len(b) \in Nat BY BaseIsCommit, LenProperties DEF Commits
<1> SUFFICES ASSUME IsPrefix(d, b) PROVE FALSE OBVIOUS
<1>3. Len(d) <= Len(b) BY DEF IsPrefix
<1>4. b \notin {Absent, Base} BY <1>1, <1>2, <1>3 DEF Absent
<1>5. IsPrefix(b, c) BY <1>4
<1>6. Len(b) = Len(c) BY <1>1, <1>2, <1>3, <1>5 DEF IsPrefix
<1>7. SubSeq(d, 1, Len(c)) = SubSeq(c, 1, Len(c))
  BY <1>1, <1>2, <1>5, <1>6 DEF IsPrefix
<1>8. c = d
  <2>1. \A i \in 1 .. Len(c) : /\ SubSeq(d, 1, Len(c))[i] = d[i]
                               /\ SubSeq(c, 1, Len(c))[i] = c[i]
    BY <1>1, <1>2, SubSeqProperties
  <2>2. \A i \in 1 .. Len(c) : c[i] = d[i] BY <1>7, <2>1
  <2> QED BY <1>1, <2>2, SeqEqual
<1> QED BY <1>8

LEMMA LandsOnBase ==
    ASSUME TypeInv, CheckoutInv, [Next]_vars
    PROVE  \/ UNCHANGED landed
           \/ \E c \in Own, b \in Branches :
                 /\ landed' = landed \cup {<<c, b>>}
                 /\ branch[b] \in {Absent, Base} \/ IsPrefix(branch[b], c)
<1>j. job.at \in Places => job \in Running /\ job.q \in Requests /\ Target \in Branches
  BY JobShape DEF TypeInv, Running, At, Places
<1>c. JobTip /\ JobOwn /\ head \in Branches BY DEF CheckoutInv, TypeInv, TypeOK
<1>o. job.at \in Committed => job.commit \in Own
  BY <1>c, <1>j DEF JobOwn, Committed, Places, Own
<1>1. CASE Publish
  <2>1. job.at = "publish" BY <1>1 DEF Publish, At
  <2>2. job.commit \in Own /\ Target \in Branches /\ job.tip \in {Absent, Base}
    BY <1>c, <1>j, <1>o, <2>1 DEF Committed, Places, JobTip, Swapping
  <2> QED BY <1>1, <2>2 DEF Publish
<1>2. CASE Merge
  <2>1. job.at = "merge" BY <1>2 DEF Merge, At
  <2>2. job.commit \in Own BY <1>o, <2>1 DEF Committed
  <2> QED BY <1>2, <1>c, <2>2 DEF Merge
<1>3. CASE UNCHANGED landed BY <1>3
<1>4. Next /\ ~Publish /\ ~Merge => UNCHANGED landed
  BY DEF Next, Worker, Start, ReadBranch, ReadRefs, Claim, AddWorktree, Apply, RunCommands,
         Commit, Recheck, RecheckBranch, Verify, VerifyBranch, WrongBranch, Rollback,
         RollbackBranch, Reset, Push, Retire, Answered, Crash, Developer, DevEdit, DevCommit,
         DevSwitch, DevMove, RemoteCommit, durable
<1>5. UNCHANGED vars => UNCHANGED landed BY DEF vars, durable
<1> QED BY <1>1, <1>2, <1>3, <1>4, <1>5

\* What lands under an id is of one request, and a request that is run again, because
\* the daemon died before its answer was stored, puts a second commit on a branch only
\* when the first one is gone from it.
THEOREM RetriesResume == Spec => CommitsOnce
<1>1. Init => LandedOwn BY DEF Init, LandedOwn
<1>2. TypeInv /\ CheckoutInv /\ LandedOwn /\ [Next]_vars => LandedOwn'
  <2> SUFFICES ASSUME TypeInv, CheckoutInv, LandedOwn, [Next]_vars, NEW x \in landed'
               PROVE  x[1] \in Own
    BY DEF LandedOwn
  <2>1. CASE x \in landed BY <2>1 DEF LandedOwn
  <2>2. CASE \E c \in Own, b \in Branches : x = <<c, b>> BY <2>2
  <2> QED BY <2>1, <2>2, LandsOnBase
<1>3. TypeInv /\ CheckoutInv /\ LandedOwn /\ OneRequestPerId' /\ [Next]_vars =>
        [\A x \in landed' \ landed, y \in landed :
           IdOf[RequestOf(x[1])] = IdOf[RequestOf(y[1])] =>
             /\ RequestOf(x[1]) = RequestOf(y[1])
             /\ x[2] = y[2] => ~IsPrefix(y[1], branch[x[2]])]_vars
  <2> SUFFICES ASSUME TypeInv, CheckoutInv, LandedOwn, OneRequestPerId', [Next]_vars,
                      NEW x \in landed' \ landed, NEW y \in landed,
                      IdOf[RequestOf(x[1])] = IdOf[RequestOf(y[1])]
               PROVE  /\ RequestOf(x[1]) = RequestOf(y[1])
                      /\ x[2] = y[2] => ~IsPrefix(y[1], branch[x[2]])
    OBVIOUS
  <2>1. PICK c \in Own, b \in Branches :
           /\ landed' = landed \cup {<<c, b>>} /\ x = <<c, b>>
           /\ branch[b] \in {Absent, Base} \/ IsPrefix(branch[b], c)
    BY LandsOnBase
  <2>2. x \in landed' /\ y \in landed' BY <2>1
  <2>3. RequestOf(x[1]) = RequestOf(y[1]) BY <2>2 DEF OneRequestPerId, RequestOf
  <2>4. ASSUME x[2] = y[2] PROVE ~IsPrefix(y[1], branch[x[2]])
    <3>1. y = <<y[1], y[2]>> /\ y[1] \in Own BY DEF LandedOwn, TypeInv, LandedOK
    <3>2. y[1] # c BY <2>1, <2>4, <3>1
    <3>3. branch[b] \in Commits BY DEF TypeInv, TypeOK, Commits
    <3> QED BY <2>1, <3>1, <3>2, <3>3, EarlierIsGone
  <2> QED BY <2>3, <2>4
<1>4. Spec => []LandedOwn BY <1>1, <1>2, AlwaysFree, PTL DEF Spec
<1> QED BY <1>3, <1>4, AlwaysFree, OneRequestLandsPerId, PTL DEF Spec, CommitsOnce
=============================================================================
