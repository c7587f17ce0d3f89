------------------------ MODULE RequestJournal_proofs ------------------------
(***************************************************************************)
(* Theorems about RequestJournal, for every set of requests, contents and  *)
(* daemons: the first part whether or not claim files are replaced and the *)
(* mailbox is exclusive; the outcome of a request and the refinement of    *)
(* RequestLifecycle while claim files are stable; what becomes of the      *)
(* mailbox itself while, besides, one daemon at a time holds its lock.     *)
(***************************************************************************)
EXTENDS RequestJournal, TLAPS

WorkerTypes ==
  /\ claim \in [Requests -> Daemons \cup {None}]
  /\ pc    \in [Daemons -> [Requests -> PCs]]
  /\ raw   \in [Daemons -> [Requests -> Bytes \cup {None}]]
  /\ out   \in [Daemons -> [Requests -> Statuses \cup {None}]]
  /\ demand \in [Daemons -> [Requests -> Payloads \cup {None}]]

\* The three ways in which a worker step moves its own variables.
LEMMA GotoTypes ==
  ASSUME WorkerTypes, NEW d \in Daemons, NEW r \in Requests, NEW label \in PCs,
         Goto(d, r, label)
  PROVE  pc' \in [Daemons -> [Requests -> PCs]]
BY DEF WorkerTypes, Goto

LEMMA RecordTypes ==
  ASSUME WorkerTypes, NEW d \in Daemons, NEW r \in Requests, NEW status \in Statuses,
         NEW label \in PCs, Record(d, r, status, label)
  PROVE  /\ pc' \in [Daemons -> [Requests -> PCs]]
         /\ out' \in [Daemons -> [Requests -> Statuses \cup {None}]]
BY DEF WorkerTypes, Goto, Record

LEMMA EndWorkerTypes ==
  ASSUME WorkerTypes, NEW d \in Daemons, NEW r \in Requests, EndWorker(d, r)
  PROVE  WorkerTypes'
<1>1. "idle" \in PCs  BY DEF PCs
<1>2. pc' \in [Daemons -> [Requests -> PCs]]  BY <1>1 DEF WorkerTypes, EndWorker
<1>3. raw' \in [Daemons -> [Requests -> Bytes \cup {None}]]  BY DEF WorkerTypes, EndWorker
<1>4. out' \in [Daemons -> [Requests -> Statuses \cup {None}]]  BY DEF WorkerTypes, EndWorker
<1>5. claim' \in [Requests -> Daemons \cup {None}]  BY DEF WorkerTypes, EndWorker
<1>6. demand' \in [Daemons -> [Requests -> Payloads \cup {None}]]
  BY DEF WorkerTypes, EndWorker
<1>. QED  BY <1>2, <1>3, <1>4, <1>5, <1>6 DEF WorkerTypes

\* Past its claim a worker knows the bytes it works on; before it writes a
\* result it knows the status.
WorkerKnows ==
  \A d \in Daemons, r \in Requests :
    /\ pc[d][r] \notin {"idle", "fetch"} => raw[d][r] \in Bytes
    /\ pc[d][r] \in {"ended", "persist", "finish"} => out[d][r] \in Statuses

LEMMA Labels ==
  /\ PCs = {"idle", "fetch", "claim", "inspect", "admit", "plan", "await", "start",
            "spawn", "spawned", "running", "ended", "persist", "finish", "upload",
            "refuse", "delete"}
  /\ Statuses = {"completed", "rejected", "indeterminate"}
BY DEF PCs, Statuses

LEMMA UploadedType ==
  ASSUME TypeOK, WorkerKnows, NEW d \in Daemons, NEW r \in Requests, Uploading(d, r)
  PROVE  Uploaded(d, r) \in Result \cup {None}
<1>1. raw[d][r] \in Bytes  BY DEF Uploading, At, WorkerKnows
<1>2. Refusal(d, r) \in Result  BY <1>1 DEF Refusal, Result, Statuses
<1>. QED  BY <1>2 DEF Uploaded, TypeOK

LEMMA TypeInit == Init => TypeOK
BY ConstantsAssumption DEF Init, TypeOK, PCs, Phases

\* No step of a worker, of a daemon or of the environment leaves the types.
LEMMA TypeStep ==
  ASSUME TypeOK, WorkerKnows, [Next]_vars
  PROVE  TypeOK'
<1>0. WorkerTypes  BY DEF TypeOK, WorkerTypes
<1> USE DEF mailboxVars, journalVars, approvalVars, childVars, daemonVars, workerVars
<1>1. ASSUME NEW d \in Daemons, NEW r \in Requests, WorkerStep(d, r)
      PROVE  TypeOK'
  <2>1. CASE Fetch(d, r)
    BY <1>0, <2>1, Labels, GotoTypes DEF Fetch, TypeOK, WorkerTypes
  <2>2. CASE Claim(d, r)
    <3>1. CASE claim[r] = None \/ ~StableClaims
      <4>1. Goto(d, r, "inspect") /\ claim' = [claim EXCEPT ![r] = d]
            /\ UNCHANGED <<raw, out, demand>>
        BY <2>2, <3>1 DEF Claim
      <4>2. pc' \in [Daemons -> [Requests -> PCs]]  BY <1>0, <4>1, GotoTypes, Labels
      <4>3. claim' \in [Requests -> Daemons \cup {None}]  BY <4>1 DEF TypeOK
      <4>. QED  BY <2>2, <4>1, <4>2, <4>3 DEF Claim, TypeOK
    <3>2. CASE ~(claim[r] = None \/ ~StableClaims)
      <4>1. EndWorker(d, r)  BY <2>2, <3>2 DEF Claim
      <4>2. WorkerTypes'  BY <1>0, <4>1, EndWorkerTypes
      <4>. QED  BY <2>2, <4>2 DEF Claim, TypeOK, WorkerTypes
    <3>. QED  BY <3>1, <3>2
  <2>3. CASE Inspect(d, r)
    BY <1>0, <2>3, Labels, RecordTypes, GotoTypes DEF Inspect, Contain, PriorSha, TypeOK,
       WorkerTypes
  <2>4. CASE Admit(d, r)
    BY <1>0, <2>4, Labels, GotoTypes DEF Admit, TypeOK, WorkerTypes
  <2>5. CASE Plan(d, r)
    <3>1. PICK v \in Verdicts[raw[d][r]] :
            \/ v = "reject" /\ Record(d, r, "rejected", "persist") /\ UNCHANGED pending
            \/ v = "run" /\ Goto(d, r, "start") /\ UNCHANGED <<out, pending>>
            \/ v \in Payloads /\ Ask(d, r, v)
      BY <2>5 DEF Plan
    <3>2. \/ Record(d, r, "rejected", "persist")
          \/ Goto(d, r, "start") /\ UNCHANGED out
          \/ Goto(d, r, "await") /\ UNCHANGED out
      BY <3>1 DEF Ask
    <3>3. /\ pc' \in [Daemons -> [Requests -> PCs]]
          /\ out' \in [Daemons -> [Requests -> Statuses \cup {None}]]
      BY <1>0, <3>2, GotoTypes, RecordTypes, Labels DEF WorkerTypes
    <3>4. pending' \in [Requests -> Pending \cup {None}]
      <4>1. CASE UNCHANGED pending  BY <4>1 DEF TypeOK
      <4>2. CASE v \in Payloads /\ Ask(d, r, v)
        <5>1. [payload |-> v, expired |-> FALSE] \in Pending  BY <4>2 DEF Pending
        <5>. QED  BY <4>2, <5>1 DEF Ask, TypeOK
      <4>. QED  BY <3>1, <4>1, <4>2
    <3>5. demand' \in [Daemons -> [Requests -> Payloads \cup {None}]]
      BY <2>5 DEF Plan, TypeOK
    <3>. QED  BY <2>5, <3>3, <3>4, <3>5 DEF Plan, TypeOK
  <2>6. CASE Await(d, r)
    BY <1>0, <2>6, Labels, RecordTypes, GotoTypes DEF Await, TypeOK, WorkerTypes
  <2>7. CASE Start(d, r)
    <3>1. \/ Goto(d, r, "spawn") /\ UNCHANGED <<raw, out, demand, claim>>
          \/ EndWorker(d, r)
      BY <2>7 DEF Start
    <3>2. WorkerTypes'
      <4>1. CASE Goto(d, r, "spawn") /\ UNCHANGED <<raw, out, demand, claim>>
        BY <1>0, <4>1, GotoTypes, Labels DEF WorkerTypes
      <4>. QED  BY <1>0, <3>1, <4>1, EndWorkerTypes
    <3>3. raw[d][r] \in Bytes  BY <2>7 DEF Start, At, WorkerKnows
    <3>4. started' \in [Requests -> Bytes \cup {None}]  BY <2>7, <3>3 DEF Start, TypeOK
    <3>. QED  BY <2>7, <3>2, <3>4 DEF Start, TypeOK, WorkerTypes
  <2>8. CASE Spawn(d, r)
    <3>1. CASE Record(d, r, "indeterminate", "ended") /\ UNCHANGED childVars
      <4>1. /\ pc' \in [Daemons -> [Requests -> PCs]]
            /\ out' \in [Daemons -> [Requests -> Statuses \cup {None}]]
        BY <1>0, <3>1, RecordTypes, Labels
      <4>. QED  BY <2>8, <3>1, <4>1 DEF Spawn, TypeOK
    <3>2. CASE /\ runs'  = [runs EXCEPT ![r] = @ + 1]
               /\ child' = [child EXCEPT ![r] = "running"]
               /\ Goto(d, r, "spawned") /\ UNCHANGED out
      <4>1. pc' \in [Daemons -> [Requests -> PCs]]  BY <1>0, <3>2, GotoTypes, Labels
      <4>2. runs' \in [Requests -> Nat]  BY <3>2 DEF TypeOK
      <4>. QED  BY <2>8, <3>2, <4>1, <4>2 DEF Spawn, TypeOK
    <3>. QED  BY <2>8, <3>1, <3>2 DEF Spawn
  <2>9. CASE RecordSpawn(d, r)
    BY <1>0, <2>9, Labels, RecordTypes, GotoTypes DEF RecordSpawn, TypeOK, WorkerTypes
  <2>10. CASE ChildGone(d, r)
    BY <1>0, <2>10, Labels, RecordTypes DEF ChildGone, TypeOK, WorkerTypes
  <2>18. CASE RunRaises(d, r)
    BY <1>0, <2>18, Labels, RecordTypes DEF RunRaises, TypeOK, WorkerTypes
  <2>11. CASE Deadline(d, r)
    BY <1>0, <2>11, Labels, RecordTypes DEF Deadline, TypeOK, WorkerTypes
  <2>12. CASE Abort(d, r)
    BY <1>0, <2>12, Labels, RecordTypes DEF Abort, TypeOK, WorkerTypes
  <2>13. CASE Ended(d, r)
    BY <1>0, <2>13, Labels, GotoTypes DEF Ended, TypeOK, WorkerTypes
  <2>14. CASE Persist(d, r)
    <3>1. raw[d][r] \in Bytes /\ out[d][r] \in Statuses
      BY <2>14 DEF WorkerKnows, Persist, At
    <3>2. Journalled(d, r) \in Result  BY <3>1 DEF Journalled, Result
    <3>3. result' \in [Requests -> Result \cup {None}]  BY <2>14, <3>2 DEF Persist, TypeOK
    <3>4. pc' \in [Daemons -> [Requests -> PCs]]  BY <1>0, <2>14, GotoTypes, Labels DEF Persist
    <3>. QED  BY <2>14, <3>3, <3>4 DEF Persist, TypeOK
  <2>15. CASE Finish(d, r)
    BY <1>0, <2>15, Labels, GotoTypes DEF Finish, TypeOK, WorkerTypes
  <2>16. CASE Upload(d, r)
    <3>1. Uploaded(d, r) \in Result \cup {None}  BY <2>16, UploadedType DEF Upload
    <3>2. answer' \in [Requests -> Result \cup {None}]  BY <2>16, <3>1 DEF Upload, TypeOK
    <3>3. pc' \in [Daemons -> [Requests -> PCs]]  BY <1>0, <2>16, GotoTypes, Labels DEF Upload
    <3>. QED  BY <2>16, <3>2, <3>3 DEF Upload, TypeOK
  <2>17. CASE Delete(d, r)
    BY <1>0, <2>17, Labels, EndWorkerTypes DEF Delete, TypeOK, WorkerTypes
  <2>. QED
    BY <1>1, <2>1, <2>2, <2>3, <2>4, <2>5, <2>6, <2>7, <2>8, <2>9,
       <2>10, <2>11, <2>12, <2>13, <2>14, <2>15, <2>16, <2>17, <2>18 DEF WorkerStep
<1>2. ASSUME NEW d \in Daemons, NEW r \in Requests, WorkerFault(d, r)
      PROVE  TypeOK'
  <2>1. CASE IoError(d, r)  BY <1>0, <2>1, EndWorkerTypes DEF IoError, TypeOK, WorkerTypes
  <2>2. CASE TransportError(d, r)
    <3>1. WorkerTypes'  BY <1>0, <2>2, EndWorkerTypes DEF TransportError
    <3>2. CASE Uploading(d, r) /\ UNCHANGED mailbox
               /\ answer' \in {answer, [answer EXCEPT ![r] = Uploaded(d, r)]}
      <4>1. Uploaded(d, r) \in Result \cup {None}  BY <3>2, UploadedType
      <4>2. answer' \in [Requests -> Result \cup {None}]  BY <3>2, <4>1 DEF TypeOK
      <4>. QED  BY <2>2, <3>1, <3>2, <4>2 DEF TransportError, TypeOK, WorkerTypes
    <3>3. CASE UNCHANGED answer /\ mailbox' \in {mailbox, [mailbox EXCEPT ![r] = None]}
      <4>1. mailbox' \in [Requests -> Bytes \cup {None}]  BY <3>3 DEF TypeOK
      <4>. QED  BY <2>2, <3>1, <3>3, <4>1 DEF TransportError, TypeOK, WorkerTypes
    <3>. QED  BY <2>2, <3>2, <3>3 DEF TransportError
  <2>. QED  BY <1>2, <2>1, <2>2 DEF WorkerFault
<1>3. ASSUME NEW d \in Daemons, DaemonStep(d)
      PROVE  TypeOK'
  <2>1. CASE Boot(d)  BY <1>0, <2>1, Labels DEF Boot, Phases, TypeOK, WorkerTypes
  <2>2. CASE EnterLoop(d)  BY <1>0, <2>2, Labels DEF EnterLoop, Phases, TypeOK, WorkerTypes
  <2>3. CASE Shutdown(d)  BY <1>0, <2>3, Labels DEF Shutdown, Registered, Phases, TypeOK,
     WorkerTypes
  <2>4. CASE LeaveLoop(d)  BY <1>0, <2>4, Labels DEF LeaveLoop, Registered, Phases, TypeOK,
     WorkerTypes
  <2>5. CASE LoseLock(d)  BY <1>0, <2>5, Labels DEF LoseLock, Phases, TypeOK, WorkerTypes
  <2>6. CASE Exit(d)  BY <1>0, <2>6, Labels DEF Exit, Phases, TypeOK, WorkerTypes
  <2>7. CASE Crash(d)  BY <1>0, <2>7, Labels DEF Crash, Phases, TypeOK, WorkerTypes
  <2>8. ASSUME NEW r \in Requests, Sweep(d, r) PROVE TypeOK'
    <3>1. todo' \in [Daemons -> SUBSET Requests]  BY <2>8 DEF Sweep, TypeOK
    <3>2. /\ child' \in [Requests -> {"none", "running", "exited", "killed"}]
          /\ active' \in [Requests -> BOOLEAN]
      BY <2>8 DEF Sweep, Contain, TypeOK
    <3>. QED  BY <2>8, <3>1, <3>2 DEF Sweep, TypeOK
  <2>9. ASSUME NEW r \in Requests, Dispatch(d, r) PROVE TypeOK'
    <3>1. pc' \in [Daemons -> [Requests -> PCs]]
      BY <1>0, <2>9, GotoTypes, Labels DEF Dispatch
    <3>2. CASE phase[d] = "up"
      BY <2>9, <3>1, <3>2 DEF Dispatch, TypeOK
    <3>3. CASE phase[d] # "up"
      <4>1. /\ phase' = [phase EXCEPT ![d] = "draining"]
            /\ todo'  = [todo EXCEPT ![d] = Registered(d)]
        BY <2>9, <3>3 DEF Dispatch
      <4>2. phase' \in [Daemons -> Phases]  BY <4>1 DEF TypeOK, Phases
      <4>3. Registered(d) \subseteq Requests  BY DEF Registered
      <4>4. todo' \in [Daemons -> SUBSET Requests]  BY <4>1, <4>3 DEF TypeOK
      <4>. QED  BY <2>9, <3>1, <4>2, <4>4 DEF Dispatch, TypeOK
    <3>. QED  BY <3>2, <3>3
  <2>10. ASSUME NEW r \in Requests, Signal(d, r) PROVE TypeOK'
    BY <1>0, <2>10 DEF Signal, TypeOK, WorkerTypes
  <2>. QED
    BY <1>0, <1>3, <2>1, <2>2, <2>3, <2>4, <2>5, <2>6, <2>7, <2>8, <2>9,
       <2>10 DEF DaemonStep, TypeOK, WorkerTypes
<1>4. ASSUME NEW r \in Requests, NEW b \in Bytes, Submit(r, b) PROVE TypeOK'
  BY <1>0, <1>4 DEF Submit, TypeOK, WorkerTypes
<1>5. ASSUME NEW r \in Requests, NEW c \in {"allow", "cancel"}, Decide(r, c)
      PROVE  TypeOK'
  <2>1. pending[r] \in Pending  BY <1>5 DEF Decide, TypeOK
  <2>2. pending[r].payload \in Payloads  BY <2>1 DEF Pending
  <2>3. [choice |-> c, payload |-> pending[r].payload] \in Decision  BY <2>2 DEF Decision
  <2>4. /\ decision' \in [Requests -> Decision \cup {None}]
        /\ clicks' \in [Requests -> Nat] /\ grants' \in [Requests -> SUBSET Payloads]
    BY <1>5, <2>2, <2>3 DEF Decide, TypeOK
  <2>. QED  BY <1>0, <1>5, <2>4 DEF Decide, TypeOK, WorkerTypes
<1>6. ASSUME NEW r \in Requests, Expire(r) PROVE TypeOK'
  <2>1. pending[r] \in Pending  BY <1>6 DEF Expire, TypeOK
  <2>2. [pending[r] EXCEPT !.expired = TRUE] \in Pending  BY <2>1 DEF Pending
  <2>3. pending' = [pending EXCEPT ![r] = [pending[r] EXCEPT !.expired = TRUE]]
    BY <1>6 DEF Expire
  <2>4. pending' \in [Requests -> Pending \cup {None}]  BY <2>2, <2>3 DEF TypeOK
  <2>. QED  BY <1>6, <2>4 DEF Expire, TypeOK
<1>7. ASSUME NEW r \in Requests, ChildExits(r) PROVE TypeOK'
  BY <1>0, <1>7 DEF ChildExits, TypeOK, WorkerTypes
<1>8. CASE UNCHANGED vars
  BY <1>0, <1>8 DEF vars, TypeOK, WorkerTypes
<1>. QED
  BY <1>0, <1>1, <1>2, <1>3, <1>4, <1>5, <1>6, <1>7, <1>8 DEF Next, Environment, TypeOK,
     WorkerTypes

-----------------------------------------------------------------------------
(***************************************************************************)
(* WorkerKnows is preserved: a worker learns its bytes from Fetch, keeps   *)
(* them until its thread ends, and records a status before it persists.    *)
(***************************************************************************)
LEMMA KnowsGoto ==
  ASSUME TypeOK, WorkerKnows, NEW d \in Daemons, NEW r \in Requests,
         NEW label \in PCs, Goto(d, r, label), UNCHANGED <<raw, out>>,
         raw[d][r] \in Bytes,
         label \in {"ended", "persist", "finish"} => out[d][r] \in Statuses
  PROVE  WorkerKnows'
BY DEF TypeOK, WorkerKnows, Goto

LEMMA KnowsRecord ==
  ASSUME TypeOK, WorkerKnows, NEW d \in Daemons, NEW r \in Requests,
         NEW status \in Statuses, NEW label \in PCs, Record(d, r, status, label),
         UNCHANGED raw, raw[d][r] \in Bytes
  PROVE  WorkerKnows'
BY DEF TypeOK, WorkerKnows, Goto, Record

LEMMA KnowsEnd ==
  ASSUME TypeOK, WorkerKnows, NEW d \in Daemons, NEW r \in Requests, EndWorker(d, r)
  PROVE  WorkerKnows'
BY DEF TypeOK, WorkerKnows, EndWorker

LEMMA KnowsStep ==
  ASSUME TypeOK, WorkerKnows, [Next]_vars
  PROVE  WorkerKnows'
<1> USE DEF workerVars
<1>1. ASSUME NEW d \in Daemons, NEW r \in Requests, WorkerStep(d, r)
      PROVE  WorkerKnows'
  <2>1. CASE Fetch(d, r)
    <3>1. mailbox[r] \in Bytes  BY <2>1 DEF Fetch, TypeOK
    <3>2. /\ raw' = [raw EXCEPT ![d][r] = mailbox[r]]
          /\ pc' = [pc EXCEPT ![d][r] = "claim"]
          /\ out' = out
      BY <2>1 DEF Fetch, Goto
    <3>. QED  BY <3>1, <3>2 DEF TypeOK, WorkerKnows
  <2>2. ASSUME pc[d][r] \notin {"idle", "fetch"}  PROVE raw[d][r] \in Bytes
    BY <2>2 DEF WorkerKnows
  <2>3. CASE Claim(d, r)
    <3>1. \/ Goto(d, r, "inspect") /\ UNCHANGED <<raw, out>>
          \/ EndWorker(d, r)
      BY <2>3 DEF Claim
    <3>2. raw[d][r] \in Bytes  BY <2>2, <2>3 DEF Claim, At
    <3>. QED  BY <3>1, <3>2, KnowsGoto, KnowsEnd, Labels
  <2>4. CASE Inspect(d, r)
    <3>1. \/ \E label \in {"refuse", "upload", "admit"} :
               Goto(d, r, label) /\ UNCHANGED <<raw, out>>
          \/ Record(d, r, "indeterminate", "persist") /\ UNCHANGED raw
      BY <2>4 DEF Inspect
    <3>2. raw[d][r] \in Bytes  BY <2>2, <2>4 DEF Inspect, At
    <3>. QED  BY <3>1, <3>2, KnowsGoto, KnowsRecord, Labels
  <2>5. CASE Plan(d, r) \/ Await(d, r)
    <3>1. \/ \E label \in {"await", "start"} :
               Goto(d, r, label) /\ UNCHANGED <<raw, out>>
          \/ Record(d, r, "rejected", "persist") /\ UNCHANGED raw
      BY <2>5 DEF Plan, Ask, Await
    <3>2. raw[d][r] \in Bytes  BY <2>2, <2>5 DEF Plan, Await, At
    <3>. QED  BY <3>1, <3>2, KnowsGoto, KnowsRecord, Labels
  <2>6. CASE Start(d, r)
    <3>1. \/ Goto(d, r, "spawn") /\ UNCHANGED <<raw, out>>
          \/ EndWorker(d, r)
      BY <2>6 DEF Start
    <3>2. raw[d][r] \in Bytes  BY <2>2, <2>6 DEF Start, At
    <3>. QED  BY <3>1, <3>2, KnowsGoto, KnowsEnd, Labels
  <2>7. CASE Spawn(d, r) \/ RecordSpawn(d, r)
    <3>1. \/ \E label \in {"spawned", "running"} :
               Goto(d, r, label) /\ UNCHANGED <<raw, out>>
          \/ Record(d, r, "indeterminate", "ended") /\ UNCHANGED raw
      BY <2>7 DEF Spawn, RecordSpawn
    <3>2. raw[d][r] \in Bytes  BY <2>2, <2>7 DEF Spawn, RecordSpawn, At
    <3>. QED  BY <3>1, <3>2, KnowsGoto, KnowsRecord, Labels
  <2>8. CASE RunRaises(d, r) \/ ChildGone(d, r) \/ Deadline(d, r) \/ Abort(d, r)
    <3>1. \E status \in {"completed", "indeterminate"} :
            Record(d, r, status, "ended") /\ UNCHANGED raw
      BY <2>8 DEF RunRaises, ChildGone, Deadline, Abort
    <3>2. raw[d][r] \in Bytes  BY <2>2, <2>8 DEF RunRaises, ChildGone, Deadline, Abort, At
    <3>. QED  BY <3>1, <3>2, KnowsRecord, Labels
  <2>9. CASE Ended(d, r) \/ Persist(d, r)
    <3>1. \E label \in {"persist", "finish"} :
            Goto(d, r, label) /\ UNCHANGED <<raw, out>>
      BY <2>9 DEF Ended, Persist
    <3>2. out[d][r] \in Statuses /\ raw[d][r] \in Bytes
      BY <2>9 DEF WorkerKnows, Ended, Persist, At
    <3>. QED  BY <3>1, <3>2, KnowsGoto, Labels
  <2>10. CASE Admit(d, r) \/ Finish(d, r) \/ Upload(d, r)
    <3>1. \E label \in {"plan", "upload", "delete"} :
            Goto(d, r, label) /\ UNCHANGED <<raw, out>>
      BY <2>10 DEF Admit, Finish, Upload
    <3>2. raw[d][r] \in Bytes  BY <2>2, <2>10 DEF Admit, Finish, Upload, Uploading, At
    <3>. QED  BY <3>1, <3>2, KnowsGoto, Labels
  <2>11. CASE Delete(d, r)  BY <2>11, KnowsEnd DEF Delete
  <2>. QED  BY <1>1, <2>1, <2>3, <2>4, <2>5, <2>6, <2>7, <2>8, <2>9, <2>10, <2>11
            DEF WorkerStep
<1>2. ASSUME NEW d \in Daemons, NEW r \in Requests, WorkerFault(d, r)
      PROVE  WorkerKnows'
  BY <1>2, KnowsEnd DEF WorkerFault, IoError, TransportError
<1>3. ASSUME NEW d \in Daemons, DaemonStep(d)
      PROVE  WorkerKnows'
  <2>1. CASE Crash(d)  BY <2>1 DEF Crash, TypeOK, WorkerKnows
  <2>2. ASSUME NEW r \in Requests, Dispatch(d, r)  PROVE WorkerKnows'
    <3>1. pc' = [pc EXCEPT ![d][r] = "fetch"] /\ UNCHANGED <<raw, out>>
      BY <2>2 DEF Dispatch, Goto
    <3>. QED  BY <3>1 DEF TypeOK, WorkerKnows
  <2>3. CASE UNCHANGED workerVars  BY <2>3 DEF WorkerKnows
  <2>4. ASSUME NEW r \in Requests, Sweep(d, r) \/ Signal(d, r)  PROVE WorkerKnows'
    BY <2>3, <2>4 DEF Sweep, Signal
  <2>. QED  BY <1>3, <2>1, <2>2, <2>3, <2>4 DEF DaemonStep, Boot, EnterLoop,
              Shutdown, LeaveLoop, LoseLock, Exit
<1>4. CASE Environment
  BY <1>4 DEF Environment, Submit, Decide, Expire, ChildExits, WorkerKnows
<1>5. CASE UNCHANGED vars  BY <1>5 DEF vars, WorkerKnows
<1>. QED  BY <1>1, <1>2, <1>3, <1>4, <1>5 DEF Next

TypeInv == TypeOK /\ WorkerKnows

LEMMA TypeInvariant == Spec => []TypeInv
<1>1. Init => TypeInv  BY TypeInit DEF TypeInv, Init, WorkerKnows
<1>2. TypeInv /\ [Next]_vars => TypeInv'  BY TypeStep, KnowsStep DEF TypeInv
<1>. QED  BY <1>1, <1>2, PTL DEF Spec

\* Type correctness of the journal, the mailbox, the approvals and the daemons:
\* in particular a result that is written always has a status and the SHA of
\* bytes somebody fetched.
THEOREM TypeCorrect == Spec => []TypeOK
<1>1. TypeInv => TypeOK  BY DEF TypeInv
<1>. QED  BY <1>1, TypeInvariant, PTL

-----------------------------------------------------------------------------
(***************************************************************************)
(* At most one execution.  Only Start and Spawn matter: Start creates the  *)
(* marker for one worker, Spawn uses that worker's right up.               *)
(***************************************************************************)
ExecInv ==
  \A r \in Requests :
    /\ runs[r] <= 1
    /\ runs[r] = 1 => started[r] # None
    /\ \A d \in Daemons : pc[d][r] = "spawn" => started[r] # None /\ runs[r] = 0
    /\ \A d, e \in Daemons : pc[d][r] = "spawn" /\ pc[e][r] = "spawn" => d = e

\* A step that starts nothing: no marker, no shell, no worker about to spawn.
Quiet ==
  /\ UNCHANGED <<started, runs>>
  /\ \A d \in Daemons, r \in Requests : pc'[d][r] = "spawn" => pc[d][r] = "spawn"

LEMMA QuietGoto ==
  ASSUME TypeOK, NEW d \in Daemons, NEW r \in Requests, NEW label \in PCs,
         label # "spawn", Goto(d, r, label), UNCHANGED <<started, runs>>
  PROVE  Quiet
BY DEF TypeOK, Quiet, Goto

LEMMA QuietEnd ==
  ASSUME TypeOK, NEW d \in Daemons, NEW r \in Requests, EndWorker(d, r),
         UNCHANGED <<started, runs>>
  PROVE  Quiet
BY DEF TypeOK, Quiet, EndWorker

\* Every step other than Start and Spawn is quiet.
LEMMA OnlyStartAndSpawn ==
  ASSUME TypeOK, [Next]_vars,
         ~ \E d \in Daemons, r \in Requests : Start(d, r) \/ Spawn(d, r)
  PROVE  Quiet
<1> USE DEF journalVars, childVars, workerVars
<1>1. ASSUME NEW d \in Daemons, NEW r \in Requests, WorkerStep(d, r)
      PROVE  Quiet
  <2>1. UNCHANGED <<started, runs>>
    BY <1>1 DEF WorkerStep, Fetch, Claim, Inspect, Admit, Plan, Await, RecordSpawn,
       RunRaises, ChildGone, Deadline, Abort, Ended, Persist, Finish, Upload, Delete
  <2>2. CASE \E label \in PCs : label # "spawn" /\ Goto(d, r, label)
    BY <2>1, <2>2, QuietGoto
  <2>3. CASE EndWorker(d, r)  BY <2>1, <2>3, QuietEnd
  <2>4. CASE Fetch(d, r) \/ Claim(d, r) \/ Inspect(d, r) \/ Admit(d, r)
    BY <2>2, <2>3, <2>4, Labels DEF Fetch, Claim, Inspect, Admit, Record
  <2>5. CASE Plan(d, r) \/ Await(d, r) \/ RecordSpawn(d, r)
    BY <2>2, <2>5, Labels DEF Plan, Ask, Await, RecordSpawn, Record
  <2>6. CASE RunRaises(d, r) \/ ChildGone(d, r) \/ Deadline(d, r) \/ Abort(d, r)
             \/ Ended(d, r)
    BY <2>2, <2>6, Labels DEF RunRaises, ChildGone, Deadline, Abort, Ended, Record
  <2>7. CASE Persist(d, r) \/ Finish(d, r) \/ Upload(d, r) \/ Delete(d, r)
    BY <2>2, <2>3, <2>7, Labels DEF Persist, Finish, Upload, Delete
  <2>. QED  BY <1>1, <2>4, <2>5, <2>6, <2>7 DEF WorkerStep
<1>2. ASSUME NEW d \in Daemons, NEW r \in Requests, WorkerFault(d, r)
      PROVE  Quiet
  BY <1>2, QuietEnd DEF WorkerFault, IoError, TransportError
<1>3. ASSUME NEW d \in Daemons, DaemonStep(d)
      PROVE  Quiet
  <2>1. CASE Crash(d)  BY <2>1 DEF Crash, TypeOK, Quiet
  <2>2. ASSUME NEW r \in Requests, Dispatch(d, r)  PROVE Quiet
    BY <2>2, QuietGoto, Labels DEF Dispatch
  <2>3. CASE UNCHANGED <<pc, started, runs>>  BY <2>3 DEF Quiet
  <2>4. ASSUME NEW r \in Requests, Sweep(d, r) \/ Signal(d, r)  PROVE Quiet
    BY <2>3, <2>4 DEF Sweep, Signal
  <2>. QED  BY <1>3, <2>1, <2>2, <2>3, <2>4 DEF DaemonStep, Boot, EnterLoop,
              Shutdown, LeaveLoop, LoseLock, Exit
<1>4. CASE Environment
  BY <1>4 DEF Environment, Submit, Decide, Expire, ChildExits, Quiet
<1>5. CASE UNCHANGED vars  BY <1>5 DEF vars, Quiet
<1>. QED  BY <1>1, <1>2, <1>3, <1>4, <1>5 DEF Next

LEMMA ExecStep ==
  ASSUME TypeInv, ExecInv, [Next]_vars
  PROVE  ExecInv'
<1>0. TypeOK  BY DEF TypeInv
<1>1. ASSUME NEW d \in Daemons, NEW r \in Requests, Start(d, r)
      PROVE  ExecInv'
  <2>1. CASE started[r] = None
    <3>1. raw[d][r] \in Bytes  BY <1>1 DEF Start, At, TypeInv, WorkerKnows
    <3>2. raw[d][r] # None  BY <3>1, ConstantsAssumption
    <3>3. started' = [started EXCEPT ![r] = raw[d][r]] /\ UNCHANGED runs
      BY <1>1, <2>1 DEF Start, childVars
    <3>4. runs[r] = 0
      <4>1. runs[r] \in Nat  BY <1>0 DEF TypeOK
      <4>2. runs[r] <= 1 /\ runs[r] # 1  BY <2>1 DEF ExecInv
      <4>. QED  BY <4>1, <4>2
    <3>5. \A e \in Daemons : pc[e][r] # "spawn"  BY <2>1 DEF ExecInv
    <3>6. \/ pc' = [pc EXCEPT ![d][r] = "spawn"]
          \/ pc' = [pc EXCEPT ![d][r] = "idle"]
      BY <1>1, <2>1 DEF Start, Goto, EndWorker
    <3>7. \A q \in Requests, e \in Daemons :
            pc'[e][q] = "spawn" => (pc[e][q] = "spawn" \/ (e = d /\ q = r))
      BY <1>0, <3>6 DEF TypeOK
    <3>8. ASSUME NEW q \in Requests, q # r
          PROVE  /\ runs'[q] = runs[q] /\ started'[q] = started[q]
                 /\ \A e \in Daemons : pc'[e][q] = "spawn" => pc[e][q] = "spawn"
      BY <1>0, <3>3, <3>7, <3>8 DEF TypeOK
    <3>9. /\ runs'[r] = 0 /\ started'[r] # None
          /\ \A e \in Daemons : pc'[e][r] = "spawn" => e = d
      BY <1>0, <3>2, <3>3, <3>4, <3>5, <3>7 DEF TypeOK
    <3>. QED  BY <3>8, <3>9 DEF ExecInv
  <2>2. CASE started[r] # None
    <3>1. EndWorker(d, r) /\ UNCHANGED <<started, runs>>
      BY <1>1, <2>2 DEF Start, childVars
    <3>2. Quiet  BY <1>0, <3>1, QuietEnd
    <3>. QED  BY <3>2 DEF ExecInv, Quiet
  <2>. QED  BY <2>1, <2>2
<1>2. ASSUME NEW d \in Daemons, NEW r \in Requests, Spawn(d, r)
      PROVE  ExecInv'
  <2>1. started[r] # None /\ runs[r] = 0  BY <1>2 DEF Spawn, At, ExecInv
  <2>2. UNCHANGED started  BY <1>2 DEF Spawn, journalVars
  <2>3. CASE Goto(d, r, "spawned") /\ runs' = [runs EXCEPT ![r] = @ + 1]
    <3>1. pc' = [pc EXCEPT ![d][r] = "spawned"]  BY <2>3 DEF Goto
    <3>2. \A e \in Daemons : pc'[e][r] # "spawn"
      BY <1>0, <1>2, <3>1 DEF ExecInv, TypeOK, Spawn, At
    <3>. QED  BY <1>0, <2>1, <2>2, <2>3, <3>1, <3>2 DEF ExecInv, TypeOK
  <2>4. CASE Goto(d, r, "ended") /\ UNCHANGED runs
    BY <1>0, <2>2, <2>4, QuietGoto, Labels DEF Quiet, ExecInv
  <2>. QED  BY <1>2, <2>3, <2>4 DEF Spawn, Record, childVars
<1>3. CASE ~ \E d \in Daemons, r \in Requests : Start(d, r) \/ Spawn(d, r)
  BY <1>0, <1>3, OnlyStartAndSpawn DEF Quiet, ExecInv
<1>. QED  BY <1>1, <1>2, <1>3

LEMMA ExecInvariant == Spec => []ExecInv
<1>1. Init => ExecInv  BY DEF Init, ExecInv
<1>2. TypeInv /\ ExecInv /\ [Next]_vars => ExecInv'  BY ExecStep
<1>. QED  BY <1>1, <1>2, TypeInvariant, PTL DEF Spec

\* No request is executed twice, for any number of overlapping daemons, stale
\* or replaced claims, crashes and retries: link(2) on started.json decides.
THEOREM RunsAtMostOnce == Spec => []AtMostOnce
<1>1. ExecInv => AtMostOnce  BY DEF ExecInv, AtMostOnce
<1>. QED  BY <1>1, ExecInvariant, PTL

-----------------------------------------------------------------------------
(***************************************************************************)
(* active.json, the only record of a process group.  The worker that made  *)
(* started.json is the only one that ever executes the request, so nobody  *)
(* else spawns a group, and it drops the record of a group that still runs *)
(* only when it is about to report "indeterminate".                        *)
(***************************************************************************)
Executing == {"spawn", "spawned", "running", "ended"}

GroupInv ==
  \A r \in Requests :
    /\ \A d \in Daemons :
         /\ pc[d][r] \in Executing => started[r] # None
         /\ pc[d][r] = "ended" /\ child[r] = "running" => out[d][r] = "indeterminate"
    /\ \A d, e \in Daemons : pc[d][r] \in Executing /\ pc[e][r] \in Executing => d = e

\* A step that starts, spawns and executes nothing new.
Tame ==
  /\ UNCHANGED started
  /\ \A r \in Requests :
       /\ child'[r] = "running" => child[r] = "running"
       /\ \A d \in Daemons : pc'[d][r] \in Executing =>
            pc'[d][r] = pc[d][r] /\ out'[d][r] = out[d][r]

LEMMA TameInv == GroupInv /\ Tame => GroupInv'
BY DEF GroupInv, Tame, Executing

LEMMA TameMove ==
  ASSUME TypeOK, NEW d \in Daemons, NEW r \in Requests,
         \/ EndWorker(d, r)
         \/ \E label \in PCs \ Executing :
              \/ Goto(d, r, label) /\ UNCHANGED out
              \/ \E status \in Statuses : Record(d, r, status, label)
  PROVE  \A e \in Daemons, q \in Requests : pc'[e][q] \in Executing =>
           pc'[e][q] = pc[e][q] /\ out'[e][q] = out[e][q]
<1>1. PICK label \in PCs \ Executing : pc' = [pc EXCEPT ![d][r] = label]
  BY DEF EndWorker, Goto, Record, Executing, PCs
<1>2. \A e \in Daemons, q \in Requests : (e # d \/ q # r) => out'[e][q] = out[e][q]
  BY DEF EndWorker, Record, TypeOK
<1>. QED  BY <1>1, <1>2 DEF TypeOK

LEMMA Contained ==
  ASSUME TypeOK, NEW r \in Requests, child' = Contain(r),
         active' = [active EXCEPT ![r] = FALSE]
  PROVE  \A q \in Requests :
           /\ child'[q] = "running" => child[q] = "running"
           /\ active[q] /\ ~active'[q] => child'[q] # "running"
BY DEF TypeOK, Contain

\* Every step other than the seven that execute the request is tame.
LEMMA OnlyExecutionIsNotTame ==
  ASSUME TypeOK, [Next]_vars,
         ~ \E d \in Daemons, r \in Requests :
             Start(d, r) \/ Spawn(d, r) \/ RecordSpawn(d, r) \/ RunRaises(d, r)
               \/ ChildGone(d, r) \/ Deadline(d, r) \/ Abort(d, r)
  PROVE  Tame
<1> USE DEF journalVars, childVars, workerVars
<1>1. ASSUME NEW d \in Daemons, NEW r \in Requests, WorkerStep(d, r)
      PROVE  Tame
  <2>1. \/ EndWorker(d, r)
        \/ \E label \in PCs \ Executing :
             \/ Goto(d, r, label) /\ UNCHANGED out
             \/ \E status \in Statuses : Record(d, r, status, label)
    <3>1. CASE Fetch(d, r) \/ Claim(d, r) \/ Inspect(d, r) \/ Admit(d, r)
      BY <3>1, Labels DEF Fetch, Claim, Inspect, Admit, Executing
    <3>2. CASE Plan(d, r) \/ Await(d, r) \/ Ended(d, r)
      BY <3>2, Labels DEF Plan, Ask, Await, Ended, Executing
    <3>3. CASE Persist(d, r) \/ Finish(d, r) \/ Upload(d, r) \/ Delete(d, r)
      BY <3>3, Labels DEF Persist, Finish, Upload, Delete, Executing
    <3>. QED  BY <1>1, <3>1, <3>2, <3>3 DEF WorkerStep
  <2>2. \A e \in Daemons, q \in Requests : pc'[e][q] \in Executing =>
          pc'[e][q] = pc[e][q] /\ out'[e][q] = out[e][q]
    BY <2>1, TameMove
  <2>3. CASE Inspect(d, r)
    <3>1. UNCHANGED started  BY <2>3 DEF Inspect
    <3>2. \/ UNCHANGED <<active, child>>
          \/ child' = Contain(r) /\ active' = [active EXCEPT ![r] = FALSE]
      BY <2>3 DEF Inspect
    <3>. QED  BY <2>2, <3>1, <3>2, Contained DEF Tame
  <2>4. CASE Ended(d, r)  BY <2>2, <2>4 DEF Ended, Tame
  <2>5. CASE Fetch(d, r) \/ Claim(d, r) \/ Admit(d, r) \/ Plan(d, r) \/ Await(d, r)
    BY <2>2, <2>5 DEF Fetch, Claim, Admit, Plan, Await, Tame
  <2>6. CASE Persist(d, r) \/ Finish(d, r) \/ Upload(d, r) \/ Delete(d, r)
    BY <2>2, <2>6 DEF Persist, Finish, Upload, Delete, Tame
  <2>. QED  BY <1>1, <2>3, <2>4, <2>5, <2>6 DEF WorkerStep
<1>2. ASSUME NEW d \in Daemons, NEW r \in Requests, WorkerFault(d, r)
      PROVE  Tame
  BY <1>2, TameMove DEF WorkerFault, IoError, TransportError, Tame
<1>3. ASSUME NEW d \in Daemons, DaemonStep(d)
      PROVE  Tame
  <2>1. CASE Crash(d)  BY <2>1 DEF Crash, TypeOK, Tame, Executing
  <2>2. ASSUME NEW r \in Requests, Dispatch(d, r)  PROVE Tame
    <3>1. "fetch" \in PCs \ Executing  BY DEF PCs, Executing
    <3>2. Goto(d, r, "fetch") /\ UNCHANGED out  BY <2>2 DEF Dispatch
    <3>3. \A e \in Daemons, q \in Requests : pc'[e][q] \in Executing =>
            pc'[e][q] = pc[e][q] /\ out'[e][q] = out[e][q]
      BY <3>1, <3>2, TameMove
    <3>. QED  BY <2>2, <3>3 DEF Dispatch, Tame
  <2>3. ASSUME NEW r \in Requests, Sweep(d, r)  PROVE Tame
    <3>1. UNCHANGED <<started, pc, out>>  BY <2>3 DEF Sweep
    <3>2. \/ UNCHANGED <<active, child>>
          \/ child' = Contain(r) /\ active' = [active EXCEPT ![r] = FALSE]
      BY <2>3 DEF Sweep
    <3>. QED  BY <3>1, <3>2, Contained DEF Tame
  <2>4. ASSUME NEW r \in Requests, Signal(d, r)  PROVE Tame
    BY <2>4 DEF Signal, TypeOK, Tame
  <2>5. CASE UNCHANGED <<pc, out, started, child>>  BY <2>5 DEF Tame
  <2>. QED  BY <1>3, <2>1, <2>2, <2>3, <2>4, <2>5 DEF DaemonStep, Boot, EnterLoop,
              Shutdown, LeaveLoop, LoseLock, Exit
<1>4. CASE Environment
  <2>1. ASSUME NEW r \in Requests, ChildExits(r)  PROVE Tame
    BY <2>1 DEF ChildExits, TypeOK, Tame
  <2>. QED  BY <1>4, <2>1 DEF Environment, Submit, Decide, Expire, Tame
<1>5. CASE UNCHANGED vars  BY <1>5 DEF vars, Tame
<1>. QED  BY <1>1, <1>2, <1>3, <1>4, <1>5 DEF Next

\* The executing worker's step disturbs its own request only.
LEMMA ExecutorStep ==
  ASSUME TypeOK, GroupInv, NEW d \in Daemons, NEW r \in Requests,
         \A q \in Requests \ {r} : started'[q] = started[q] /\ child'[q] = child[q],
         \A e \in Daemons, q \in Requests :
           (e # d \/ q # r) => pc'[e][q] = pc[e][q] /\ out'[e][q] = out[e][q],
         \A e \in Daemons : pc[e][r] \in Executing => e = d,
         pc'[d][r] \in Executing => started'[r] # None,
         pc'[d][r] = "ended" /\ child'[r] = "running" => out'[d][r] = "indeterminate"
  PROVE  GroupInv'
<1>1. ASSUME NEW q \in Requests, NEW e \in Daemons, e # d \/ q # r, pc'[e][q] \in Executing
      PROVE  q # r /\ pc'[e][q] = pc[e][q] /\ out'[e][q] = out[e][q]
  BY <1>1
<1>2. \A q \in Requests, e, f \in Daemons :
        pc'[e][q] \in Executing /\ pc'[f][q] \in Executing => e = f
  BY <1>1 DEF GroupInv
<1>3. ASSUME NEW q \in Requests, NEW e \in Daemons
      PROVE  /\ pc'[e][q] \in Executing => started'[q] # None
             /\ pc'[e][q] = "ended" /\ child'[q] = "running" => out'[e][q] = "indeterminate"
  <2>1. CASE e = d /\ q = r  BY <2>1
  <2>2. CASE ~(e = d /\ q = r)  BY <1>1, <2>2 DEF GroupInv, Executing
  <2>. QED  BY <2>1, <2>2
<1>. QED  BY <1>2, <1>3 DEF GroupInv

LEMMA ExecutionInv ==
  ASSUME TypeInv, GroupInv, NEW d \in Daemons, NEW r \in Requests,
         \/ Start(d, r) \/ Spawn(d, r) \/ RecordSpawn(d, r) \/ RunRaises(d, r)
         \/ ChildGone(d, r) \/ Deadline(d, r) \/ Abort(d, r)
  PROVE  GroupInv'
<1>0. TypeOK  BY DEF TypeInv
<1> USE DEF journalVars, childVars
<1>1. CASE Start(d, r)
  <2>1. CASE started[r] # None
    <3>1. EndWorker(d, r)  BY <1>1, <2>1 DEF Start
    <3>2. UNCHANGED <<started, child>>  BY <1>1, <2>1 DEF Start
    <3>. QED  BY <1>0, <3>1, <3>2, TameMove, TameInv DEF Tame
  <2>2. CASE started[r] = None
    <3>1. raw[d][r] # None  BY <1>1, ConstantsAssumption DEF Start, At, TypeInv, WorkerKnows
    <3>2. started' = [started EXCEPT ![r] = raw[d][r]] /\ UNCHANGED child
      BY <1>1, <2>2 DEF Start
    <3>3. \/ Goto(d, r, "spawn") /\ UNCHANGED out
          \/ EndWorker(d, r)
      BY <1>1, <2>2 DEF Start
    <3>4. /\ pc'[d][r] \in {"spawn", "idle"}
          /\ \A e \in Daemons, q \in Requests :
               (e # d \/ q # r) => pc'[e][q] = pc[e][q] /\ out'[e][q] = out[e][q]
      BY <1>0, <3>3 DEF TypeOK, Goto, EndWorker
    <3>5. started'[r] # None /\ \A q \in Requests \ {r} : started'[q] = started[q]
      BY <1>0, <3>1, <3>2 DEF TypeOK
    <3>6. \A e \in Daemons : pc[e][r] \notin Executing  BY <2>2 DEF GroupInv
    <3>. QED  BY <1>0, <3>2, <3>4, <3>5, <3>6, ExecutorStep
  <2>. QED  BY <2>1, <2>2
<1>2. ASSUME pc[d][r] \in Executing, UNCHANGED started,
             \A q \in Requests \ {r} : child'[q] = child[q],
             \/ \E label \in {"spawned", "running"} : Goto(d, r, label) /\ UNCHANGED out
             \/ Record(d, r, "indeterminate", "ended")
             \/ /\ \E status \in Statuses : Record(d, r, status, "ended")
                /\ child'[r] # "running"
      PROVE  GroupInv'
  <2>1. started'[r] # None /\ \A e \in Daemons : pc[e][r] \in Executing => e = d
    BY <1>2 DEF GroupInv
  <2>2. /\ pc'[d][r] \in Executing
        /\ pc'[d][r] = "ended" => out'[d][r] = "indeterminate" \/ child'[r] # "running"
        /\ \A e \in Daemons, q \in Requests :
             (e # d \/ q # r) => pc'[e][q] = pc[e][q] /\ out'[e][q] = out[e][q]
    BY <1>0, <1>2 DEF Goto, Record, Executing, TypeOK
  <2>. QED  BY <1>0, <1>2, <2>1, <2>2, ExecutorStep
<1>3. CASE Spawn(d, r) \/ RecordSpawn(d, r) \/ RunRaises(d, r)
  <2>1. pc[d][r] \in Executing /\ UNCHANGED started
    BY <1>3 DEF Spawn, RecordSpawn, RunRaises, At, Executing
  <2>2. \A q \in Requests \ {r} : child'[q] = child[q]
    BY <1>0, <1>3 DEF Spawn, RecordSpawn, RunRaises, TypeOK
  <2>3. \/ \E label \in {"spawned", "running"} : Goto(d, r, label) /\ UNCHANGED out
        \/ Record(d, r, "indeterminate", "ended")
    BY <1>3 DEF Spawn, RecordSpawn, RunRaises
  <2>. QED  BY <1>2, <2>1, <2>2, <2>3
<1>4. CASE ChildGone(d, r) \/ Deadline(d, r) \/ Abort(d, r)
  <2>1. pc[d][r] \in Executing /\ UNCHANGED started
    BY <1>4 DEF ChildGone, Deadline, Abort, At, Executing
  <2>2. child'[r] # "running" /\ \A q \in Requests \ {r} : child'[q] = child[q]
    BY <1>0, <1>4 DEF ChildGone, Deadline, Abort, TypeOK
  <2>3. \E status \in Statuses : Record(d, r, status, "ended")
    BY <1>4, Labels DEF ChildGone, Deadline, Abort
  <2>. QED  BY <1>2, <2>1, <2>2, <2>3
<1>. QED  BY <1>1, <1>3, <1>4

LEMMA GroupInvariant == Spec => []GroupInv
<1>1. Init => GroupInv  BY DEF Init, GroupInv, Executing
<1>2. TypeInv /\ GroupInv /\ [Next]_vars => GroupInv'
  BY ExecutionInv, OnlyExecutionIsNotTame, TameInv DEF TypeInv
<1>. QED  BY <1>1, <1>2, TypeInvariant, PTL DEF Spec

\* A worker at the end of a run that leaves the group running.
Abandons(d, r) ==
  pc[d][r] = "ended" /\ pc'[d][r] = "persist" /\ out[d][r] = "indeterminate"

\* Only recovery and the end of a run forget a process group.
LEMMA Forgets ==
  ASSUME TypeOK, GroupInv, [Next]_vars, NEW q \in Requests,
         active[q], ~active'[q], child'[q] = "running"
  PROVE  \E d \in Daemons : Abandons(d, q)
<1> USE DEF journalVars, childVars, workerVars
<1>1. ASSUME NEW d \in Daemons, NEW r \in Requests, WorkerStep(d, r)
      PROVE  \E e \in Daemons : Abandons(e, q)
  <2>1. ~ Inspect(d, r)
    <3>1. Inspect(d, r) => \/ UNCHANGED active
                           \/ child' = Contain(r) /\ active' = [active EXCEPT ![r] = FALSE]
      BY DEF Inspect
    <3>. QED  BY <3>1, Contained
  <2>2. ~ RecordSpawn(d, r)  BY DEF RecordSpawn, TypeOK
  <2>3. CASE Ended(d, r)
    <3>1. pc[d][r] = "ended" /\ UNCHANGED child /\ Goto(d, r, "persist") /\ q = r
      BY <2>3 DEF Ended, At, TypeOK
    <3>2. pc'[d][r] = "persist"  BY <3>1 DEF Goto, TypeOK
    <3>. QED  BY <3>1, <3>2 DEF GroupInv, Abandons
  <2>. QED  BY <1>1, <2>1, <2>2, <2>3 DEF WorkerStep, Fetch, Claim, Admit, Plan, Await,
              Start, Spawn, RunRaises, ChildGone, Deadline, Abort, Persist, Finish,
              Upload, Delete
<1>2. ASSUME NEW d \in Daemons, NEW r \in Requests  PROVE ~ WorkerFault(d, r)
  BY DEF WorkerFault, IoError, TransportError
<1>3. ASSUME NEW d \in Daemons  PROVE ~ DaemonStep(d)
  <2>1. ASSUME NEW r \in Requests  PROVE ~ Sweep(d, r)
    <3>1. Sweep(d, r) => \/ UNCHANGED active
                         \/ child' = Contain(r) /\ active' = [active EXCEPT ![r] = FALSE]
      BY DEF Sweep
    <3>. QED  BY <3>1, Contained
  <2>. QED  BY <2>1 DEF DaemonStep, Boot, EnterLoop, Dispatch, Shutdown, Signal,
              LeaveLoop, LoseLock, Exit, Crash
<1>4. ~ Environment /\ ~ UNCHANGED vars
  BY DEF Environment, Submit, Decide, Expire, ChildExits, vars
<1>. QED  BY <1>1, <1>2, <1>3, <1>4 DEF Next

\* active.json of a group that runs is dropped by nobody but the worker whose
\* run_shell raised, and that worker reports "indeterminate": not by recovery,
\* not by the sweep of a second daemon that meets a request while it executes,
\* and not by the end of a run that will be called "completed".
THEOREM ContainsFirst == Spec => ContainedBeforeForgotten
<1>1. TypeInv /\ GroupInv /\ [Next]_vars =>
        [\A r \in Requests : (active[r] /\ ~active'[r] /\ child'[r] = "running") =>
           \E d \in Daemons : /\ pc[d][r] = "ended" /\ pc'[d][r] = "persist"
                              /\ out[d][r] = "indeterminate"]_vars
  BY Forgets DEF TypeInv, Abandons
<1>. QED  BY <1>1, GroupInvariant, TypeInvariant, PTL DEF Spec, ContainedBeforeForgotten

-----------------------------------------------------------------------------
(***************************************************************************)
(* The operator.  What an "allow" on disk names was granted; a worker that *)
(* waits demands a payload its contents call for; one that is about to     *)
(* create STARTED has what it demanded.                                    *)
(***************************************************************************)
ApprovalInv ==
  /\ \A r \in Requests : (decision[r] # None /\ decision[r].choice = "allow") =>
       decision[r].payload \in grants[r]
  /\ \A d \in Daemons, r \in Requests :
       /\ pc[d][r] = "await" => demand[d][r] \in Verdicts[raw[d][r]] \cap Payloads
       /\ pc[d][r] = "start" => Approved(d, r)

\* Only the operator decides, and what was granted stays granted.
LEMMA Decided ==
  ASSUME TypeOK, ApprovalInv, [Next]_vars, NEW r \in Requests
  PROVE  /\ (decision'[r] # None /\ decision'[r].choice = "allow") =>
              decision'[r].payload \in grants'[r]
         /\ grants[r] \subseteq grants'[r]
<1>1. ASSUME NEW q \in Requests, NEW choice \in {"allow", "cancel"}, Decide(q, choice)
      PROVE  /\ (decision'[r] # None /\ decision'[r].choice = "allow") =>
                  decision'[r].payload \in grants'[r]
             /\ grants[r] \subseteq grants'[r]
  <2>1. CASE r = q
    <3>1. decision'[r] = [choice |-> choice, payload |-> pending[r].payload]
      BY <1>1, <2>1 DEF Decide, TypeOK
    <3>2. grants'[r] = IF choice = "allow" THEN grants[r] \cup {pending[r].payload}
                       ELSE grants[r]
      BY <1>1, <2>1 DEF Decide, TypeOK
    <3>. QED  BY <3>1, <3>2
  <2>2. CASE r # q
    <3>1. decision'[r] = decision[r] /\ grants'[r] = grants[r]
      BY <1>1, <2>2 DEF Decide, TypeOK
    <3>. QED  BY <3>1 DEF ApprovalInv
  <2>. QED  BY <2>1, <2>2
<1>2. CASE UNCHANGED <<decision, grants>>
  BY <1>2 DEF ApprovalInv
<1>3. UNCHANGED <<decision, grants>>
      \/ \E q \in Requests, choice \in {"allow", "cancel"} : Decide(q, choice)
  <2> USE DEF approvalVars
  <2>1. ASSUME NEW d \in Daemons, NEW q \in Requests, WorkerStep(d, q)
        PROVE  UNCHANGED <<decision, grants>>
    BY <2>1 DEF WorkerStep, Fetch, Claim, Inspect, Admit, Plan, Await, Start, Spawn,
       RecordSpawn, RunRaises, ChildGone, Deadline, Abort, Ended, Persist, Finish,
       Upload, Delete
  <2>2. ASSUME NEW d \in Daemons, NEW q \in Requests, WorkerFault(d, q)
        PROVE  UNCHANGED <<decision, grants>>
    BY <2>2 DEF WorkerFault, IoError, TransportError
  <2>3. ASSUME NEW d \in Daemons, DaemonStep(d)
        PROVE  UNCHANGED <<decision, grants>>
    BY <2>3 DEF DaemonStep, Boot, Sweep, EnterLoop, Dispatch, Shutdown, Signal,
       LeaveLoop, LoseLock, Exit, Crash
  <2>. QED  BY <2>1, <2>2, <2>3 DEF Next, Environment, Submit, Expire, ChildExits, vars
<1>. QED  BY <1>1, <1>2, <1>3

\* A worker that is, after a step, still or again before its STARTED marker.
Waiting == {"await", "start"}

Still(d, r) ==
  pc'[d][r] \in Waiting =>
    /\ pc'[d][r] = pc[d][r] /\ raw'[d][r] = raw[d][r]
    /\ demand'[d][r] = demand[d][r]

LEMMA StillMove ==
  ASSUME TypeOK, NEW d \in Daemons, NEW r \in Requests,
         \/ EndWorker(d, r)
         \/ /\ \E label \in PCs \ Waiting : Goto(d, r, label)
            /\ UNCHANGED demand /\ (UNCHANGED raw \/ Fetch(d, r))
  PROVE  \A e \in Daemons, q \in Requests : Still(e, q)
<1>1. PICK label \in PCs \ Waiting : pc' = [pc EXCEPT ![d][r] = label]
  BY DEF EndWorker, Goto, Waiting, PCs
<1>2. \A e \in Daemons, q \in Requests : (e # d \/ q # r) =>
        raw'[e][q] = raw[e][q] /\ demand'[e][q] = demand[e][q]
  BY DEF EndWorker, Fetch, TypeOK
<1>. QED  BY <1>1, <1>2 DEF Still, TypeOK

\* Only Plan and Await bring a worker before its marker.
LEMMA OnlyPlansGate ==
  ASSUME TypeOK, [Next]_vars,
         ~ \E d \in Daemons, r \in Requests : Plan(d, r) \/ Await(d, r)
  PROVE  \A e \in Daemons, q \in Requests : Still(e, q)
<1> USE DEF workerVars
<1> DEFINE Moves(d, r) ==
      \/ EndWorker(d, r)
      \/ /\ \E label \in PCs \ Waiting : Goto(d, r, label)
         /\ UNCHANGED demand /\ (UNCHANGED raw \/ Fetch(d, r))
<1>1. ASSUME NEW d \in Daemons, NEW r \in Requests, WorkerStep(d, r)
      PROVE  Moves(d, r)
  <2>1. CASE Fetch(d, r) \/ Claim(d, r) \/ Inspect(d, r) \/ Admit(d, r)
    BY <2>1, Labels DEF Fetch, Claim, Inspect, Admit, Record, Waiting
  <2>2. CASE Start(d, r) \/ Spawn(d, r) \/ RecordSpawn(d, r) \/ RunRaises(d, r)
    BY <2>2, Labels DEF Start, Spawn, RecordSpawn, RunRaises, Record, Waiting
  <2>3. CASE ChildGone(d, r) \/ Deadline(d, r) \/ Abort(d, r) \/ Ended(d, r)
    BY <2>3, Labels DEF ChildGone, Deadline, Abort, Ended, Record, Waiting
  <2>4. CASE Persist(d, r) \/ Finish(d, r) \/ Upload(d, r) \/ Delete(d, r)
    BY <2>4, Labels DEF Persist, Finish, Upload, Delete, Waiting
  <2>. QED  BY <1>1, <2>1, <2>2, <2>3, <2>4 DEF WorkerStep
<1>2. ASSUME NEW d \in Daemons, NEW r \in Requests, WorkerFault(d, r)
      PROVE  Moves(d, r)
  BY <1>2 DEF WorkerFault, IoError, TransportError
<1>3. ASSUME NEW d \in Daemons, DaemonStep(d)
      PROVE  \A e \in Daemons, q \in Requests : Still(e, q)
  <2>1. CASE Crash(d)  BY <2>1 DEF Crash, Still, Waiting, TypeOK
  <2>2. ASSUME NEW r \in Requests, Dispatch(d, r)
        PROVE  \A e \in Daemons, q \in Requests : Still(e, q)
    <3>1. "fetch" \in PCs \ Waiting  BY DEF PCs, Waiting
    <3>. QED  BY <2>2, <3>1, StillMove DEF Dispatch
  <2>3. CASE UNCHANGED <<pc, raw, demand>>  BY <2>3 DEF Still
  <2>. QED  BY <1>3, <2>1, <2>2, <2>3 DEF DaemonStep, Boot, Sweep, EnterLoop,
              Shutdown, Signal, LeaveLoop, LoseLock, Exit
<1>4. CASE Environment \/ UNCHANGED vars
  BY <1>4 DEF Environment, Submit, Decide, Expire, ChildExits, vars, Still
<1>. QED  BY <1>1, <1>2, <1>3, <1>4, StillMove DEF Next

\* Plan and Await move one worker; what they let pass is approved.
LEMMA GateStep ==
  ASSUME TypeInv, ApprovalInv, NEW d \in Daemons, NEW r \in Requests,
         Plan(d, r) \/ Await(d, r)
  PROVE  /\ \A e \in Daemons, q \in Requests : (e # d \/ q # r) => Still(e, q)
         /\ raw' = raw
         /\ pc'[d][r] = "await" => demand'[d][r] \in Verdicts[raw[d][r]] \cap Payloads
         /\ pc'[d][r] = "start" =>
              IF demand'[d][r] = None THEN "run" \in Verdicts[raw[d][r]]
              ELSE demand'[d][r] \in Verdicts[raw[d][r]] \cap grants[r]
<1>0. TypeOK  BY DEF TypeInv
<1>1. CASE Plan(d, r)
  <2>1. PICK v \in Verdicts[raw[d][r]] :
          /\ demand' = [demand EXCEPT ![d][r] = IF v \in Payloads THEN v ELSE None]
          /\ \/ v = "reject" /\ Record(d, r, "rejected", "persist")
             \/ v = "run" /\ Goto(d, r, "start")
             \/ v \in Payloads /\ Ask(d, r, v)
    BY <1>1 DEF Plan
  <2>2. \/ v = "reject" /\ Goto(d, r, "persist")
        \/ v = "run" /\ Goto(d, r, "start")
        \/ v \in Payloads /\ (Goto(d, r, "await") \/ Goto(d, r, "persist"))
    BY <2>1 DEF Ask, Record
  <2>3. raw' = raw  BY <1>1 DEF Plan
  <2>4. \A e \in Daemons, q \in Requests : (e # d \/ q # r) => Still(e, q)
    BY <1>0, <2>1, <2>2, <2>3 DEF Goto, Still, TypeOK
  <2>5. demand'[d][r] = IF v \in Payloads THEN v ELSE None  BY <1>0, <2>1 DEF TypeOK
  <2>6. \/ v = "reject" /\ pc'[d][r] = "persist"
        \/ v = "run" /\ pc'[d][r] = "start"
        \/ v \in Payloads /\ pc'[d][r] \in {"await", "persist"}
    BY <1>0, <2>2 DEF Goto, TypeOK
  <2>. QED  BY <2>3, <2>4, <2>5, <2>6, ConstantsAssumption
<1>2. CASE Await(d, r)
  <2>1. /\ pc[d][r] = "await" /\ UNCHANGED <<raw, demand>>
        /\ \/ Goto(d, r, "start") /\ Consents(d, r)
           \/ Goto(d, r, "persist")
    BY <1>2 DEF Await, At, Record
  <2>2. \A e \in Daemons, q \in Requests : (e # d \/ q # r) => Still(e, q)
    BY <1>0, <2>1 DEF Goto, Still, TypeOK
  <2>3. pc'[d][r] \in {"start", "persist"} /\ (pc'[d][r] = "start" => Consents(d, r))
    BY <1>0, <2>1 DEF Goto, TypeOK
  <2>4. demand[d][r] \in Verdicts[raw[d][r]] \cap Payloads  BY <2>1 DEF ApprovalInv
  <2>5. Consents(d, r) => demand[d][r] \in grants[r]
    <3>1. [choice |-> "allow", payload |-> demand[d][r]] \in Decision
      BY <2>4 DEF Decision
    <3>. QED  BY <3>1, ConstantsAssumption DEF Consents, ApprovalInv
  <2>. QED  BY <2>1, <2>2, <2>3, <2>4, <2>5, ConstantsAssumption
<1>. QED  BY <1>1, <1>2

LEMMA ApprovalStep ==
  ASSUME TypeInv, ApprovalInv, [Next]_vars
  PROVE  ApprovalInv'
<1>0. TypeOK  BY DEF TypeInv
<1>1. \A r \in Requests : grants[r] \subseteq grants'[r]  BY <1>0, Decided
<1>2. ASSUME NEW d \in Daemons, NEW r \in Requests, Still(d, r)
      PROVE  /\ pc'[d][r] = "await" =>
                  demand'[d][r] \in Verdicts[raw'[d][r]] \cap Payloads
             /\ pc'[d][r] = "start" => Approved(d, r)'
  BY <1>1, <1>2 DEF Still, Waiting, ApprovalInv, Approved
<1>3. ASSUME NEW d \in Daemons, NEW r \in Requests, Plan(d, r) \/ Await(d, r)
      PROVE  /\ pc'[d][r] = "await" =>
                  demand'[d][r] \in Verdicts[raw'[d][r]] \cap Payloads
             /\ pc'[d][r] = "start" => Approved(d, r)'
  BY <1>1, <1>3, GateStep DEF Approved
<1>4. ASSUME NEW d \in Daemons, NEW r \in Requests
      PROVE  /\ pc'[d][r] = "await" =>
                  demand'[d][r] \in Verdicts[raw'[d][r]] \cap Payloads
             /\ pc'[d][r] = "start" => Approved(d, r)'
  <2>1. CASE \E e \in Daemons, q \in Requests : Plan(e, q) \/ Await(e, q)
    BY <1>2, <1>3, <2>1, GateStep
  <2>2. CASE ~ \E e \in Daemons, q \in Requests : Plan(e, q) \/ Await(e, q)
    BY <1>0, <1>2, <2>2, OnlyPlansGate
  <2>. QED  BY <2>1, <2>2
<1>. QED  BY <1>0, <1>4, Decided DEF ApprovalInv

\* started.json is written at "start" with the bytes of the worker that is there.
LEMMA StartedAtStart ==
  ASSUME TypeOK, [Next]_vars, NEW r \in Requests, started'[r] # started[r]
  PROVE  \E d \in Daemons : pc[d][r] = "start" /\ started'[r] = raw[d][r]
<1> USE DEF journalVars
<1>1. ASSUME NEW d \in Daemons, NEW q \in Requests, Start(d, q)
      PROVE  pc[d][r] = "start" /\ started'[r] = raw[d][r]
  <2>1. /\ pc[d][q] = "start"
        /\ started' = [started EXCEPT ![q] = raw[d][q]] \/ UNCHANGED started
    BY <1>1 DEF Start, At
  <2>. QED  BY <2>1 DEF TypeOK
<1>2. ASSUME ~ \E d \in Daemons, q \in Requests : Start(d, q)
      PROVE  UNCHANGED started
  <2>1. ASSUME NEW d \in Daemons, NEW q \in Requests, WorkerStep(d, q)
        PROVE  UNCHANGED started
    BY <1>2, <2>1 DEF WorkerStep, Fetch, Claim, Inspect, Admit, Plan, Await, Spawn,
       RecordSpawn, RunRaises, ChildGone, Deadline, Abort, Ended, Persist, Finish,
       Upload, Delete
  <2>2. ASSUME NEW d \in Daemons, NEW q \in Requests, WorkerFault(d, q)
        PROVE  UNCHANGED started
    BY <2>2 DEF WorkerFault, IoError, TransportError
  <2>3. ASSUME NEW d \in Daemons, DaemonStep(d)
        PROVE  UNCHANGED started
    BY <2>3 DEF DaemonStep, Boot, Sweep, EnterLoop, Dispatch, Shutdown, Signal,
       LeaveLoop, LoseLock, Exit, Crash
  <2>. QED  BY <2>1, <2>2, <2>3 DEF Next, Environment, Submit, Decide, Expire,
              ChildExits, vars
<1>. QED  BY <1>1, <1>2

\* What is executed is what the operator allowed, where an operator is needed:
\* the worker that creates STARTED demanded a payload its own contents call for
\* and that payload was allowed, whichever daemon asked, whichever read the
\* answer, however the plans changed and however often either restarted.
THEOREM AsksFirst == Spec => ApprovedBeforeStarted
<1>1. Init => ApprovalInv  BY DEF Init, ApprovalInv
<1>2. TypeInv /\ ApprovalInv /\ [Next]_vars => ApprovalInv'  BY ApprovalStep
<1>3. ASSUME TypeInv, ApprovalInv, [Next]_vars, NEW r \in Requests,
             started[r] = None, started'[r] # None
      PROVE  \E d \in Daemons : /\ pc[d][r] = "start" /\ started'[r] = raw[d][r]
                                /\ Approved(d, r)
  BY <1>3, StartedAtStart DEF TypeInv, ApprovalInv
<1>4. TypeInv /\ ApprovalInv /\ [Next]_vars =>
        [\A r \in Requests : (started[r] = None /\ started'[r] # None) =>
           \E d \in Daemons : /\ pc[d][r] = "start" /\ started'[r] = raw[d][r]
                              /\ Approved(d, r)]_vars
  BY <1>3
<1>. QED  BY <1>1, <1>2, <1>4, TypeInvariant, PTL DEF Spec, ApprovedBeforeStarted

-----------------------------------------------------------------------------
(***************************************************************************)
(* What the journal says of a request is final and is what the client is   *)
(* told, for every set of requests, contents and daemons, as long as the   *)
(* claim files request-claims/<id>.lock are never replaced (StableClaims). *)
(***************************************************************************)

\* Where a worker holds the claim; where nothing is FINISHED yet; where the
\* journalled request.json is the worker's own.
Owning == PCs \ {"idle", "fetch", "claim"}
Fresh  == {"admit", "plan", "await", "start", "spawn", "spawned", "running",
           "ended", "persist", "finish"}
Bound  == (Fresh \ {"admit"}) \cup {"upload"}

\* What the files of one request have to do with each other.
FileInv(r) ==
  /\ started[r] \in {None, request[r]}
  /\ request[r] \notin Oversize
  /\ finished[r] # None =>
       /\ request[r] = finished[r]
       /\ result[r] # None /\ result[r].kind = "journal" /\ result[r].sha = finished[r]
       /\ result[r].status = "rejected" => started[r] = None
       /\ result[r].status = "completed" => runs[r] # 0
  /\ answer[r] # None =>
       /\ answer[r].kind = "journal" => answer[r] = result[r] /\ finished[r] = answer[r].sha
       /\ answer[r].kind = "refusal" => \/ answer[r].sha \in Oversize
                                        \/ request[r] \notin {None, answer[r].sha}

\* What a worker that holds the claim may rely on.
WorkerInv(d, r) ==
  pc[d][r] \in Owning =>
    /\ claim[r] = d
    /\ pc[d][r] \in Fresh => finished[r] = None
    /\ pc[d][r] \in {"admit", "plan", "await", "start"} => started[r] = None
    /\ pc[d][r] = "admit" => raw[d][r] \notin Oversize /\ request[r] \in {None, raw[d][r]}
    /\ pc[d][r] \in Bound => request[r] = raw[d][r]
    /\ pc[d][r] \in {"spawned", "running"} => runs[r] # 0
    /\ pc[d][r] \in {"ended", "persist", "finish"} =>
         /\ out[d][r] = "rejected" => started[r] = None
         /\ out[d][r] = "completed" => runs[r] # 0
    /\ pc[d][r] = "finish" => result[r] = Journalled(d, r)
    /\ pc[d][r] = "upload" => finished[r] # None
    /\ pc[d][r] = "refuse" => \/ raw[d][r] \in Oversize
                              \/ request[r] \notin {None, raw[d][r]}

JournalInv == \A r \in Requests : FileInv(r) /\ \A d \in Daemons : WorkerInv(d, r)

-----------------------------------------------------------------------------
(***************************************************************************)
(* A worker's step concerns its own request and its own variables only.    *)
(***************************************************************************)
FilesKept(r) ==
  /\ request'[r] = request[r] /\ started'[r] = started[r] /\ finished'[r] = finished[r]
  /\ result'[r] = result[r] /\ answer'[r] = answer[r] /\ runs'[r] = runs[r]

WorkerKept(d, r) ==
  pc'[d][r] = pc[d][r] /\ raw'[d][r] = raw[d][r] /\ out'[d][r] = out[d][r]

Local(d, r) ==
  /\ \A q \in Requests \ {r} : FilesKept(q) /\ claim'[q] = claim[q]
  /\ \A e \in Daemons, q \in Requests : (e # d \/ q # r) => WorkerKept(e, q)

LEMMA LocalGoto ==
  ASSUME TypeOK, NEW d \in Daemons, NEW r \in Requests, NEW label, Goto(d, r, label)
  PROVE  /\ pc'[d][r] = label
         /\ \A e \in Daemons, q \in Requests : (e # d \/ q # r) => pc'[e][q] = pc[e][q]
BY DEF TypeOK, Goto

LEMMA LocalRecord ==
  ASSUME TypeOK, NEW d \in Daemons, NEW r \in Requests, NEW status, NEW label,
         Record(d, r, status, label)
  PROVE  /\ pc'[d][r] = label /\ out'[d][r] = status
         /\ \A e \in Daemons, q \in Requests : (e # d \/ q # r) =>
              pc'[e][q] = pc[e][q] /\ out'[e][q] = out[e][q]
BY DEF TypeOK, Goto, Record

LEMMA LocalEnd ==
  ASSUME TypeOK, NEW d \in Daemons, NEW r \in Requests, EndWorker(d, r)
  PROVE  /\ pc'[d][r] = "idle"
         /\ claim'[r] = IF claim[r] = d THEN None ELSE claim[r]
         /\ \A q \in Requests \ {r} : claim'[q] = claim[q]
         /\ \A e \in Daemons, q \in Requests : (e # d \/ q # r) => WorkerKept(e, q)
BY DEF TypeOK, EndWorker, WorkerKept

\* Only the claim's holder is past its claim.
LEMMA Solo ==
  ASSUME JournalInv, NEW d \in Daemons, NEW e \in Daemons, NEW r \in Requests,
         pc[d][r] \in Owning, pc[e][r] \in Owning
  PROVE  d = e
BY DEF JournalInv, WorkerInv

\* A step of the holder preserves the invariant if it does so for its request.
LEMMA OwnerStep ==
  ASSUME JournalInv, NEW d \in Daemons, NEW r \in Requests, pc[d][r] \in Owning,
         Local(d, r), FileInv(r)', WorkerInv(d, r)'
  PROVE  JournalInv'
<1>1. ASSUME NEW q \in Requests, q # r
      PROVE  FileInv(q)' /\ \A e \in Daemons : WorkerInv(e, q)'
  <2>1. FilesKept(q) /\ claim'[q] = claim[q] /\ \A e \in Daemons : WorkerKept(e, q)
    BY <1>1 DEF Local
  <2>2. FileInv(q)'  BY <2>1 DEF JournalInv, FileInv, FilesKept
  <2>3. ASSUME NEW e \in Daemons  PROVE WorkerInv(e, q)'
    BY <2>1 DEF JournalInv, WorkerInv, FilesKept, WorkerKept, Journalled
  <2>. QED  BY <2>2, <2>3
<1>2. ASSUME NEW e \in Daemons, e # d  PROVE WorkerInv(e, r)'
  <2>1. pc[e][r] \notin Owning  BY <1>2, Solo
  <2>2. pc'[e][r] = pc[e][r]  BY <1>2 DEF Local, WorkerKept
  <2>. QED  BY <2>1, <2>2 DEF WorkerInv
<1>. QED  BY <1>1, <1>2 DEF JournalInv

\* So does a step of a worker outside the claim that touches no file.
LEMMA GuestStep ==
  ASSUME JournalInv, NEW d \in Daemons, NEW r \in Requests, Local(d, r), FilesKept(r),
         pc'[d][r] \notin Owning,
         \A e \in Daemons \ {d} : claim[r] = e => claim'[r] = e
  PROVE  JournalInv'
<1>1. ASSUME NEW q \in Requests, q # r
      PROVE  FileInv(q)' /\ \A e \in Daemons : WorkerInv(e, q)'
  <2>1. FilesKept(q) /\ claim'[q] = claim[q] /\ \A e \in Daemons : WorkerKept(e, q)
    BY <1>1 DEF Local
  <2>2. FileInv(q)'  BY <2>1 DEF JournalInv, FileInv, FilesKept
  <2>3. ASSUME NEW e \in Daemons  PROVE WorkerInv(e, q)'
    BY <2>1 DEF JournalInv, WorkerInv, FilesKept, WorkerKept, Journalled
  <2>. QED  BY <2>2, <2>3
<1>2. FileInv(r)'  BY DEF JournalInv, FileInv, FilesKept
<1>3. ASSUME NEW e \in Daemons, e # d  PROVE WorkerInv(e, r)'
  <2>1. WorkerKept(e, r)  BY <1>3 DEF Local
  <2>2. claim[r] = e => claim'[r] = e  BY <1>3
  <2>. QED  BY <2>1, <2>2 DEF JournalInv, WorkerInv, FilesKept, WorkerKept, Journalled
<1>4. WorkerInv(d, r)'  BY DEF WorkerInv
<1>. QED  BY <1>1, <1>2, <1>3, <1>4 DEF JournalInv

-----------------------------------------------------------------------------
(***************************************************************************)
(* One lemma per group of worker actions.  Each derives what the action    *)
(* does to its own request and then the two invariants of that request.    *)
(***************************************************************************)
LEMMA Members ==
  /\ Owning = {"inspect", "admit", "plan", "await", "start", "spawn", "spawned",
               "running", "ended", "persist", "finish", "upload", "refuse", "delete"}
  /\ Bound = {"plan", "await", "start", "spawn", "spawned", "running", "ended",
              "persist", "finish", "upload"}
BY DEF Owning, Bound, Fresh, PCs

\* A step that only moves the holder along, and one that records a status.
LEMMA GotoStep ==
  ASSUME TypeOK, JournalInv, NEW d \in Daemons, NEW r \in Requests,
         pc[d][r] \in Owning, NEW label, Goto(d, r, label),
         UNCHANGED <<answer, request, started, result, finished, claim, raw, out, runs>>
  PROVE  /\ pc'[d][r] = label /\ out'[d][r] = out[d][r] /\ raw'[d][r] = raw[d][r]
         /\ claim'[r] = d
         /\ FilesKept(r) /\ Local(d, r) /\ FileInv(r)'
<1>1. pc'[d][r] = label  BY LocalGoto
<1>2. \A e \in Daemons, q \in Requests : (e # d \/ q # r) => WorkerKept(e, q)
  BY LocalGoto DEF WorkerKept
<1>3. \A q \in Requests : FilesKept(q) /\ claim'[q] = claim[q]  BY DEF FilesKept
<1>4. claim'[r] = d  BY DEF JournalInv, WorkerInv
<1>5. FileInv(r)'  BY <1>3 DEF JournalInv, FileInv, FilesKept
<1>. QED  BY <1>1, <1>2, <1>3, <1>4, <1>5 DEF Local

LEMMA RecordStep ==
  ASSUME TypeOK, JournalInv, NEW d \in Daemons, NEW r \in Requests,
         pc[d][r] \in Owning, NEW label, NEW status, Record(d, r, status, label),
         UNCHANGED <<answer, request, started, result, finished, claim, raw, runs>>
  PROVE  /\ pc'[d][r] = label /\ out'[d][r] = status /\ raw'[d][r] = raw[d][r]
         /\ claim'[r] = d
         /\ FilesKept(r) /\ Local(d, r) /\ FileInv(r)'
<1>1. pc'[d][r] = label /\ out'[d][r] = status  BY LocalRecord
<1>2. \A e \in Daemons, q \in Requests : (e # d \/ q # r) => WorkerKept(e, q)
  BY LocalRecord DEF WorkerKept
<1>3. \A q \in Requests : FilesKept(q) /\ claim'[q] = claim[q]  BY DEF FilesKept
<1>4. claim'[r] = d  BY DEF JournalInv, WorkerInv
<1>5. FileInv(r)'  BY <1>3 DEF JournalInv, FileInv, FilesKept
<1>. QED  BY <1>1, <1>2, <1>3, <1>4, <1>5 DEF Local

LEMMA EndStep ==
  ASSUME TypeOK, JournalInv, NEW d \in Daemons, NEW r \in Requests, EndWorker(d, r),
         UNCHANGED <<answer, request, started, result, finished, runs>>
  PROVE  JournalInv'
<1>1. Local(d, r) /\ FilesKept(r)  BY LocalEnd DEF Local, FilesKept
<1>2. pc'[d][r] \notin Owning  BY LocalEnd, Members
<1>3. \A e \in Daemons \ {d} : claim[r] = e => claim'[r] = e  BY LocalEnd
<1>. QED  BY <1>1, <1>2, <1>3, GuestStep

LEMMA FetchClaimStep ==
  ASSUME StableClaims, TypeInv, JournalInv, NEW d \in Daemons, NEW r \in Requests,
         Fetch(d, r) \/ Claim(d, r)
  PROVE  JournalInv'
<1>0. TypeOK  BY DEF TypeInv
<1>1. CASE Fetch(d, r)
  <2>1. Goto(d, r, "claim") /\ raw' = [raw EXCEPT ![d][r] = mailbox[r]]
        /\ UNCHANGED <<answer, request, started, result, finished, runs, claim, out>>
    BY <1>1 DEF Fetch, mailboxVars, journalVars, childVars
  <2>2. Local(d, r) /\ FilesKept(r)
    BY <1>0, <2>1, LocalGoto DEF Local, FilesKept, WorkerKept, TypeOK
  <2>3. pc'[d][r] = "claim"  BY <1>0, <2>1, LocalGoto
  <2>. QED  BY <2>1, <2>2, <2>3, GuestStep, Members
<1>2. CASE Claim(d, r) /\ claim[r] # None
  BY <1>0, <1>2, EndStep DEF Claim, mailboxVars, journalVars, childVars
<1>3. CASE Claim(d, r) /\ claim[r] = None
  <2>1. Goto(d, r, "inspect") /\ claim' = [claim EXCEPT ![r] = d]
        /\ UNCHANGED <<answer, request, started, result, finished, runs, raw, out>>
    BY <1>3 DEF Claim, mailboxVars, journalVars, childVars
  <2>2. pc'[d][r] = "inspect"
        /\ \A e \in Daemons, q \in Requests : (e # d \/ q # r) => WorkerKept(e, q)
    BY <1>0, <2>1, LocalGoto DEF WorkerKept
  <2>3. claim'[r] = d /\ \A q \in Requests \ {r} : claim'[q] = claim[q]
    BY <1>0, <2>1 DEF TypeOK
  <2>4. \A q \in Requests : FilesKept(q)  BY <2>1 DEF FilesKept
  <2>5. \A q \in Requests : FileInv(q)'  BY <2>4 DEF JournalInv, FileInv, FilesKept
  <2>6. \A e \in Daemons : pc[e][r] \notin Owning
    BY <1>3, ConstantsAssumption DEF JournalInv, WorkerInv
  <2>7. ASSUME NEW e \in Daemons, NEW q \in Requests  PROVE WorkerInv(e, q)'
    <3>1. CASE e = d /\ q = r
      BY <2>2, <2>3, <3>1, Members DEF WorkerInv, Fresh
    <3>2. CASE e # d /\ q = r
      BY <2>2, <2>6, <3>2 DEF WorkerInv, WorkerKept
    <3>3. CASE q # r
      BY <2>2, <2>3, <2>4, <3>3 DEF JournalInv, WorkerInv, WorkerKept, FilesKept, Journalled
    <3>. QED  BY <3>1, <3>2, <3>3
  <2>. QED  BY <2>5, <2>7 DEF JournalInv
<1>. QED  BY <1>1, <1>2, <1>3

LEMMA InspectStep ==
  ASSUME TypeInv, JournalInv, NEW d \in Daemons, NEW r \in Requests, Inspect(d, r)
  PROVE  JournalInv'
<1>0. TypeOK /\ raw[d][r] \in Bytes
  BY DEF TypeInv, WorkerKnows, Inspect, At
<1>1. pc[d][r] \in Owning  BY Members DEF Inspect, At
<1>2. UNCHANGED <<answer, request, started, result, finished, claim, raw, runs>>
  BY DEF Inspect, mailboxVars
<1>3. FileInv(r)  BY DEF JournalInv
<1>4. PriorSha(r) = request[r]  BY <1>3 DEF FileInv, PriorSha
<1>5. CASE /\ raw[d][r] \in Oversize \/ PriorSha(r) \notin {None, raw[d][r]}
           /\ Goto(d, r, "refuse") /\ UNCHANGED out
  <2>1. pc'[d][r] = "refuse" /\ raw'[d][r] = raw[d][r] /\ claim'[r] = d
        /\ FilesKept(r) /\ Local(d, r) /\ FileInv(r)'
    BY <1>0, <1>1, <1>2, <1>5, GotoStep
  <2>2. WorkerInv(d, r)'
    BY <1>4, <1>5, <2>1, Members DEF WorkerInv, FilesKept, Fresh
  <2>. QED  BY <1>1, <2>1, <2>2, OwnerStep
<1>6. CASE /\ PriorSha(r) \in {None, raw[d][r]} /\ finished[r] # None
           /\ Goto(d, r, "upload") /\ UNCHANGED out
  <2>1. pc'[d][r] = "upload" /\ raw'[d][r] = raw[d][r] /\ claim'[r] = d
        /\ FilesKept(r) /\ Local(d, r) /\ FileInv(r)'
    BY <1>0, <1>1, <1>2, <1>6, GotoStep
  <2>2. request[r] = raw[d][r]  BY <1>3, <1>4, <1>6 DEF FileInv
  <2>3. WorkerInv(d, r)'
    BY <1>6, <2>1, <2>2, Members DEF WorkerInv, FilesKept, Fresh
  <2>. QED  BY <1>1, <2>1, <2>3, OwnerStep
<1>7. CASE /\ PriorSha(r) \in {None, raw[d][r]} /\ started[r] # None /\ finished[r] = None
           /\ Record(d, r, "indeterminate", "persist")
  <2>1. pc'[d][r] = "persist" /\ out'[d][r] = "indeterminate" /\ raw'[d][r] = raw[d][r]
        /\ claim'[r] = d /\ FilesKept(r) /\ Local(d, r) /\ FileInv(r)'
    BY <1>0, <1>1, <1>2, <1>7, RecordStep
  <2>2. request[r] = raw[d][r]  BY <1>3, <1>4, <1>7 DEF FileInv
  <2>3. WorkerInv(d, r)'
    BY <1>7, <2>1, <2>2, Members DEF WorkerInv, FilesKept, Fresh
  <2>. QED  BY <1>1, <2>1, <2>3, OwnerStep
<1>8. CASE /\ raw[d][r] \notin Oversize /\ PriorSha(r) \in {None, raw[d][r]}
           /\ started[r] = None /\ finished[r] = None
           /\ Goto(d, r, "admit") /\ UNCHANGED out
  <2>1. pc'[d][r] = "admit" /\ raw'[d][r] = raw[d][r] /\ claim'[r] = d
        /\ FilesKept(r) /\ Local(d, r) /\ FileInv(r)'
    BY <1>0, <1>1, <1>2, <1>8, GotoStep
  <2>2. WorkerInv(d, r)'
    BY <1>4, <1>8, <2>1, Members DEF WorkerInv, FilesKept, Fresh
  <2>. QED  BY <1>1, <2>1, <2>2, OwnerStep
<1>9. finished[r] # None => result[r] # None  BY <1>3 DEF FileInv
<1>10. \/ started[r] # None /\ finished[r] = None
       \/ started[r] = None /\ finished[r] = None
       \/ finished[r] # None
  OBVIOUS
<1>. QED  BY <1>5, <1>6, <1>7, <1>8, <1>9, <1>10 DEF Inspect

LEMMA AdmitPlanStep ==
  ASSUME TypeInv, JournalInv, NEW d \in Daemons, NEW r \in Requests,
         Admit(d, r) \/ Plan(d, r) \/ Await(d, r)
  PROVE  JournalInv'
<1>0. TypeOK /\ raw[d][r] \in Bytes
  BY DEF TypeInv, WorkerKnows, Admit, Plan, Await, At
<1>1. pc[d][r] \in Owning  BY Members DEF Admit, Plan, Await, At
<1>2. FileInv(r) /\ WorkerInv(d, r)  BY DEF JournalInv
<1>3. CASE Admit(d, r)
  <2>1. Goto(d, r, "plan") /\ request' = [request EXCEPT ![r] = raw[d][r]]
        /\ UNCHANGED <<answer, started, result, finished, claim, raw, out, runs>>
    BY <1>3 DEF Admit, mailboxVars, childVars
  <2>2. pc'[d][r] = "plan" /\ request'[r] = raw[d][r]
    BY <1>0, <2>1, LocalGoto DEF TypeOK
  <2>3. Local(d, r)
    BY <1>0, <2>1, LocalGoto DEF Local, FilesKept, WorkerKept, TypeOK
  <2>4. /\ claim[r] = d /\ finished[r] = None /\ started[r] = None
        /\ raw[d][r] \notin Oversize /\ request[r] \in {None, raw[d][r]}
    BY <1>1, <1>2, <1>3, Members DEF WorkerInv, Admit, At, Fresh
  <2>5. FileInv(r)'
    BY <1>0, <1>2, <2>1, <2>2, <2>4, ConstantsAssumption DEF FileInv
  <2>6. WorkerInv(d, r)'
    BY <2>1, <2>2, <2>4, Members DEF WorkerInv, Fresh
  <2>. QED  BY <1>1, <2>3, <2>5, <2>6, OwnerStep
<1>4. CASE Plan(d, r) \/ Await(d, r)
  <2>1. /\ claim[r] = d /\ finished[r] = None /\ started[r] = None
        /\ request[r] = raw[d][r]
    BY <1>1, <1>2, <1>4, Members DEF WorkerInv, Plan, Await, At, Fresh
  <2>2. UNCHANGED <<answer, request, started, result, finished, claim, raw, runs>>
    BY <1>4 DEF Plan, Await, mailboxVars, journalVars, childVars
  <2>3. \/ Goto(d, r, "await") /\ UNCHANGED out
        \/ Goto(d, r, "start") /\ UNCHANGED out
        \/ Record(d, r, "rejected", "persist")
    BY <1>4 DEF Plan, Ask, Await
  <2>4. /\ \/ pc'[d][r] \in {"await", "start"}
           \/ pc'[d][r] = "persist" /\ out'[d][r] = "rejected"
        /\ raw'[d][r] = raw[d][r] /\ claim'[r] = d
        /\ FilesKept(r) /\ Local(d, r) /\ FileInv(r)'
    <3>1. CASE Goto(d, r, "await") /\ UNCHANGED out
      BY <1>0, <1>1, <2>2, <3>1, GotoStep
    <3>2. CASE Goto(d, r, "start") /\ UNCHANGED out
      BY <1>0, <1>1, <2>2, <3>2, GotoStep
    <3>3. CASE Record(d, r, "rejected", "persist")
      BY <1>0, <1>1, <2>2, <3>3, RecordStep
    <3>. QED  BY <2>3, <3>1, <3>2, <3>3
  <2>5. WorkerInv(d, r)'
    BY <2>1, <2>4, Members DEF WorkerInv, FilesKept, Fresh
  <2>. QED  BY <1>1, <2>4, <2>5, OwnerStep
<1>. QED  BY <1>3, <1>4

LEMMA StartSpawnStep ==
  ASSUME TypeInv, ExecInv, JournalInv, NEW d \in Daemons, NEW r \in Requests,
         Start(d, r) \/ Spawn(d, r)
  PROVE  JournalInv'
<1>0. TypeOK /\ raw[d][r] \in Bytes /\ raw[d][r] # None
  BY ConstantsAssumption DEF TypeInv, WorkerKnows, Start, Spawn, At
<1>1. pc[d][r] \in Owning  BY Members DEF Start, Spawn, At
<1>2. FileInv(r) /\ WorkerInv(d, r)  BY DEF JournalInv
<1>3. claim[r] = d /\ finished[r] = None /\ request[r] = raw[d][r]
  BY <1>1, <1>2, Members DEF WorkerInv, Start, Spawn, At, Fresh
<1>4. CASE Start(d, r)
  <2>1. started[r] = None
    BY <1>1, <1>2, <1>4 DEF WorkerInv, Start, At
  <2>2. /\ started' = [started EXCEPT ![r] = raw[d][r]]
        /\ UNCHANGED <<answer, request, result, finished, runs>>
    BY <1>4, <2>1 DEF Start, mailboxVars, childVars
  <2>3. \/ Goto(d, r, "spawn") /\ UNCHANGED <<raw, out, demand, claim>>
        \/ EndWorker(d, r)
    BY <1>4, <2>1 DEF Start
  <2>4. /\ \/ pc'[d][r] = "spawn" /\ raw'[d][r] = raw[d][r] /\ claim'[r] = d
           \/ pc'[d][r] = "idle"
        /\ Local(d, r)
    BY <1>0, <1>3, <2>2, <2>3, LocalGoto, LocalEnd DEF Local, FilesKept, WorkerKept, TypeOK
  <2>5. FileInv(r)'
    BY <1>0, <1>2, <1>3, <2>2 DEF FileInv, TypeOK
  <2>6. WorkerInv(d, r)'
    BY <1>3, <2>2, <2>4, Members DEF WorkerInv, Fresh
  <2>. QED  BY <1>1, <2>4, <2>5, <2>6, OwnerStep
<1>5. CASE Spawn(d, r)
  <2>1. UNCHANGED <<answer, request, started, result, finished, claim, raw>>
    BY <1>5 DEF Spawn, mailboxVars, journalVars
  <2>2. CASE Goto(d, r, "spawned") /\ UNCHANGED out /\ runs' = [runs EXCEPT ![r] = @ + 1]
    <3>1. pc'[d][r] = "spawned" /\ Local(d, r)
      BY <1>0, <2>1, <2>2, LocalGoto DEF Local, FilesKept, WorkerKept, TypeOK
    <3>2. runs'[r] = 1
      BY <1>0, <1>5, <2>2 DEF ExecInv, Spawn, At, TypeOK
    <3>3. FileInv(r)'  BY <1>2, <2>1, <1>3, <3>2 DEF FileInv
    <3>4. WorkerInv(d, r)'
      BY <1>3, <2>1, <3>1, <3>2, Members DEF WorkerInv, Fresh
    <3>. QED  BY <1>1, <3>1, <3>3, <3>4, OwnerStep
  <2>3. CASE Record(d, r, "indeterminate", "ended") /\ UNCHANGED runs
    <3>1. pc'[d][r] = "ended" /\ out'[d][r] = "indeterminate" /\ raw'[d][r] = raw[d][r]
          /\ claim'[r] = d /\ FilesKept(r) /\ Local(d, r) /\ FileInv(r)'
      BY <1>0, <1>1, <2>1, <2>3, RecordStep
    <3>2. WorkerInv(d, r)'
      BY <1>3, <3>1, Members DEF WorkerInv, FilesKept, Fresh
    <3>. QED  BY <1>1, <3>1, <3>2, OwnerStep
  <2>. QED  BY <1>5, <2>2, <2>3 DEF Spawn, childVars
<1>. QED  BY <1>4, <1>5

LEMMA RunStep ==
  ASSUME TypeInv, JournalInv, NEW d \in Daemons, NEW r \in Requests,
         \/ RecordSpawn(d, r) \/ RunRaises(d, r) \/ ChildGone(d, r) \/ Deadline(d, r)
         \/ Abort(d, r) \/ Ended(d, r)
  PROVE  JournalInv'
<1>0. TypeOK  BY DEF TypeInv
<1>1. pc[d][r] \in {"spawned", "running", "ended"}
  BY DEF RecordSpawn, RunRaises, ChildGone, Deadline, Abort, Ended, At
<1>2. pc[d][r] \in Owning  BY <1>1, Members
<1>3. WorkerInv(d, r)  BY DEF JournalInv
<1>4. claim[r] = d /\ finished[r] = None /\ request[r] = raw[d][r]
  BY <1>1, <1>2, <1>3, Members DEF WorkerInv, Fresh
<1>5. UNCHANGED <<answer, request, started, result, finished, claim, raw, runs>>
  BY DEF RecordSpawn, RunRaises, ChildGone, Deadline, Abort, Ended, mailboxVars,
     journalVars, childVars
<1>6. CASE RecordSpawn(d, r) /\ Goto(d, r, "running") /\ UNCHANGED out
  <2>1. pc'[d][r] = "running" /\ raw'[d][r] = raw[d][r] /\ claim'[r] = d
        /\ FilesKept(r) /\ Local(d, r) /\ FileInv(r)'
    BY <1>0, <1>2, <1>5, <1>6, GotoStep
  <2>2. runs[r] # 0
    BY <1>2, <1>3, <1>6 DEF WorkerInv, RecordSpawn, At
  <2>3. WorkerInv(d, r)'
    BY <1>4, <2>1, <2>2, Members DEF WorkerInv, FilesKept, Fresh
  <2>. QED  BY <1>2, <2>1, <2>3, OwnerStep
<1>7. ASSUME NEW status \in {"completed", "indeterminate"},
             pc[d][r] \in {"spawned", "running"}, Record(d, r, status, "ended")
      PROVE  JournalInv'
  <2>1. pc'[d][r] = "ended" /\ out'[d][r] = status /\ raw'[d][r] = raw[d][r]
        /\ claim'[r] = d /\ FilesKept(r) /\ Local(d, r) /\ FileInv(r)'
    BY <1>0, <1>2, <1>5, <1>7, RecordStep
  <2>2. runs[r] # 0  BY <1>2, <1>3, <1>7 DEF WorkerInv
  <2>3. WorkerInv(d, r)'
    BY <1>4, <1>7, <2>1, <2>2, Members DEF WorkerInv, FilesKept, Fresh
  <2>. QED  BY <1>2, <2>1, <2>3, OwnerStep
<1>8. CASE Ended(d, r)
  <2>1. Goto(d, r, "persist") /\ UNCHANGED out /\ pc[d][r] = "ended"
    BY <1>8 DEF Ended, At
  <2>2. pc'[d][r] = "persist" /\ out'[d][r] = out[d][r] /\ raw'[d][r] = raw[d][r]
        /\ claim'[r] = d /\ FilesKept(r) /\ Local(d, r) /\ FileInv(r)'
    BY <1>0, <1>2, <1>5, <2>1, GotoStep
  <2>3. /\ out[d][r] = "rejected" => started[r] = None
        /\ out[d][r] = "completed" => runs[r] # 0
    BY <1>2, <1>3, <2>1 DEF WorkerInv
  <2>4. WorkerInv(d, r)'
    BY <1>4, <2>2, <2>3, Members DEF WorkerInv, FilesKept, Fresh
  <2>. QED  BY <1>2, <2>2, <2>4, OwnerStep
<1>9. CASE RecordSpawn(d, r) /\ Record(d, r, "indeterminate", "ended")
  BY <1>7, <1>9 DEF RecordSpawn, At
<1>10. CASE RunRaises(d, r) \/ ChildGone(d, r) \/ Deadline(d, r) \/ Abort(d, r)
  BY <1>7, <1>10 DEF RunRaises, ChildGone, Deadline, Abort, At
<1>. QED  BY <1>6, <1>8, <1>9, <1>10 DEF RecordSpawn

\* The two journal writes of _persist_then_publish.
LEMMA PersistFinishStep ==
  ASSUME TypeInv, JournalInv, NEW d \in Daemons, NEW r \in Requests,
         Persist(d, r) \/ Finish(d, r)
  PROVE  JournalInv'
<1>0. TypeOK /\ raw[d][r] \in Bytes /\ raw[d][r] # None
  BY ConstantsAssumption DEF TypeInv, WorkerKnows, Persist, Finish, At
<1>1. pc[d][r] \in Owning  BY Members DEF Persist, Finish, At
<1>2. FileInv(r) /\ WorkerInv(d, r)  BY DEF JournalInv
<1>3. /\ claim[r] = d /\ finished[r] = None /\ request[r] = raw[d][r]
      /\ out[d][r] = "rejected" => started[r] = None
      /\ out[d][r] = "completed" => runs[r] # 0
  BY <1>1, <1>2, Members DEF WorkerInv, Persist, Finish, At, Fresh
<1>4. CASE Persist(d, r)
  <2>1. /\ result' = [result EXCEPT ![r] = Journalled(d, r)]
        /\ Goto(d, r, "finish")
        /\ UNCHANGED <<answer, request, started, finished, claim, raw, out, runs>>
    BY <1>4 DEF Persist, mailboxVars, childVars
  <2>2. result'[r] = Journalled(d, r)  BY <1>0, <2>1 DEF TypeOK
  <2>3. pc'[d][r] = "finish" /\ Local(d, r)
    BY <1>0, <2>1, LocalGoto DEF Local, FilesKept, WorkerKept, TypeOK
  <2>4. answer[r] # None => answer[r].kind # "journal"
    <3>1. answer[r] # None => answer[r].sha \in Bytes  BY <1>0 DEF TypeOK, Result
    <3>. QED  BY <1>2, <1>3, <3>1, ConstantsAssumption DEF FileInv
  <2>5. FileInv(r)'  BY <1>2, <1>3, <2>1, <2>4 DEF FileInv
  <2>6. WorkerInv(d, r)'
    BY <1>3, <2>1, <2>2, <2>3, Members DEF WorkerInv, Fresh, Journalled
  <2>. QED  BY <1>1, <2>3, <2>5, <2>6, OwnerStep
<1>5. CASE Finish(d, r)
  <2>1. /\ finished' = [finished EXCEPT ![r] = raw[d][r]]
        /\ Goto(d, r, "upload")
        /\ UNCHANGED <<answer, request, started, result, claim, raw, out, runs>>
    BY <1>5 DEF Finish, mailboxVars, childVars
  <2>2. finished'[r] = raw[d][r]  BY <1>0, <2>1 DEF TypeOK
  <2>3. pc'[d][r] = "upload" /\ Local(d, r)
    BY <1>0, <2>1, LocalGoto DEF Local, FilesKept, WorkerKept, TypeOK
  <2>4. result[r] = Journalled(d, r)
    BY <1>1, <1>2, <1>5 DEF WorkerInv, Finish, At
  <2>5. /\ result[r].kind = "journal" /\ result[r].sha = raw[d][r]
        /\ result[r].status = out[d][r]
    BY <2>4 DEF Journalled
  <2>6. result[r] # None
    <3>1. out[d][r] \in Statuses
      BY <1>5 DEF TypeInv, WorkerKnows, Finish, At
    <3>2. Journalled(d, r) \in Result  BY <1>0, <3>1 DEF Journalled, Result
    <3>. QED  BY <2>4, <3>2, ConstantsAssumption
  <2>7. answer[r] # None => answer[r].kind # "journal"
    <3>1. answer[r] # None => answer[r].sha \in Bytes  BY <1>0 DEF TypeOK, Result
    <3>. QED  BY <1>2, <1>3, <3>1, ConstantsAssumption DEF FileInv
  <2>8. FileInv(r)'
    BY <1>2, <1>3, <2>1, <2>2, <2>5, <2>6, <2>7 DEF FileInv
  <2>9. WorkerInv(d, r)'
    BY <1>0, <1>3, <2>1, <2>2, <2>3, Members DEF WorkerInv, Fresh
  <2>. QED  BY <1>1, <2>3, <2>8, <2>9, OwnerStep
<1>. QED  BY <1>4, <1>5

\* Publication: the upload of the journalled result or of a refusal.
LEMMA AnswerInv ==
  ASSUME TypeInv, JournalInv, NEW d \in Daemons, NEW r \in Requests, Uploading(d, r),
         UNCHANGED <<request, started, result, finished, runs>>,
         answer'[r] \in {answer[r], Uploaded(d, r)}
  PROVE  FileInv(r)'
<1>1. FileInv(r)  BY DEF JournalInv
<1>2. CASE answer'[r] = answer[r]  BY <1>1, <1>2 DEF FileInv
<1>3. CASE answer'[r] = Uploaded(d, r) /\ pc[d][r] = "upload"
  <2>1. pc[d][r] \in Owning /\ WorkerInv(d, r)  BY <1>3, Members DEF JournalInv
  <2>2. finished[r] # None  BY <1>3, <2>1 DEF WorkerInv
  <2>3. answer'[r] = result[r]  BY <1>3 DEF Uploaded
  <2>. QED  BY <1>1, <2>2, <2>3 DEF FileInv
<1>4. CASE answer'[r] = Uploaded(d, r) /\ pc[d][r] = "refuse"
  <2>1. pc[d][r] \in Owning /\ WorkerInv(d, r)  BY <1>4, Members DEF JournalInv
  <2>2. raw[d][r] \in Oversize \/ request[r] \notin {None, raw[d][r]}
    BY <1>4, <2>1 DEF WorkerInv
  <2>3. answer'[r] = Refusal(d, r)  BY <1>4 DEF Uploaded
  <2>4. answer'[r].kind = "refusal" /\ answer'[r].sha = raw[d][r]
    BY <2>3 DEF Refusal
  <2>. QED  BY <1>1, <2>2, <2>4 DEF FileInv
<1>. QED  BY <1>2, <1>3, <1>4 DEF Uploading, At

LEMMA PublishStep ==
  ASSUME TypeInv, JournalInv, NEW d \in Daemons, NEW r \in Requests,
         Upload(d, r) \/ Delete(d, r) \/ WorkerFault(d, r)
  PROVE  JournalInv'
<1>0. TypeOK  BY DEF TypeInv
<1>1. CASE Upload(d, r)
  <2>1. /\ answer' = [answer EXCEPT ![r] = Uploaded(d, r)] /\ Goto(d, r, "delete")
        /\ UNCHANGED <<request, started, result, finished, claim, raw, out, runs>>
    BY <1>1 DEF Upload, journalVars, childVars
  <2>2. pc[d][r] \in Owning  BY <1>1, Members DEF Upload, Uploading, At
  <2>3. pc'[d][r] = "delete" /\ Local(d, r) /\ answer'[r] = Uploaded(d, r)
    BY <1>0, <2>1, LocalGoto DEF Local, FilesKept, WorkerKept, TypeOK
  <2>4. FileInv(r)'  BY <1>1, <2>1, <2>3, AnswerInv DEF Upload
  <2>5. claim'[r] = d  BY <2>1, <2>2 DEF JournalInv, WorkerInv
  <2>6. WorkerInv(d, r)'  BY <2>3, <2>5, Members DEF WorkerInv, Fresh
  <2>. QED  BY <2>2, <2>3, <2>4, <2>6, OwnerStep
<1>2. CASE Delete(d, r) \/ IoError(d, r)
  BY <1>0, <1>2, EndStep DEF Delete, IoError, mailboxVars, journalVars, childVars
<1>3. CASE TransportError(d, r) /\ UNCHANGED answer
  BY <1>0, <1>3, EndStep DEF TransportError, journalVars, childVars
<1>4. CASE /\ TransportError(d, r) /\ Uploading(d, r)
           /\ answer' \in {answer, [answer EXCEPT ![r] = Uploaded(d, r)]}
  <2>1. /\ EndWorker(d, r)
        /\ UNCHANGED <<request, started, result, finished, runs>>
    BY <1>4 DEF TransportError, journalVars, childVars
  <2>2. pc[d][r] \in Owning  BY <1>4, Members DEF Uploading, At
  <2>3. pc'[d][r] = "idle" /\ Local(d, r) /\ answer'[r] \in {answer[r], Uploaded(d, r)}
    BY <1>0, <1>4, <2>1, LocalEnd DEF Local, FilesKept, TypeOK
  <2>4. FileInv(r)'  BY <1>4, <2>1, <2>3, AnswerInv
  <2>5. WorkerInv(d, r)'  BY <2>3, Members DEF WorkerInv
  <2>. QED  BY <2>2, <2>3, <2>4, <2>5, OwnerStep
<1>. QED  BY <1>1, <1>2, <1>3, <1>4 DEF WorkerFault, TransportError

\* Steps that move no worker and touch no file of the journal.
LEMMA Elsewhere ==
  ASSUME JournalInv, UNCHANGED <<answer, request, started, result, finished, runs,
                                 claim, pc, raw, out>>
  PROVE  JournalInv'
BY DEF JournalInv, FileInv, WorkerInv, Journalled

LEMMA DaemonInvStep ==
  ASSUME TypeInv, JournalInv, NEW d \in Daemons, DaemonStep(d)
  PROVE  JournalInv'
<1>0. TypeOK  BY DEF TypeInv
<1>1. CASE Crash(d)
  <2>1. /\ \A q \in Requests : pc'[d][q] = "idle" /\ FilesKept(q)
        /\ \A e \in Daemons \ {d}, q \in Requests : WorkerKept(e, q)
        /\ \A q \in Requests : claim'[q] = IF claim[q] = d THEN None ELSE claim[q]
    BY <1>0, <1>1 DEF Crash, TypeOK, FilesKept, WorkerKept, mailboxVars, journalVars, childVars
  <2>2. ASSUME NEW q \in Requests  PROVE FileInv(q)'
    BY <2>1 DEF JournalInv, FileInv, FilesKept
  <2>3. ASSUME NEW q \in Requests, NEW e \in Daemons, e # d  PROVE WorkerInv(e, q)'
    <3>1. FilesKept(q) /\ WorkerKept(e, q)  BY <2>1, <2>3
    <3>2. claim[q] = e => claim'[q] = e  BY <2>1, <2>3
    <3>. QED  BY <3>1, <3>2 DEF JournalInv, WorkerInv, FilesKept, WorkerKept, Journalled
  <2>4. ASSUME NEW q \in Requests  PROVE WorkerInv(d, q)'
    BY <2>1, Members DEF WorkerInv
  <2>. QED  BY <2>2, <2>3, <2>4 DEF JournalInv
<1>2. ASSUME NEW r \in Requests, Dispatch(d, r)  PROVE JournalInv'
  <2>1. Goto(d, r, "fetch")
        /\ UNCHANGED <<answer, request, started, result, finished, runs, claim, raw, out>>
    BY <1>2 DEF Dispatch, mailboxVars, journalVars, childVars
  <2>2. pc'[d][r] = "fetch" /\ Local(d, r) /\ FilesKept(r)
    BY <1>0, <2>1, LocalGoto DEF Local, FilesKept, WorkerKept
  <2>. QED  BY <2>1, <2>2, GuestStep, Members
<1>3. ASSUME NEW r \in Requests, Sweep(d, r) \/ Signal(d, r)  PROVE JournalInv'
  BY <1>3, Elsewhere DEF Sweep, Signal, mailboxVars, journalVars, workerVars
<1>4. CASE Boot(d) \/ EnterLoop(d) \/ Shutdown(d) \/ LeaveLoop(d) \/ LoseLock(d) \/ Exit(d)
  BY <1>4, Elsewhere DEF Boot, EnterLoop, Shutdown, LeaveLoop, LoseLock, Exit,
     mailboxVars, journalVars, childVars, workerVars
<1>. QED  BY <1>1, <1>2, <1>3, <1>4 DEF DaemonStep

LEMMA JournalStep ==
  ASSUME StableClaims, TypeInv, ExecInv, JournalInv, [Next]_vars
  PROVE  JournalInv'
<1>1. ASSUME NEW d \in Daemons, NEW r \in Requests, WorkerStep(d, r) \/ WorkerFault(d, r)
      PROVE  JournalInv'
  BY <1>1, FetchClaimStep, InspectStep, AdmitPlanStep, StartSpawnStep, RunStep,
     PersistFinishStep, PublishStep DEF WorkerStep
<1>2. ASSUME NEW d \in Daemons, DaemonStep(d)  PROVE JournalInv'
  BY <1>2, DaemonInvStep
<1>3. CASE Environment
  BY <1>3, Elsewhere DEF Environment, Submit, Decide, Expire, ChildExits,
     mailboxVars, journalVars, childVars, workerVars
<1>4. CASE UNCHANGED vars
  BY <1>4, Elsewhere DEF vars, mailboxVars, journalVars, childVars, workerVars
<1>. QED  BY <1>1, <1>2, <1>3, <1>4 DEF Next

LEMMA JournalInvariant ==
  ASSUME StableClaims  PROVE Spec => []JournalInv
<1>1. Init => JournalInv
  BY ConstantsAssumption, Members DEF Init, JournalInv, FileInv, WorkerInv
<1>2. TypeInv /\ ExecInv /\ JournalInv /\ [Next]_vars => JournalInv'
  BY JournalStep
<1>. QED  BY <1>1, <1>2, TypeInvariant, ExecInvariant, PTL DEF Spec

-----------------------------------------------------------------------------
\* What the client sees as the outcome of its request is the durably FINISHED
\* result.json: _publish_stored uploads nothing else.
THEOREM AnswersAreJournalled ==
  ASSUME StableClaims  PROVE Spec => []AnswerIsJournalled
<1>1. JournalInv => AnswerIsJournalled  BY DEF JournalInv, FileInv, AnswerIsJournalled
<1>. QED  BY <1>1, JournalInvariant, PTL

\* A client told "rejected" knows that those bytes were never STARTED, whether
\* the refusal came from policy, the operator, a reused id or the size limit.
THEOREM RejectionsNeverRan ==
  ASSUME StableClaims  PROVE Spec => []RejectedNeverRan
<1>1. TypeInv /\ JournalInv => RejectedNeverRan
  <2> SUFFICES ASSUME TypeOK, JournalInv, NEW r \in Requests, answer[r] # None,
                      answer[r].status = "rejected"
               PROVE  started[r] # answer[r].sha
    BY DEF TypeInv, RejectedNeverRan
  <2>1. answer[r].sha \in Bytes /\ answer[r].kind \in {"journal", "refusal"}
    BY DEF TypeOK, Result
  <2>2. FileInv(r)  BY DEF JournalInv
  <2>3. CASE answer[r].kind = "journal"
    BY <2>1, <2>2, <2>3, ConstantsAssumption DEF FileInv
  <2>4. CASE answer[r].kind = "refusal"
    BY <2>1, <2>2, <2>4, ConstantsAssumption DEF FileInv
  <2>. QED  BY <2>1, <2>3, <2>4
<1>. QED  BY <1>1, JournalInvariant, TypeInvariant, PTL

\* Only the two writes of _persist_then_publish touch a result, and they are
\* reached only by the claim's holder of a request that is not FINISHED.
LEMMA OutcomeWrites ==
  ASSUME TypeOK, JournalInv, [Next]_vars, NEW r \in Requests, finished[r] # None
  PROVE  result'[r] = result[r] /\ finished'[r] = finished[r]
<1>1. ASSUME NEW d \in Daemons, NEW q \in Requests, Persist(d, q) \/ Finish(d, q)
      PROVE  result'[r] = result[r] /\ finished'[r] = finished[r]
  <2>1. pc[d][q] \in Owning /\ pc[d][q] \in Fresh
    BY <1>1, Members DEF Persist, Finish, At, Fresh
  <2>2. q # r  BY <2>1 DEF JournalInv, WorkerInv
  <2>. QED  BY <1>1, <2>2 DEF Persist, Finish, TypeOK
<1>2. CASE ~ \E d \in Daemons, q \in Requests : Persist(d, q) \/ Finish(d, q)
  <2>1. UNCHANGED <<result, finished>>
    <3>1. ASSUME NEW d \in Daemons, NEW q \in Requests, WorkerStep(d, q)
          PROVE  UNCHANGED <<result, finished>>
      BY <1>2, <3>1 DEF WorkerStep, Fetch, Claim, Inspect, Admit, Plan, Await, Start,
         Spawn, RecordSpawn, RunRaises, ChildGone, Deadline, Abort, Ended, Upload,
         Delete, journalVars
    <3>2. ASSUME NEW d \in Daemons, NEW q \in Requests, WorkerFault(d, q)
          PROVE  UNCHANGED <<result, finished>>
      BY <3>2 DEF WorkerFault, IoError, TransportError, journalVars
    <3>3. ASSUME NEW d \in Daemons, DaemonStep(d)
          PROVE  UNCHANGED <<result, finished>>
      BY <3>3 DEF DaemonStep, Boot, Sweep, EnterLoop, Dispatch, Shutdown, Signal,
         LeaveLoop, LoseLock, Exit, Crash, journalVars
    <3>4. CASE Environment \/ UNCHANGED vars
      BY <3>4 DEF Environment, Submit, Decide, Expire, ChildExits, vars, journalVars
    <3>. QED  BY <3>1, <3>2, <3>3, <3>4 DEF Next
  <2>. QED  BY <2>1
<1>. QED  BY <1>1, <1>2

\* A terminal result is immutable: no retry, recovery, sweep or second daemon
\* rewrites result.json or finished.json of a FINISHED request.
THEOREM TerminalResults ==
  ASSUME StableClaims  PROVE Spec => TerminalIsFinal
<1>1. TypeInv /\ JournalInv /\ [Next]_vars =>
        [\A r \in Requests : finished[r] # None =>
           result'[r] = result[r] /\ finished'[r] = finished[r]]_vars
  BY OutcomeWrites DEF TypeInv
<1>. QED  BY <1>1, JournalInvariant, TypeInvariant, PTL DEF Spec, TerminalIsFinal

-----------------------------------------------------------------------------
(***************************************************************************)
(* RequestJournal implements RequestLifecycle, for every set of requests,  *)
(* contents and daemons, as long as claim files are never replaced.  Four  *)
(* steps of a worker are steps of the lifecycle: the link of started.json, *)
(* the spawn, the write of finished.json and the upload; every other step, *)
(* the write of result.json, crashes and recovery included, is a stutter.  *)
(***************************************************************************)

\* The refinement mapping of Lifecycle, request by request.
LifeOf(r)    == IF finished[r] # None THEN "closed"
                ELSE IF started[r] # None THEN "started" ELSE "open"
RanOf(r)     == runs[r] > 0
VerdictOf(r) == IF finished[r] # None THEN result[r].status ELSE None
ToldOf(r)    == IF answer[r] # None /\ answer[r].kind = "journal"
                THEN answer[r].status ELSE None

\* The lifecycle does not see a step that keeps these four of every request.
Unseen(q) ==
  LifeOf(q)' = LifeOf(q) /\ RanOf(q)' = RanOf(q)
    /\ VerdictOf(q)' = VerdictOf(q) /\ ToldOf(q)' = ToldOf(q)

Simulated == Lifecycle!Next \/ UNCHANGED Lifecycle!vars

-----------------------------------------------------------------------------
\* The steps of the lifecycle, told request by request.
LEMMA MapAdmit ==
  ASSUME NEW r \in Requests, \A q \in Requests \ {r} : Unseen(q),
         LifeOf(r) = "open", LifeOf(r)' = "started", RanOf(r)' = RanOf(r),
         VerdictOf(r)' = VerdictOf(r), ToldOf(r)' = ToldOf(r)
  PROVE  Simulated
<1>1. Lifecycle!Admit(r)
  BY DEF Lifecycle!Admit, Unseen, LifeOf, RanOf, VerdictOf, ToldOf
<1>. QED  BY <1>1 DEF Simulated, Lifecycle!Next

LEMMA MapRun ==
  ASSUME NEW r \in Requests, \A q \in Requests \ {r} : Unseen(q),
         LifeOf(r) = "started", ~RanOf(r), LifeOf(r)' = LifeOf(r), RanOf(r)' = TRUE,
         VerdictOf(r)' = VerdictOf(r), ToldOf(r)' = ToldOf(r)
  PROVE  Simulated
<1>1. Lifecycle!Run(r)
  BY DEF Lifecycle!Run, Unseen, LifeOf, RanOf, VerdictOf, ToldOf
<1>. QED  BY <1>1 DEF Simulated, Lifecycle!Next

LEMMA MapClose ==
  ASSUME NEW r \in Requests, \A q \in Requests \ {r} : Unseen(q),
         NEW status \in Statuses,
         LifeOf(r) # "closed", LifeOf(r)' = "closed", VerdictOf(r)' = status,
         status = "completed" => RanOf(r), status = "rejected" => LifeOf(r) = "open",
         RanOf(r)' = RanOf(r), ToldOf(r)' = ToldOf(r)
  PROVE  Simulated
<1>1. Lifecycle!Close(r, status)
  BY DEF Lifecycle!Close, Statuses, Unseen, LifeOf, RanOf, VerdictOf, ToldOf
<1>. QED  BY <1>1 DEF Simulated, Lifecycle!Next, Statuses

LEMMA MapTell ==
  ASSUME NEW r \in Requests, \A q \in Requests \ {r} : Unseen(q),
         LifeOf(r)' = LifeOf(r), RanOf(r)' = RanOf(r), VerdictOf(r)' = VerdictOf(r),
         \/ LifeOf(r) = "closed" /\ ToldOf(r)' = VerdictOf(r)
         \/ ToldOf(r)' = None
  PROVE  Simulated
<1>1. Lifecycle!Tell(r) \/ Lifecycle!Hide(r)
  BY DEF Lifecycle!Tell, Lifecycle!Hide, Unseen, LifeOf, RanOf, VerdictOf, ToldOf
<1>. QED  BY <1>1 DEF Simulated, Lifecycle!Next

LEMMA MapStutter ==
  ASSUME \A q \in Requests : Unseen(q)
  PROVE  Simulated
<1>1. UNCHANGED Lifecycle!vars
  BY DEF Lifecycle!vars, Unseen, LifeOf, RanOf, VerdictOf, ToldOf
<1>. QED  BY <1>1 DEF Simulated

\* A request whose files stay as they are is not seen to move.
LEMMA KeptUnseen ==
  ASSUME NEW q \in Requests, FilesKept(q)
  PROVE  Unseen(q)
BY DEF FilesKept, Unseen, LifeOf, RanOf, VerdictOf, ToldOf

-----------------------------------------------------------------------------
LEMMA InitLifecycle == Init => Lifecycle!Init
<1> SUFFICES ASSUME Init  PROVE Lifecycle!Init
  OBVIOUS
<1>1. [r \in Requests |-> LifeOf(r)] = [r \in Requests |-> "open"]
  BY DEF Init, LifeOf
<1>2. [r \in Requests |-> RanOf(r)] = [r \in Requests |-> FALSE]
  <2>1. \A r \in Requests : runs[r] = 0  BY DEF Init
  <2>2. \A r \in Requests : RanOf(r) = FALSE  BY <2>1 DEF RanOf
  <2>. QED  BY <2>2, Zenon
<1>3. [r \in Requests |-> VerdictOf(r)] = [r \in Requests |-> None]
  BY DEF Init, VerdictOf
<1>4. [r \in Requests |-> ToldOf(r)] = [r \in Requests |-> None]
  BY DEF Init, ToldOf
<1>. QED  BY <1>1, <1>2, <1>3, <1>4 DEF Lifecycle!Init, LifeOf, RanOf, VerdictOf, ToldOf

\* started.json appears: the request is admitted.
LEMMA StartSimulated ==
  ASSUME TypeInv, JournalInv, NEW d \in Daemons, NEW r \in Requests, Start(d, r)
  PROVE  Simulated
<1>1. TypeOK /\ raw[d][r] # None
  BY ConstantsAssumption DEF TypeInv, WorkerKnows, Start, At
<1>2. finished[r] = None /\ started[r] = None
  BY Members DEF JournalInv, WorkerInv, Start, At, Fresh
<1>3. started' = [started EXCEPT ![r] = raw[d][r]]
      /\ UNCHANGED <<answer, request, result, finished, runs>>
  BY <1>2 DEF Start, mailboxVars, childVars
<1>4. \A q \in Requests \ {r} : Unseen(q)
  BY <1>1, <1>3, KeptUnseen DEF FilesKept, TypeOK
<1>5. started'[r] # None  BY <1>1, <1>3 DEF TypeOK
<1>. QED  BY <1>2, <1>3, <1>4, <1>5, MapAdmit DEF LifeOf, RanOf, VerdictOf, ToldOf

\* The shell is spawned: the request runs, for the first time.
LEMMA SpawnSimulated ==
  ASSUME TypeInv, ExecInv, JournalInv, NEW d \in Daemons, NEW r \in Requests, Spawn(d, r)
  PROVE  Simulated
<1>1. TypeOK  BY DEF TypeInv
<1>2. UNCHANGED <<answer, request, started, result, finished>>
  BY DEF Spawn, mailboxVars, journalVars
<1>3. CASE UNCHANGED runs
  BY <1>2, <1>3, KeptUnseen, MapStutter DEF FilesKept
<1>4. CASE runs' = [runs EXCEPT ![r] = @ + 1]
  <2>1. started[r] # None /\ runs[r] = 0  BY DEF ExecInv, Spawn, At
  <2>2. finished[r] = None
    BY Members DEF JournalInv, WorkerInv, Spawn, At, Fresh
  <2>3. runs'[r] = 1 /\ \A q \in Requests \ {r} : runs'[q] = runs[q]
    BY <1>1, <1>4, <2>1 DEF TypeOK
  <2>4. \A q \in Requests \ {r} : Unseen(q)
    BY <1>2, <2>3, KeptUnseen DEF FilesKept
  <2>5. ~RanOf(r) /\ RanOf(r)'  BY <2>1, <2>3 DEF RanOf
  <2>. QED
    BY <1>2, <2>1, <2>2, <2>4, <2>5, MapRun DEF LifeOf, VerdictOf, ToldOf
<1>. QED  BY <1>3, <1>4 DEF Spawn, childVars

\* finished.json appears: the verdict is the status of the result before it.
LEMMA FinishSimulated ==
  ASSUME TypeInv, JournalInv, NEW d \in Daemons, NEW r \in Requests, Finish(d, r)
  PROVE  Simulated
<1>1. TypeOK /\ raw[d][r] # None /\ out[d][r] \in Statuses /\ pc[d][r] = "finish"
  BY ConstantsAssumption DEF TypeInv, WorkerKnows, Finish, At
<1>2. /\ finished[r] = None /\ result[r] = Journalled(d, r)
      /\ out[d][r] = "rejected" => started[r] = None
      /\ out[d][r] = "completed" => runs[r] # 0
  BY <1>1, Members DEF JournalInv, WorkerInv, Fresh
<1>3. finished' = [finished EXCEPT ![r] = raw[d][r]]
      /\ UNCHANGED <<answer, request, started, result, runs>>
  BY DEF Finish, mailboxVars, childVars
<1>4. \A q \in Requests \ {r} : Unseen(q)
  BY <1>1, <1>3, KeptUnseen DEF FilesKept, TypeOK
<1>5. LifeOf(r)' = "closed" /\ VerdictOf(r)' = result[r].status
  BY <1>1, <1>3 DEF LifeOf, VerdictOf, TypeOK
<1>6. VerdictOf(r)' = out[d][r]
  BY <1>2, <1>5 DEF Journalled
<1>7. runs[r] # 0 => RanOf(r)
  BY <1>1 DEF TypeOK, RanOf
<1>8. LifeOf(r) # "closed" /\ (started[r] = None => LifeOf(r) = "open")
  BY <1>2 DEF LifeOf
<1>9. RanOf(r)' = RanOf(r) /\ ToldOf(r)' = ToldOf(r)
  BY <1>3 DEF RanOf, ToldOf
<1>. QED  BY <1>1, <1>2, <1>4, <1>5, <1>6, <1>7, <1>8, <1>9, MapClose

\* result.json before finished.json: nobody looks at it yet.
LEMMA PersistSimulated ==
  ASSUME TypeInv, JournalInv, NEW d \in Daemons, NEW r \in Requests, Persist(d, r)
  PROVE  Simulated
<1>1. TypeOK /\ pc[d][r] = "persist"
  BY DEF TypeInv, Persist, At
<1>2. finished[r] = None
  BY <1>1, Members DEF JournalInv, WorkerInv, Fresh
<1>3. result' = [result EXCEPT ![r] = Journalled(d, r)]
      /\ UNCHANGED <<answer, request, started, finished, runs>>
  BY DEF Persist, mailboxVars, childVars
<1>4. \A q \in Requests \ {r} : Unseen(q)
  BY <1>1, <1>3, KeptUnseen DEF FilesKept, TypeOK
<1>5. Unseen(r)
  BY <1>2, <1>3 DEF Unseen, LifeOf, RanOf, VerdictOf, ToldOf
<1>. QED  BY <1>4, <1>5, MapStutter

\* An upload tells the verdict, or hides it behind a refusal.
LEMMA UploadSimulated ==
  ASSUME TypeInv, JournalInv, NEW d \in Daemons, NEW r \in Requests,
         Uploading(d, r), answer' = [answer EXCEPT ![r] = Uploaded(d, r)],
         UNCHANGED <<request, started, result, finished, runs>>
  PROVE  Simulated
<1>1. TypeOK  BY DEF TypeInv
<1>2. answer'[r] = Uploaded(d, r) /\ \A q \in Requests \ {r} : answer'[q] = answer[q]
  BY <1>1 DEF TypeOK
<1>3. \A q \in Requests \ {r} : Unseen(q)
  BY <1>2, KeptUnseen DEF FilesKept
<1>4. LifeOf(r)' = LifeOf(r) /\ RanOf(r)' = RanOf(r) /\ VerdictOf(r)' = VerdictOf(r)
  BY DEF LifeOf, RanOf, VerdictOf
<1>5. CASE pc[d][r] = "upload"
  <2>1. finished[r] # None  BY <1>5, Members DEF JournalInv, WorkerInv
  <2>2. result[r] # None /\ result[r].kind = "journal"
    BY <2>1 DEF JournalInv, FileInv
  <2>3. answer'[r] = result[r]  BY <1>2, <1>5 DEF Uploaded
  <2>4. LifeOf(r) = "closed" /\ ToldOf(r)' = VerdictOf(r)
    BY <2>1, <2>2, <2>3 DEF LifeOf, ToldOf, VerdictOf
  <2>. QED  BY <1>3, <1>4, <2>4, MapTell
<1>6. CASE pc[d][r] = "refuse"
  <2>1. answer'[r].kind = "refusal"  BY <1>2, <1>6 DEF Uploaded, Refusal
  <2>2. ToldOf(r)' = None  BY <2>1 DEF ToldOf
  <2>. QED  BY <1>3, <1>4, <2>2, MapTell
<1>. QED  BY <1>5, <1>6 DEF Uploading, At

-----------------------------------------------------------------------------
\* Nothing else moves what the lifecycle sees.
LEMMA QuietSimulated ==
  ASSUME UNCHANGED <<answer, request, started, result, finished, runs>>
  PROVE  Simulated
BY KeptUnseen, MapStutter DEF FilesKept

LEMMA StepSimulated ==
  ASSUME TypeInv, ExecInv, JournalInv, [Next]_vars
  PROVE  Simulated
<1> USE DEF mailboxVars, journalVars, childVars
<1>1. ASSUME NEW d \in Daemons, NEW r \in Requests, WorkerStep(d, r)
      PROVE  Simulated
  <2>1. CASE Start(d, r)    BY <2>1, StartSimulated
  <2>2. CASE Spawn(d, r)    BY <2>2, SpawnSimulated
  <2>3. CASE Persist(d, r)  BY <2>3, PersistSimulated
  <2>4. CASE Finish(d, r)   BY <2>4, FinishSimulated
  <2>5. CASE Upload(d, r)   BY <2>5, UploadSimulated DEF Upload
  <2>6. CASE Admit(d, r)
    <3>1. UNCHANGED <<answer, started, result, finished, runs>>  BY <2>6 DEF Admit
    <3>2. \A q \in Requests : Unseen(q)
      BY <3>1 DEF Unseen, LifeOf, RanOf, VerdictOf, ToldOf
    <3>. QED  BY <3>2, MapStutter
  <2>7. CASE Fetch(d, r) \/ Claim(d, r) \/ Inspect(d, r) \/ Plan(d, r) \/ Await(d, r)
    BY <2>7, QuietSimulated DEF Fetch, Claim, Inspect, Plan, Await
  <2>8. CASE RecordSpawn(d, r) \/ RunRaises(d, r) \/ ChildGone(d, r)
             \/ Deadline(d, r) \/ Abort(d, r) \/ Ended(d, r) \/ Delete(d, r)
    BY <2>8, QuietSimulated DEF RecordSpawn, RunRaises, ChildGone, Deadline, Abort, Ended,
       Delete
  <2>. QED  BY <1>1, <2>1, <2>2, <2>3, <2>4, <2>5, <2>6, <2>7, <2>8 DEF WorkerStep
<1>2. ASSUME NEW d \in Daemons, NEW r \in Requests, WorkerFault(d, r)
      PROVE  Simulated
  <2>1. CASE UNCHANGED answer
    BY <1>2, <2>1, QuietSimulated DEF WorkerFault, IoError, TransportError
  <2>2. CASE answer' # answer
    BY <1>2, <2>2, UploadSimulated DEF WorkerFault, IoError, TransportError
  <2>. QED  BY <2>1, <2>2
<1>3. ASSUME NEW d \in Daemons, DaemonStep(d)
      PROVE  Simulated
  BY <1>3, QuietSimulated DEF DaemonStep, Boot, Sweep, EnterLoop, Dispatch, Shutdown,
     Signal, LeaveLoop, LoseLock, Exit, Crash
<1>4. CASE Environment
  BY <1>4, QuietSimulated DEF Environment, Submit, Decide, Expire, ChildExits
<1>5. CASE UNCHANGED vars
  BY <1>5, QuietSimulated DEF vars
<1>. QED  BY <1>1, <1>2, <1>3, <1>4, <1>5 DEF Next

\* One request is admitted at most once, runs at most once and only after its
\* admission, gets one verdict that fits what happened, and the client is told
\* nothing but that verdict, through every crash, retry, recovery and second
\* daemon.
THEOREM RefinesLifecycle ==
  ASSUME StableClaims  PROVE Spec => ImplementsLifecycle
<1>1. TypeInv /\ ExecInv /\ JournalInv /\ [Next]_vars => [Lifecycle!Next]_(Lifecycle!vars)
  BY StepSimulated DEF Simulated
<1>. QED  BY <1>1, InitLifecycle, TypeInvariant, ExecInvariant, JournalInvariant, PTL
             DEF Spec, ImplementsLifecycle, Lifecycle!Spec
-----------------------------------------------------------------------------
(***************************************************************************)
(* Nothing leaves the mailbox unanswered.  With the mailbox lock held by   *)
(* one daemon at a time there is one worker per request, so the answer the *)
(* worker uploaded, to the bytes it fetched, is the one on the Drive when  *)
(* it deletes -- whatever the client has put into the mailbox meanwhile.   *)
(***************************************************************************)
Mine(d, r) ==
  pc[d][r] = "delete" => answer[r] # None /\ answer[r].sha = raw[d][r]

MailboxInv ==
  /\ \A d, e \in Daemons : phase[d] # "down" /\ phase[e] # "down" => d = e
  /\ \A d \in Daemons, r \in Requests :
       (pc[d][r] # "idle" => phase[d] # "down") /\ Mine(d, r)

\* A worker's step touches one request; every other daemon is down.
LEMMA OneWorker ==
  ASSUME MailboxInv, NEW d \in Daemons, NEW r \in Requests,
         pc[d][r] # "idle", UNCHANGED phase,
         \A q \in Requests \ {r} : mailbox'[q] = mailbox[q] /\ answer'[q] = answer[q],
         \A e \in Daemons, q \in Requests :
           (e # d \/ q # r) => pc'[e][q] = pc[e][q] /\ raw'[e][q] = raw[e][q],
         Mine(d, r)'
  PROVE  MailboxInv'
<1>1. phase[d] # "down" /\ phase'[d] # "down"  BY DEF MailboxInv
<1>2. ASSUME NEW e \in Daemons, NEW q \in Requests, e # d
      PROVE  pc'[e][q] = "idle"
  BY <1>1, <1>2 DEF MailboxInv
<1>3. ASSUME NEW q \in Requests, q # r  PROVE Mine(d, q)'
  BY <1>3 DEF MailboxInv, Mine
<1>4. ASSUME NEW e \in Daemons, NEW q \in Requests  PROVE Mine(e, q)'
  BY <1>2, <1>3, <1>4 DEF Mine
<1>. QED  BY <1>1, <1>2, <1>4 DEF MailboxInv

LEMMA OwnGoto ==
  ASSUME TypeOK, NEW d \in Daemons, NEW r \in Requests, NEW label,
         Goto(d, r, label), UNCHANGED raw
  PROVE  /\ pc'[d][r] = label /\ raw'[d][r] = raw[d][r]
         /\ \A e \in Daemons, q \in Requests :
              (e # d \/ q # r) => pc'[e][q] = pc[e][q] /\ raw'[e][q] = raw[e][q]
BY DEF TypeOK, Goto

LEMMA OwnEnd ==
  ASSUME TypeOK, NEW d \in Daemons, NEW r \in Requests, EndWorker(d, r)
  PROVE  /\ pc'[d][r] = "idle"
         /\ \A e \in Daemons, q \in Requests :
              (e # d \/ q # r) => pc'[e][q] = pc[e][q] /\ raw'[e][q] = raw[e][q]
BY DEF TypeOK, EndWorker

\* Whatever ends a worker's thread keeps the invariant: it holds nothing then.
LEMMA MailboxEnd ==
  ASSUME TypeOK, MailboxInv, NEW d \in Daemons, NEW r \in Requests,
         pc[d][r] # "idle", EndWorker(d, r), UNCHANGED phase,
         \A q \in Requests \ {r} : mailbox'[q] = mailbox[q] /\ answer'[q] = answer[q]
  PROVE  MailboxInv'
<1>1. Mine(d, r)'  BY OwnEnd DEF Mine
<1>. QED  BY <1>1, OwnEnd, OneWorker

\* Between the fetch and the deletion a worker leaves the mailbox alone.
LEMMA MailboxGoto ==
  ASSUME TypeOK, MailboxInv, NEW d \in Daemons, NEW r \in Requests,
         pc[d][r] \notin {"idle", "fetch"}, NEW label, label # "delete",
         Goto(d, r, label), UNCHANGED <<raw, phase, mailbox, answer>>
  PROVE  MailboxInv'
<1>1. Mine(d, r)'  BY OwnGoto DEF Mine, MailboxInv
<1>. QED  BY <1>1, OwnGoto, OneWorker

LEMMA MailboxFetch ==
  ASSUME TypeOK, MailboxInv, NEW d \in Daemons, NEW r \in Requests, Fetch(d, r)
  PROVE  MailboxInv'
<1>1. /\ pc[d][r] = "fetch" /\ UNCHANGED <<phase, mailbox, answer>>
      /\ pc'[d][r] = "claim" /\ raw'[d][r] = mailbox[r]
      /\ \A e \in Daemons, q \in Requests :
           (e # d \/ q # r) => pc'[e][q] = pc[e][q] /\ raw'[e][q] = raw[e][q]
  BY DEF Fetch, At, Goto, mailboxVars, daemonVars, TypeOK
<1>2. Mine(d, r)'  BY <1>1 DEF Mine
<1>. QED  BY <1>1, <1>2, OneWorker

\* The bytes a FINISHED request is answered for are the worker's own.
LEMMA AnswersOwnBytes ==
  ASSUME TypeInv, JournalInv, NEW d \in Daemons, NEW r \in Requests, Uploading(d, r)
  PROVE  Uploaded(d, r) # None /\ Uploaded(d, r).sha = raw[d][r]
<1>1. CASE pc[d][r] = "refuse"
  <2>1. Uploaded(d, r) = Refusal(d, r)  BY <1>1 DEF Uploaded
  <2>2. raw[d][r] \in Bytes  BY <1>1 DEF TypeInv, WorkerKnows
  <2>3. Refusal(d, r) \in Result /\ Refusal(d, r).sha = raw[d][r]
    BY <2>2, Labels DEF Refusal, Result
  <2>. QED  BY <2>1, <2>3, ConstantsAssumption
<1>2. CASE pc[d][r] = "upload"
  <2>1. FileInv(r) /\ WorkerInv(d, r) /\ pc[d][r] \in Owning
    BY <1>2, Members DEF JournalInv
  <2>2. finished[r] # None /\ request[r] = raw[d][r]
    BY <1>2, <2>1, Members DEF WorkerInv
  <2>3. result[r] # None /\ result[r].sha = raw[d][r]  BY <2>1, <2>2 DEF FileInv
  <2>. QED  BY <1>2, <2>3 DEF Uploaded
<1>. QED  BY <1>1, <1>2 DEF Uploading, At

LEMMA MailboxUpload ==
  ASSUME TypeInv, JournalInv, MailboxInv, NEW d \in Daemons, NEW r \in Requests,
         Upload(d, r)
  PROVE  MailboxInv'
<1>1. /\ pc[d][r] \in {"upload", "refuse"} /\ UNCHANGED <<phase, mailbox, raw>>
      /\ Goto(d, r, "delete") /\ TypeOK
      /\ answer' = [answer EXCEPT ![r] = Uploaded(d, r)]
  BY DEF Upload, Uploading, At, daemonVars, TypeInv
<1>2. /\ answer'[r] = Uploaded(d, r)
      /\ \A q \in Requests \ {r} : answer'[q] = answer[q]
  BY <1>1 DEF TypeOK
<1>3. Mine(d, r)'
  BY <1>1, <1>2, OwnGoto, AnswersOwnBytes DEF Mine, MailboxInv, Upload
<1>. QED  BY <1>1, <1>2, <1>3, OwnGoto, OneWorker

LEMMA MailboxWorker ==
  ASSUME TypeInv, JournalInv, MailboxInv, NEW d \in Daemons, NEW r \in Requests,
         WorkerStep(d, r) \/ WorkerFault(d, r)
  PROVE  MailboxInv'
<1>0. TypeOK  BY DEF TypeInv
<1> DEFINE Past == /\ pc[d][r] \notin {"idle", "fetch"}
                   /\ UNCHANGED <<raw, phase, mailbox, answer>>
                   /\ \E label \in PCs \ {"delete"} : Goto(d, r, label)
           Ends == /\ pc[d][r] # "idle" /\ EndWorker(d, r) /\ UNCHANGED phase
                   /\ \A q \in Requests \ {r} :
                        mailbox'[q] = mailbox[q] /\ answer'[q] = answer[q]
<1>1. CASE Past  BY <1>0, <1>1, MailboxGoto
<1>2. CASE Ends  BY <1>0, <1>2, MailboxEnd
<1>3. CASE Fetch(d, r)  BY <1>0, <1>3, MailboxFetch
<1>4. CASE Upload(d, r)  BY <1>4, MailboxUpload
<1> USE DEF mailboxVars, daemonVars, At, Record
<1>5. CASE Claim(d, r)  BY <1>1, <1>2, <1>5, Labels DEF Claim
<1>6. CASE Inspect(d, r) \/ Admit(d, r)  BY <1>1, <1>6, Labels DEF Inspect, Admit
<1>7. CASE Plan(d, r) \/ Await(d, r)  BY <1>1, <1>7, Labels DEF Plan, Ask, Await
<1>8. CASE Start(d, r)  BY <1>1, <1>2, <1>8, Labels DEF Start
<1>9. CASE Spawn(d, r) \/ RecordSpawn(d, r) \/ RunRaises(d, r) \/ ChildGone(d, r)
  BY <1>1, <1>9, Labels DEF Spawn, RecordSpawn, RunRaises, ChildGone
<1>10. CASE Deadline(d, r) \/ Abort(d, r) \/ Ended(d, r)
  BY <1>1, <1>10, Labels DEF Deadline, Abort, Ended
<1>11. CASE Persist(d, r) \/ Finish(d, r)
  BY <1>1, <1>11, Labels DEF Persist, Finish
<1>12. CASE Delete(d, r) \/ WorkerFault(d, r)
  BY <1>0, <1>2, <1>12 DEF Delete, WorkerFault, IoError, TransportError, Uploading, TypeOK
<1>. QED  BY <1>3, <1>4, <1>5, <1>6, <1>7, <1>8, <1>9, <1>10, <1>11, <1>12
          DEF WorkerStep

\* The daemon's own steps: a daemon boots when all are down, starts a worker
\* only while it is up, leaves after its last worker; a crash takes them all.
LEMMA MailboxDaemon ==
  ASSUME Exclusive, TypeOK, MailboxInv, NEW d \in Daemons, DaemonStep(d)
  PROVE  MailboxInv'
<1> USE DEF mailboxVars, daemonVars, workerVars
<1>1. CASE Boot(d)
  <2>1. \A e \in Daemons : phase[e] = "down" /\ (phase'[e] # "down" => e = d)
    BY <1>1 DEF Boot, TypeOK
  <2>. QED  BY <1>1, <2>1 DEF Boot, MailboxInv, Mine
<1>2. CASE Crash(d)
  <2>1. /\ phase'[d] = "down" /\ \A q \in Requests : pc'[d][q] = "idle"
        /\ \A e \in Daemons \ {d} : phase'[e] = phase[e] /\ pc'[e] = pc[e] /\ raw'[e] = raw[e]
        /\ UNCHANGED <<mailbox, answer>>
    BY <1>2 DEF Crash, TypeOK
  <2>. QED  BY <2>1 DEF MailboxInv, Mine
<1>3. ASSUME NEW r \in Requests, Dispatch(d, r)  PROVE MailboxInv'
  <2>1. /\ phase[d] # "down" /\ \A e \in Daemons : phase'[e] = "down" <=> phase[e] = "down"
        /\ UNCHANGED <<mailbox, answer, raw>>
        /\ pc'[d][r] = "fetch"
        /\ \A e \in Daemons, q \in Requests : (e # d \/ q # r) => pc'[e][q] = pc[e][q]
    BY <1>3 DEF Dispatch, Goto, TypeOK
  <2>. QED  BY <2>1 DEF MailboxInv, Mine
<1>4. CASE Exit(d)
  <2>1. \A q \in Requests : pc[d][q] = "idle"  BY <1>4 DEF Exit, Busy
  <2>2. /\ UNCHANGED <<mailbox, answer, pc, raw>>
        /\ \A e \in Daemons : phase'[e] # "down" => e # d /\ phase[e] # "down"
        /\ \A e \in Daemons \ {d} : phase'[e] = phase[e]
    BY <1>4 DEF Exit, TypeOK
  <2>. QED  BY <2>1, <2>2 DEF MailboxInv, Mine
<1>5. CASE EnterLoop(d) \/ Shutdown(d) \/ LeaveLoop(d) \/ LoseLock(d)
  <2>1. /\ \A e \in Daemons : phase'[e] = "down" <=> phase[e] = "down"
        /\ UNCHANGED <<mailbox, answer, pc, raw>>
    BY <1>5 DEF EnterLoop, Shutdown, LeaveLoop, LoseLock, TypeOK
  <2>. QED  BY <2>1 DEF MailboxInv, Mine
<1>6. ASSUME NEW r \in Requests, Sweep(d, r) \/ Signal(d, r)  PROVE MailboxInv'
  BY <1>6 DEF Sweep, Signal, MailboxInv, Mine
<1>. QED  BY <1>1, <1>2, <1>3, <1>4, <1>5, <1>6 DEF DaemonStep

LEMMA MailboxStep ==
  ASSUME Exclusive, TypeInv, JournalInv, MailboxInv, [Next]_vars
  PROVE  MailboxInv'
<1>0. TypeOK  BY DEF TypeInv
<1>1. ASSUME NEW d \in Daemons, NEW r \in Requests, WorkerStep(d, r) \/ WorkerFault(d, r)
      PROVE  MailboxInv'
  BY <1>1, MailboxWorker
<1>2. ASSUME NEW d \in Daemons, DaemonStep(d)  PROVE MailboxInv'
  BY <1>0, <1>2, MailboxDaemon
<1>3. ASSUME NEW r \in Requests, NEW b \in Bytes, Submit(r, b)  PROVE MailboxInv'
  BY <1>3 DEF Submit, daemonVars, workerVars, MailboxInv, Mine
<1>4. CASE UNCHANGED <<mailbox, answer, phase, pc, raw>>
  BY <1>4 DEF MailboxInv, Mine
<1>5. CASE Environment
  BY <1>3, <1>4, <1>5 DEF Environment, Decide, Expire, ChildExits, mailboxVars,
     daemonVars, workerVars
<1>6. CASE UNCHANGED vars  BY <1>4, <1>6 DEF vars, mailboxVars, daemonVars, workerVars
<1>. QED  BY <1>1, <1>2, <1>5, <1>6 DEF Next

LEMMA MailboxInvariant ==
  ASSUME Exclusive, StableClaims  PROVE Spec => []MailboxInv
<1>1. Init => MailboxInv  BY DEF Init, MailboxInv, Mine
<1>2. TypeInv /\ JournalInv /\ MailboxInv /\ [Next]_vars => MailboxInv'
  BY MailboxStep
<1>. QED  BY <1>1, <1>2, TypeInvariant, JournalInvariant, PTL DEF Spec

\* Only a worker that is done deletes: its Delete, or a delete_remote that
\* reported an error and took effect all the same.
LEMMA DeletedByItsWorker ==
  ASSUME TypeOK, [Next]_vars, NEW r \in Requests, mailbox[r] # None, mailbox'[r] = None
  PROVE  \E d \in Daemons : pc[d][r] = "delete"
<1> USE DEF mailboxVars
<1>1. mailbox' # mailbox  OBVIOUS
<1>2. ASSUME NEW d \in Daemons, NEW q \in Requests, WorkerStep(d, q) \/ WorkerFault(d, q)
      PROVE  pc[d][r] = "delete"
  <2>1. CASE Delete(d, q) \/ TransportError(d, q)
    BY <1>1, <2>1 DEF Delete, TransportError, At, TypeOK
  <2>2. ~Delete(d, q) /\ ~TransportError(d, q) => UNCHANGED mailbox
    BY <1>2 DEF WorkerStep, WorkerFault, Fetch, Claim, Inspect, Admit, Plan, Await,
       Start, Spawn, RecordSpawn, RunRaises, ChildGone, Deadline, Abort, Ended, Persist, Finish,
       Upload, IoError
  <2>. QED  BY <1>1, <2>1, <2>2
<1>3. ASSUME NEW d \in Daemons, DaemonStep(d)  PROVE FALSE
  BY <1>1, <1>3 DEF DaemonStep, Boot, EnterLoop, Shutdown, LeaveLoop, LoseLock, Exit,
     Crash, Sweep, Dispatch, Signal
<1>4. CASE Environment
  BY <1>1, <1>4, ConstantsAssumption DEF Environment, Submit, Decide, Expire, ChildExits,
     TypeOK
<1>5. ~ UNCHANGED vars  BY <1>1 DEF vars
<1>. QED  BY <1>2, <1>3, <1>4, <1>5 DEF Next

\* The bridge deletes a request from the mailbox only after it published an
\* answer to the bytes its worker fetched -- also when the upload or the deletion
\* fails half way, when the daemon crashes between them and when the client
\* replaces the request meanwhile -- as long as the mailbox lock keeps a second
\* daemon out and claim files are stable.
THEOREM NothingLeavesUnanswered ==
  ASSUME Exclusive, StableClaims  PROVE Spec => AnsweredBeforeDeleted
<1>1. ASSUME TypeInv, MailboxInv, [Next]_vars, NEW r \in Requests,
             mailbox[r] # None, mailbox'[r] = None
      PROVE  /\ answer[r] # None
             /\ \E d \in Daemons : pc[d][r] = "delete" /\ answer[r].sha = raw[d][r]
  <2>1. PICK d \in Daemons : pc[d][r] = "delete"
    BY <1>1, DeletedByItsWorker DEF TypeInv
  <2>. QED  BY <1>1, <2>1 DEF MailboxInv, Mine
<1>2. TypeInv /\ MailboxInv /\ [Next]_vars =>
        [\A r \in Requests : (mailbox[r] # None /\ mailbox'[r] = None) =>
           /\ answer[r] # None
           /\ \E d \in Daemons : pc[d][r] = "delete" /\ answer[r].sha = raw[d][r]]_vars
  BY <1>1
<1>. QED  BY <1>2, TypeInvariant, MailboxInvariant, PTL DEF Spec, AnsweredBeforeDeleted
=============================================================================
