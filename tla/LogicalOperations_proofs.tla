----------------------- MODULE LogicalOperations_proofs -----------------------
(***************************************************************************)
(* Theorems about LogicalOperations, for any transport ids, contents and   *)
(* operations, and for any requests, crashes, changes of the plan and      *)
(* moments in which resolving it raises in between.                        *)
(***************************************************************************)
EXTENDS LogicalOperations, TLAPS

-----------------------------------------------------------------------------
(***************************************************************************)
(* The inductive invariant.                                                *)
(***************************************************************************)
\* t is the transport id the operation of c was admitted under, if it has one.
Original(t, c) ==
  OpOf[c] # None => admitted[OpOf[c]] # None /\ admitted[OpOf[c]].original = t

\* A copied verdict is the final one of the original, and so is what it stands for.
Faithful(t, r) ==
  r.kind = "replayed" =>
    LET entry == admitted[OpOf[r.sha]] IN
      /\ OpOf[r.sha] # None /\ entry # None /\ entry.original # t
      /\ finished[entry.original] # None
      /\ result[entry.original].status = r.status
      /\ r.status = "completed" =>
           ran[entry.original] # None /\ Asks[ran[entry.original]] = Asks[r.sha]

Verdict(t, r) ==
  r # None => /\ Faithful(t, r)
              /\ (r.kind = "own" /\ r.status = "completed") => ran[t] # None

\* Labels on the way to a run, and those with nothing final on disk yet.
Executing == {"admit", "plan", "start", "spawn", "running"}
Open == Executing \cup {"persist", "finish"}

\* The worker of t runs c by the admission of its operation, or without one.
Admitted(t, c) == digest[t] # None => Original(t, c)

WorkerInv(t) ==
  /\ pc[t] # "idle" => raw[t] # None
  /\ pc[t] = "idle" => digest[t] = None
  /\ pc[t] \in {"lock", "decide", "record"} =>
       OpOf[raw[t]] # None /\ digest[t] # None /\ digest[t][1] = Asks[raw[t]]
  /\ pc[t] \in {"decide", "record"} => lock[OpOf[raw[t]]] = t
  /\ pc[t] = "record" => admitted[OpOf[raw[t]]] = None
  /\ pc[t] = "inspect" => Admitted(t, raw[t]) \/ (started[t] # None /\ finished[t] = None)
  /\ pc[t] \in Executing => Admitted(t, raw[t])
  /\ pc[t] \in Open => finished[t] = None
  /\ pc[t] \in {"spawn", "running"} => started[t] = raw[t]
  /\ pc[t] = "running" => ran[t] # None
  /\ pc[t] \in {"persist", "finish"} => out[t] # None /\ out[t].kind # "refusal"
  /\ pc[t] = "finish" => result[t] = out[t]
  /\ Verdict(t, out[t])

JournalInv(t) ==
  /\ ran[t] # None => ran[t] = started[t]
  /\ ran[t] # None /\ t \notin bypassed => Original(t, ran[t])
  /\ finished[t] # None => result[t] # None
  /\ result[t] # None => result[t].kind # "refusal"
  /\ Verdict(t, result[t])

IInv == TypeOK /\ \A t \in Ids : WorkerInv(t) /\ JournalInv(t)

USE DEF historyVars

-----------------------------------------------------------------------------
(***************************************************************************)
(* What a step does to the worker that takes it.                           *)
(***************************************************************************)
LEMMA Known ==
  ASSUME IInv, NEW t \in Ids, pc[t] # "idle"
  PROVE  /\ TypeOK /\ WorkerInv(t) /\ JournalInv(t) /\ raw[t] \in Contents /\ raw[t] # None
         /\ OpOf[raw[t]] \in Ops \cup {None}
  BY ConstantsAssumption DEF IInv, TypeOK, WorkerInv

LEMMA GotoIs ==
  ASSUME TypeOK, NEW t \in Ids, NEW l \in Labels, Goto(t, l)
  PROVE  pc' \in [Ids -> Labels] /\ pc'[t] = l /\ \A v \in Ids \ {t} : pc'[v] = pc[v]
  BY DEF TypeOK, Goto

LEMMA EnvelopeIs ==
  ASSUME NEW t \in Ids, raw[t] \in Contents, NEW s \in Statuses, NEW k \in {"own", "replayed", "refusal"}
  PROVE  /\ Envelope(t, s, k) \in Result /\ Envelope(t, s, k) # None
         /\ Envelope(t, s, k).status = s /\ Envelope(t, s, k).kind = k /\ Envelope(t, s, k).sha = raw[t]
<1>1. Envelope(t, s, k) \in Result BY DEF Envelope, Result
<1> QED BY <1>1, MarksAssumption DEF Envelope

LEMMA RecordIs ==
  ASSUME TypeOK, NEW t \in Ids, raw[t] \in Contents, NEW s \in Statuses, Record(t, s, "own")
  PROVE  /\ pc' \in [Ids -> Labels] /\ pc'[t] = "persist" /\ \A v \in Ids \ {t} : pc'[v] = pc[v]
         /\ out' \in [Ids -> Result \cup {None}] /\ \A v \in Ids \ {t} : out'[v] = out[v]
         /\ out'[t] # None /\ out'[t].status = s /\ out'[t].kind = "own" /\ out'[t].sha = raw[t]
<1>1. PICK e : e = Envelope(t, s, "own") OBVIOUS
<1>2. e \in Result /\ e # None /\ e.status = s /\ e.kind = "own" /\ e.sha = raw[t]
  BY <1>1, EnvelopeIs
<1> QED BY <1>1, <1>2, GotoIs DEF Record, TypeOK, Labels

LEMMA RefuseIs ==
  ASSUME TypeOK, NEW t \in Ids, raw[t] \in Contents, Refuse(t)
  PROVE  /\ pc' \in [Ids -> Labels] /\ pc'[t] = "upload" /\ \A v \in Ids \ {t} : pc'[v] = pc[v]
         /\ out' \in [Ids -> Result \cup {None}] /\ \A v \in Ids \ {t} : out'[v] = out[v]
         /\ out'[t].kind = "refusal"
<1>1. PICK e : e = Envelope(t, "rejected", "refusal") OBVIOUS
<1>2. e \in Result /\ e.kind = "refusal" BY <1>1, EnvelopeIs DEF Statuses
<1> QED BY <1>1, <1>2, GotoIs DEF Refuse, TypeOK, Labels

LEMMA EndWorkerIs ==
  ASSUME TypeOK, NEW t \in Ids, EndWorker(t)
  PROVE  /\ pc' \in [Ids -> Labels] /\ pc'[t] = "idle" /\ \A v \in Ids \ {t} : pc'[v] = pc[v]
         /\ raw' \in [Ids -> Contents \cup {None}] /\ \A v \in Ids \ {t} : raw'[v] = raw[v]
         /\ digest' \in [Ids -> Digest \cup {None}] /\ digest'[t] = None
         /\ \A v \in Ids \ {t} : digest'[v] = digest[v]
         /\ out' \in [Ids -> Result \cup {None}] /\ out'[t] = None
         /\ \A v \in Ids \ {t} : out'[v] = out[v]
         /\ lock' \in [Ops -> Ids \cup {None}]
         /\ \A v \in Ids \ {t}, o \in Ops : lock[o] = v => lock'[o] = v
  BY DEF TypeOK, EndWorker, Labels

\* What another transport id is told is an envelope over its own bytes.
LEMMA ToldIs ==
  ASSUME TypeOK, NEW t \in Ids, raw[t] \in Contents, NEW entry \in Admission
  PROVE  /\ Told(t, entry) \in Result /\ Told(t, entry) # None /\ Told(t, entry).sha = raw[t]
         /\ \/ /\ Told(t, entry).kind = "own" /\ Told(t, entry).status # "completed"
            \/ /\ Told(t, entry).kind = "replayed" /\ entry.digest = digest[t]
               /\ Verified(entry.original, OpOf[raw[t]], digest[t])
               /\ Told(t, entry).status = result[entry.original].status
<1>1. CASE entry.digest # digest[t]
  BY <1>1, EnvelopeIs DEF Told, Statuses
<1>2. CASE entry.digest = digest[t] /\ Verified(entry.original, OpOf[raw[t]], digest[t])
  <2>1. entry.original \in Ids BY DEF Admission
  <2>2. result[entry.original] \in Result BY <1>2, <2>1 DEF TypeOK, Verified
  <2>3. PICK s : s = result[entry.original].status OBVIOUS
  <2>4. s \in Statuses BY <2>2, <2>3 DEF Result
  <2>5. Told(t, entry) = Envelope(t, s, "replayed") BY <1>2, <2>3 DEF Told
  <2> QED BY <1>2, <2>3, <2>4, <2>5, EnvelopeIs
<1>3. CASE entry.digest = digest[t] /\ ~Verified(entry.original, OpOf[raw[t]], digest[t])
  BY <1>3, EnvelopeIs DEF Told, Statuses
<1> QED BY <1>1, <1>2, <1>3

-----------------------------------------------------------------------------
(***************************************************************************)
(* Every step keeps the types.                                             *)
(***************************************************************************)
LEMMA TypeStep == IInv /\ [Next]_vars => TypeOK'
<1> SUFFICES ASSUME IInv, [Next]_vars PROVE TypeOK' OBVIOUS
<1>t. TypeOK BY DEF IInv
<1>b. submits + 1 \in Nat /\ failures + 1 \in Nat /\ changes + 1 \in Nat BY <1>t DEF TypeOK
<1> USE DEF mailVars, journalVars, historyVars, boundVars
<1>1. ASSUME NEW t \in Ids, WorkerStep(t) PROVE TypeOK'
  <2>1. CASE Fetch(t)
    <3>1. mailbox[t] \in Contents BY <1>t, <2>1 DEF Fetch, TypeOK
    <3>2. raw' \in [Ids -> Contents \cup {None}] BY <1>t, <2>1, <3>1 DEF Fetch, TypeOK
    <3>3. pc' \in [Ids -> Labels] BY <1>t, <2>1, GotoIs DEF Fetch, Labels
    <3>4. digest' \in [Ids -> Digest \cup {None}]
      <4>1. CASE UNCHANGED digest BY <1>t, <4>1 DEF TypeOK
      <4>2. CASE plan # Broken /\ digest' = [digest EXCEPT ![t] = <<Asks[mailbox[t]], plan>>]
        <5>1. <<Asks[mailbox[t]], plan>> \in Digest BY <1>t, <3>1, <4>2 DEF TypeOK, Digest
        <5> QED BY <1>t, <4>2, <5>1 DEF TypeOK
      <4> QED BY <2>1, <4>1, <4>2 DEF Fetch
    <3> QED BY <1>t, <2>1, <3>2, <3>3, <3>4 DEF Fetch, TypeOK
  <2>n. ASSUME pc[t] # "idle" PROVE raw[t] \in Contents /\ OpOf[raw[t]] \in Ops \cup {None}
    BY <2>n, Known
  <2>2. CASE Lock(t)
    <3>1. pc' \in [Ids -> Labels] BY <1>t, <2>2, GotoIs DEF Lock, Labels
    <3>2. lock' \in [Ops -> Ids \cup {None}] BY <1>t, <2>2 DEF Lock, TypeOK
    <3> QED BY <1>t, <2>2, <3>1, <3>2 DEF Lock, TypeOK
  <2>3. CASE FirstSeen(t)
    BY <1>t, <2>3, GotoIs DEF FirstSeen, TypeOK, Labels
  <2>4. CASE AdmitOperation(t)
    <3>1. digest[t] \in Digest
      BY <1>t, <2>4 DEF AdmitOperation, IInv, WorkerInv, TypeOK
    <3>2. PICK a : a = [digest |-> digest[t], original |-> t] OBVIOUS
    <3>3. a \in Admission BY <3>1, <3>2 DEF Admission
    <3>4. admitted' = [admitted EXCEPT ![OpOf[raw[t]]] = a] BY <2>4, <3>2 DEF AdmitOperation
    <3>5. admitted' \in [Ops -> Admission \cup {None}] BY <1>t, <3>3, <3>4 DEF TypeOK
    <3>6. pc' \in [Ids -> Labels] BY <1>t, <2>4, GotoIs DEF AdmitOperation, Labels
    <3> QED BY <1>t, <2>4, <3>5, <3>6 DEF AdmitOperation, TypeOK
  <2>5. CASE RecoverOriginal(t)
    <3>1. pc[t] = "decide" /\ raw[t] \in Contents BY <2>5, <2>n DEF RecoverOriginal, Deciding
    <3>2. UNCHANGED <<mailVars, admitted, started, result, finished, plan, historyVars, boundVars>>
      BY <2>5 DEF RecoverOriginal
    <3>3. \/ Goto(t, "upload") /\ UNCHANGED <<request, raw, digest, out, lock>>
          \/ Goto(t, "inspect") /\ UNCHANGED <<request, raw, digest, out, lock>>
          \/ /\ request' = [request EXCEPT ![t] = raw[t]]
             /\ Record(t, "indeterminate", "own") /\ UNCHANGED <<raw, digest, lock>>
          \/ EndWorker(t) /\ UNCHANGED request
      BY <2>5 DEF RecoverOriginal, Publish
    <3>4. CASE \E l \in {"upload", "inspect"} :
                  Goto(t, l) /\ UNCHANGED <<request, raw, digest, out, lock>>
      BY <1>t, <3>2, <3>4, GotoIs DEF TypeOK, Labels
    <3>5. CASE /\ request' = [request EXCEPT ![t] = raw[t]]
               /\ Record(t, "indeterminate", "own") /\ UNCHANGED <<raw, digest, lock>>
      <4>1. pc' \in [Ids -> Labels] /\ out' \in [Ids -> Result \cup {None}]
        BY <1>t, <3>1, <3>5, RecordIs DEF Statuses
      <4> QED BY <1>t, <3>1, <3>2, <3>5, <4>1 DEF TypeOK
    <3>6. CASE EndWorker(t) /\ UNCHANGED request
      <4>1. /\ pc' \in [Ids -> Labels] /\ raw' \in [Ids -> Contents \cup {None}]
            /\ digest' \in [Ids -> Digest \cup {None}] /\ out' \in [Ids -> Result \cup {None}]
            /\ lock' \in [Ops -> Ids \cup {None}]
        BY <1>t, <3>6, EndWorkerIs
      <4> QED BY <1>t, <3>2, <3>6, <4>1 DEF TypeOK
    <3> QED BY <3>3, <3>4, <3>5, <3>6
  <2>6. CASE Replay(t)
    <3> DEFINE entry == admitted[OpOf[raw[t]]]
    <3>1. pc[t] = "decide" /\ raw[t] \in Contents BY <2>6, <2>n DEF Replay, Deciding
    <3>2. UNCHANGED <<mailVars, admitted, journalVars, plan, historyVars, boundVars>> BY <2>6 DEF Replay
    <3>3. \/ Refuse(t) /\ UNCHANGED <<raw, digest, lock>>
          \/ \E l \in {"upload", "inspect"} : Goto(t, l) /\ UNCHANGED <<raw, digest, out, lock>>
          \/ EndWorker(t)
          \/ /\ out' = [out EXCEPT ![t] = Told(t, entry)]
             /\ Goto(t, "persist") /\ UNCHANGED <<raw, digest, lock>>
      BY <2>6 DEF Replay, Publish
    <3>4. entry \in Admission
      <4>1. OpOf[raw[t]] # None BY <3>1 DEF IInv, WorkerInv
      <4>2. OpOf[raw[t]] \in Ops BY <2>n, <3>1, <4>1
      <4> QED BY <1>t, <2>6, <4>2 DEF TypeOK, Replay
    <3>5. Told(t, entry) \in Result BY <1>t, <3>1, <3>4, ToldIs
    <3> HIDE DEF entry
    <3>6. CASE Refuse(t) /\ UNCHANGED <<raw, digest, lock>>
      <4>1. pc' \in [Ids -> Labels] /\ out' \in [Ids -> Result \cup {None}]
        BY <1>t, <3>1, <3>6, RefuseIs
      <4> QED BY <1>t, <3>2, <3>6, <4>1 DEF TypeOK
    <3>7. CASE \E l \in {"upload", "inspect"} : Goto(t, l) /\ UNCHANGED <<raw, digest, out, lock>>
      BY <1>t, <3>2, <3>7, GotoIs DEF TypeOK, Labels
    <3>8. CASE EndWorker(t)
      <4>1. /\ pc' \in [Ids -> Labels] /\ raw' \in [Ids -> Contents \cup {None}]
            /\ digest' \in [Ids -> Digest \cup {None}] /\ out' \in [Ids -> Result \cup {None}]
            /\ lock' \in [Ops -> Ids \cup {None}]
        BY <1>t, <3>8, EndWorkerIs
      <4> QED BY <1>t, <3>2, <4>1 DEF TypeOK
    <3>9. CASE /\ out' = [out EXCEPT ![t] = Told(t, entry)]
               /\ Goto(t, "persist") /\ UNCHANGED <<raw, digest, lock>>
      <4>1. pc' \in [Ids -> Labels] BY <1>t, <3>9, GotoIs DEF Labels
      <4> QED BY <1>t, <3>2, <3>5, <3>9, <4>1 DEF TypeOK
    <3> QED BY <3>3, <3>6, <3>7, <3>8, <3>9
  <2>7. CASE Inspect(t)
    <3>1. raw[t] \in Contents BY <2>7, <2>n DEF Inspect
    <3>2. /\ pc' \in [Ids -> Labels] /\ out' \in [Ids -> Result \cup {None}]
      <4>1. CASE Refuse(t) BY <1>t, <3>1, <4>1, RefuseIs
      <4>2. CASE Record(t, "indeterminate", "own") BY <1>t, <3>1, <4>2, RecordIs DEF Statuses
      <4>3. CASE UNCHANGED out /\ \E l \in {"upload", "admit"} : Goto(t, l)
        BY <1>t, <4>3, GotoIs DEF TypeOK, Labels
      <4> QED BY <2>7, <4>1, <4>2, <4>3 DEF Inspect, Publish
    <3> QED BY <1>t, <2>7, <3>2 DEF Inspect, TypeOK
  <2>8. CASE Admit(t)
    <3>1. pc' \in [Ids -> Labels] BY <1>t, <2>8, GotoIs DEF Admit, Labels
    <3>2. request' \in [Ids -> Contents \cup {None}] BY <1>t, <2>8, <2>n DEF Admit, TypeOK
    <3> QED BY <1>t, <2>8, <3>1, <3>2 DEF Admit, TypeOK
  <2>9. CASE Plan(t)
    <3>1. raw[t] \in Contents BY <2>9, <2>n DEF Plan
    <3>2. pc' \in [Ids -> Labels] /\ out' \in [Ids -> Result \cup {None}]
      <4>1. CASE Record(t, "rejected", "own") BY <1>t, <3>1, <4>1, RecordIs DEF Statuses
      <4>2. CASE Goto(t, "start") /\ UNCHANGED out BY <1>t, <4>2, GotoIs DEF TypeOK, Labels
      <4> QED BY <2>9, <4>1, <4>2 DEF Plan
    <3> QED BY <1>t, <2>9, <3>2 DEF Plan, TypeOK
  <2>10. CASE Start(t)
    <3>1. UNCHANGED <<mailVars, admitted, request, result, finished, plan, historyVars, boundVars>>
      BY <2>10 DEF Start
    <3>2. CASE /\ started' = [started EXCEPT ![t] = raw[t]]
               /\ Goto(t, "spawn") /\ UNCHANGED <<raw, digest, out, lock>>
      <4>1. pc' \in [Ids -> Labels] BY <1>t, <3>2, GotoIs DEF Labels
      <4>2. started' \in [Ids -> Contents \cup {None}]
        BY <1>t, <2>10, <2>n, <3>2 DEF Start, TypeOK
      <4> QED BY <1>t, <3>1, <3>2, <4>1, <4>2 DEF TypeOK
    <3>3. CASE EndWorker(t) /\ UNCHANGED started
      <4>1. /\ pc' \in [Ids -> Labels] /\ raw' \in [Ids -> Contents \cup {None}]
            /\ digest' \in [Ids -> Digest \cup {None}] /\ out' \in [Ids -> Result \cup {None}]
            /\ lock' \in [Ops -> Ids \cup {None}]
        BY <1>t, <3>3, EndWorkerIs
      <4> QED BY <1>t, <3>1, <3>3, <4>1 DEF TypeOK
    <3> QED BY <2>10, <3>2, <3>3 DEF Start
  <2>11. CASE Spawn(t)
    <3>1. raw[t] \in Contents BY <2>11, <2>n DEF Spawn
    <3>2. CASE ran' = [ran EXCEPT ![t] = raw[t]] /\ Goto(t, "running") /\ UNCHANGED out
      <4>1. pc' \in [Ids -> Labels] BY <1>t, <3>2, GotoIs DEF Labels
      <4>2. bypassed' \subseteq Ids BY <1>t, <2>11 DEF Spawn, TypeOK
      <4> QED BY <1>t, <2>11, <3>1, <3>2, <4>1, <4>2 DEF Spawn, TypeOK
    <3>3. CASE Record(t, "indeterminate", "own") /\ UNCHANGED historyVars
      <4>1. pc' \in [Ids -> Labels] /\ out' \in [Ids -> Result \cup {None}]
        BY <1>t, <3>1, <3>3, RecordIs DEF Statuses
      <4> QED BY <1>t, <2>11, <3>3, <4>1 DEF Spawn, TypeOK
    <3> QED BY <2>11, <3>2, <3>3 DEF Spawn
  <2>12. CASE Ended(t)
    <3>1. raw[t] \in Contents BY <2>12, <2>n DEF Ended
    <3>2. \E s \in Statuses : Record(t, s, "own") BY <2>12 DEF Ended, Statuses
    <3>3. pc' \in [Ids -> Labels] /\ out' \in [Ids -> Result \cup {None}]
      BY <1>t, <3>1, <3>2, RecordIs
    <3> QED BY <1>t, <2>12, <3>3 DEF Ended, TypeOK
  <2>13. CASE Persist(t)
    <3>1. pc' \in [Ids -> Labels] BY <1>t, <2>13, GotoIs DEF Persist, Labels
    <3>2. result' \in [Ids -> Result \cup {None}] BY <1>t, <2>13 DEF Persist, TypeOK
    <3> QED BY <1>t, <2>13, <3>1, <3>2 DEF Persist, TypeOK
  <2>14. CASE Finish(t)
    <3>1. pc' \in [Ids -> Labels] BY <1>t, <2>14, GotoIs DEF Finish, Labels
    <3>2. finished' \in [Ids -> Contents \cup {None}] BY <1>t, <2>14 DEF Finish, TypeOK
    <3> QED BY <1>t, <2>14, <3>1, <3>2 DEF Finish, TypeOK
  <2>15. CASE Upload(t)
    <3>1. pc' \in [Ids -> Labels] BY <1>t, <2>15, GotoIs DEF Upload, Labels
    <3>2. answer' \in [Ids -> Result \cup {None}] BY <1>t, <2>15 DEF Upload, TypeOK
    <3> QED BY <1>t, <2>15, <3>1, <3>2 DEF Upload, TypeOK
  <2>16. CASE Delete(t)
    <3>1. /\ pc' \in [Ids -> Labels] /\ raw' \in [Ids -> Contents \cup {None}]
          /\ digest' \in [Ids -> Digest \cup {None}] /\ out' \in [Ids -> Result \cup {None}]
          /\ lock' \in [Ops -> Ids \cup {None}]
      BY <1>t, <2>16, EndWorkerIs DEF Delete
    <3>2. mailbox' \in [Ids -> Contents \cup {None}] BY <1>t, <2>16 DEF Delete, TypeOK
    <3> QED BY <1>t, <2>16, <3>1, <3>2 DEF Delete, TypeOK
  <2> QED
    BY <1>1, <2>1, <2>2, <2>3, <2>4, <2>5, <2>6, <2>7, <2>8, <2>9, <2>10, <2>11, <2>12, <2>13,
       <2>14, <2>15, <2>16 DEF WorkerStep
<1>2. ASSUME NEW t \in Ids, Fault(t) PROVE TypeOK'
  <2>1. /\ pc' \in [Ids -> Labels] /\ raw' \in [Ids -> Contents \cup {None}]
        /\ digest' \in [Ids -> Digest \cup {None}] /\ out' \in [Ids -> Result \cup {None}]
        /\ lock' \in [Ops -> Ids \cup {None}]
    BY <1>t, <1>2, EndWorkerIs DEF Fault
  <2> QED BY <1>t, <1>b, <1>2, <2>1 DEF Fault, TypeOK
<1>3. ASSUME NEW t \in Ids, NEW c \in Contents, Submit(t, c) PROVE TypeOK'
  BY <1>t, <1>b, <1>3 DEF Submit, TypeOK
<1>4. ASSUME NEW p \in Plans, Reconfigure(p) PROVE TypeOK'
  BY <1>t, <1>b, <1>4 DEF Reconfigure, TypeOK
<1>5. CASE Crash BY <1>t, <1>b, <1>5 DEF Crash, TypeOK, Labels
<1>6. CASE UNCHANGED vars BY <1>t, <1>6 DEF vars, TypeOK
<1> QED BY <1>1, <1>2, <1>3, <1>4, <1>5, <1>6 DEF Next

-----------------------------------------------------------------------------
(***************************************************************************)
(* What lasts: an admission, a final verdict and a run are never replaced. *)
(***************************************************************************)
Grows == \A o \in Ops : admitted[o] # None => admitted'[o] = admitted[o]

Lasting(t) ==
  /\ finished[t] # None => finished'[t] # None /\ result'[t] = result[t]
  /\ ran[t] # None => ran'[t] = ran[t]

LEMMA OriginalKept ==
  ASSUME TypeOK, Grows, NEW t, NEW c \in Contents, Original(t, c) PROVE Original(t, c)'
  BY ConstantsAssumption DEF Original, Grows

LEMMA VerdictKept ==
  ASSUME TypeOK, Grows, \A u \in Ids : Lasting(u),
         NEW t \in Ids, NEW r \in Result \cup {None}, Verdict(t, r)
  PROVE  Verdict(t, r)'
<1> SUFFICES ASSUME r # None PROVE Faithful(t, r)' /\ (ran[t] # None => ran'[t] # None)
  BY DEF Verdict
<1>1. ran[t] # None => ran'[t] # None BY DEF Lasting
<1>2. ASSUME r.kind = "replayed" PROVE Faithful(t, r)'
  <2>1. PICK o : o = OpOf[r.sha] OBVIOUS
  <2>2. PICK entry : entry = admitted[o] OBVIOUS
  <2>3. /\ o # None /\ entry # None /\ entry.original # t
        /\ finished[entry.original] # None
        /\ result[entry.original].status = r.status
        /\ r.status = "completed" =>
             ran[entry.original] # None /\ Asks[ran[entry.original]] = Asks[r.sha]
    BY <1>2, <2>1, <2>2 DEF Verdict, Faithful
  <2>4. o \in Ops
    <3>1. r.sha \in Contents BY DEF Result
    <3> QED BY <2>1, <2>3, <3>1, ConstantsAssumption
  <2>5. entry.original \in Ids /\ admitted'[o] = entry
    BY <2>2, <2>3, <2>4 DEF TypeOK, Admission, Grows
  <2>6. Lasting(entry.original) BY <2>5
  <2> QED BY <2>1, <2>3, <2>5, <2>6 DEF Faithful, Lasting
<1> QED BY <1>1, <1>2 DEF Faithful

\* What a worker relies on stays as it is while another one, or a client, acts.
LEMMA OthersKeep ==
  ASSUME IInv, TypeOK', NEW t, Grows, t \in Ids => Lasting(t), bypassed \subseteq bypassed',
         \A v \in Ids \ {t} : UNCHANGED <<pc[v], raw[v], digest[v], out[v], ran[v],
                                          request[v], started[v], result[v], finished[v]>>,
         \A v \in Ids \ {t}, o \in Ops :
            lock[o] = v => lock'[o] = v /\ admitted'[o] = admitted[o],
         t \in Ids => WorkerInv(t)' /\ JournalInv(t)'
  PROVE  IInv'
<1>1. TypeOK BY DEF IInv
<1>2. \A u \in Ids : Lasting(u) BY DEF Lasting
<1>3. ASSUME NEW v \in Ids, v # t PROVE WorkerInv(v)' /\ JournalInv(v)'
  <2>1. UNCHANGED <<pc[v], raw[v], digest[v], out[v], ran[v],
                    request[v], started[v], result[v], finished[v]>>
    BY <1>3
  <2>2. WorkerInv(v) /\ JournalInv(v) BY DEF IInv
  <2>3. /\ request[v] \in Contents \cup {None} /\ started[v] \in Contents \cup {None}
        /\ result[v] \in Result \cup {None} /\ out[v] \in Result \cup {None}
        /\ raw[v] \in Contents \cup {None}
    BY <1>1 DEF TypeOK
  <2>4. Verdict(v, result[v])' /\ Verdict(v, out[v])'
    <3>1. PICK r : r = result[v] OBVIOUS
    <3>2. PICK e : e = out[v] OBVIOUS
    <3>3. Verdict(v, r) /\ Verdict(v, e) BY <2>2, <3>1, <3>2 DEF WorkerInv, JournalInv
    <3>4. Verdict(v, r)' /\ Verdict(v, e)' BY <1>1, <1>2, <2>3, <3>1, <3>2, <3>3, VerdictKept
    <3> QED BY <2>1, <3>1, <3>2, <3>4 DEF Verdict, Faithful
  <2>5. \A c \in Contents : Original(v, c) => Original(v, c)' BY <1>1, OriginalKept
  <2>6. JournalInv(v)'
    <3>1. ran[v] # None /\ v \notin bypassed' => Original(v, ran[v])'
      BY <1>1, <2>1, <2>2, <2>5 DEF JournalInv, Original, TypeOK
    <3> QED BY <2>1, <2>2, <2>4, <3>1 DEF JournalInv
  <2>7. WorkerInv(v)'
    <3>1. raw[v] \in Contents => (Admitted(v, raw[v]) => Admitted(v, raw[v])')
      BY <2>1, <2>5 DEF Admitted, Original
    <3>2. pc[v] # "idle" => raw[v] \in Contents BY <2>2, <2>3 DEF WorkerInv
    <3>3. pc[v] \in {"decide", "record"} => OpOf[raw[v]] \in Ops /\ lock[OpOf[raw[v]]] = v
      BY <2>2, <3>2, ConstantsAssumption DEF WorkerInv
    <3>4. pc[v] \in {"decide", "record"} =>
            lock'[OpOf[raw[v]]] = v /\ admitted'[OpOf[raw[v]]] = admitted[OpOf[raw[v]]]
      BY <1>3, <3>3
    <3> QED BY <2>1, <2>2, <2>4, <3>1, <3>2, <3>4 DEF WorkerInv, Executing
  <2> QED BY <2>6, <2>7
<1> QED BY <1>3 DEF IInv

\* A step that leaves the journals and the admissions alone.
LEMMA Quiet ==
  ASSUME IInv, TypeOK', NEW t \in Ids, UNCHANGED <<admitted, journalVars, historyVars>>,
         \A v \in Ids \ {t} : UNCHANGED <<pc[v], raw[v], digest[v], out[v]>>,
         \A v \in Ids \ {t}, o \in Ops : lock[o] = v => lock'[o] = v,
         WorkerInv(t)'
  PROVE  IInv'
<1>1. Grows /\ Lasting(t) BY DEF Grows, Lasting, journalVars
<1>2. JournalInv(t)'
  <2>1. JournalInv(t) BY DEF IInv
  <2> QED BY <2>1 DEF JournalInv, journalVars, Original, Verdict, Faithful
<1> QED BY <1>1, <1>2, OthersKeep DEF journalVars

\* A worker that ends relies on nothing.
LEMMA QuietEnd ==
  ASSUME IInv, TypeOK', NEW t \in Ids, EndWorker(t), UNCHANGED <<admitted, journalVars, historyVars>>
  PROVE  IInv'
<1>1. TypeOK BY DEF IInv
<1>2. pc'[t] = "idle" /\ digest'[t] = None /\ out'[t] = None BY <1>1, EndWorkerIs
<1>3. WorkerInv(t)' BY <1>2 DEF WorkerInv, Executing, Open, Verdict
<1> QED BY <1>1, <1>3, EndWorkerIs, Quiet

-----------------------------------------------------------------------------
(***************************************************************************)
(* The steps of process_one, up to the decision of the operation.          *)
(***************************************************************************)
LEMMA FetchKeeps ==
  ASSUME IInv, TypeOK', NEW t \in Ids, Fetch(t) PROVE IInv'
<1>1. TypeOK /\ WorkerInv(t) BY DEF IInv
<1>2. /\ pc[t] = "idle" /\ mailbox[t] \in Contents /\ digest[t] = None
      /\ raw' = [raw EXCEPT ![t] = mailbox[t]]
      /\ UNCHANGED <<mailVars, admitted, journalVars, plan, lock, out, historyVars, boundVars>>
  BY <1>1 DEF Fetch, TypeOK, WorkerInv
<1>3. raw'[t] = mailbox[t] /\ raw'[t] # None /\ \A v \in Ids \ {t} : raw'[v] = raw[v]
  BY <1>1, <1>2, ConstantsAssumption DEF TypeOK
<1>4. Verdict(t, out[t])' BY <1>1, <1>2 DEF WorkerInv, Verdict, Faithful, journalVars
<1>5. CASE Goto(t, "inspect") /\ UNCHANGED digest
  <2>1. pc'[t] = "inspect" /\ \A v \in Ids \ {t} : pc'[v] = pc[v] BY <1>1, <1>5, GotoIs DEF Labels
  <2>2. WorkerInv(t)'
    BY <1>2, <1>3, <1>4, <1>5, <2>1 DEF WorkerInv, Admitted, Executing, Open
  <2> QED BY <1>2, <1>3, <1>5, <2>1, <2>2, Quiet
<1>6. CASE /\ OpOf[mailbox[t]] # None /\ plan # Broken /\ Goto(t, "lock")
           /\ digest' = [digest EXCEPT ![t] = <<Asks[mailbox[t]], plan>>]
  <2>1. pc'[t] = "lock" /\ \A v \in Ids \ {t} : pc'[v] = pc[v] BY <1>1, <1>6, GotoIs DEF Labels
  <2>2. /\ digest'[t] = <<Asks[mailbox[t]], plan>> /\ \A v \in Ids \ {t} : digest'[v] = digest[v]
    BY <1>1, <1>6 DEF TypeOK
  <2>3. <<Asks[mailbox[t]], plan>> \in Digest BY <1>1, <1>2, <1>6 DEF TypeOK, Digest
  <2>4. digest'[t] # None /\ digest'[t][1] = Asks[raw'[t]]
    BY <1>3, <2>2, <2>3, MarksAssumption
  <2>5. WorkerInv(t)'
    BY <1>3, <1>4, <1>6, <2>1, <2>4 DEF WorkerInv, Executing, Open
  <2> QED BY <1>2, <1>3, <2>1, <2>2, <2>5, Quiet
<1> QED BY <1>2, <1>5, <1>6 DEF Fetch

LEMMA LockKeeps == ASSUME IInv, TypeOK', NEW t \in Ids, Lock(t) PROVE IInv'
<1>1. /\ pc[t] = "lock" /\ TypeOK /\ WorkerInv(t) BY DEF Lock, IInv
<1>2. PICK o : o = OpOf[raw[t]] OBVIOUS
<1>3. o \in Ops BY <1>1, <1>2, Known DEF WorkerInv
<1>4. /\ lock[o] = None /\ lock' = [lock EXCEPT ![o] = t] /\ Goto(t, "decide")
      /\ UNCHANGED <<mailVars, admitted, journalVars, plan, raw, digest, out, historyVars, boundVars>>
  BY <1>2 DEF Lock
<1>5. pc'[t] = "decide" /\ \A v \in Ids \ {t} : pc'[v] = pc[v] BY <1>1, <1>4, GotoIs DEF Labels
<1>6. lock'[o] = t /\ \A x \in Ops \ {o} : lock'[x] = lock[x] BY <1>1, <1>3, <1>4 DEF TypeOK
<1>7. \A v \in Ids \ {t}, x \in Ops : lock[x] = v => lock'[x] = v
  BY <1>4, <1>6, ConstantsAssumption
<1>8. WorkerInv(t)'
  BY <1>1, <1>2, <1>4, <1>5, <1>6
     DEF WorkerInv, Executing, Open, Verdict, Faithful, journalVars
<1> QED BY <1>4, <1>5, <1>7, <1>8, Quiet

LEMMA FirstSeenKeeps == ASSUME IInv, TypeOK', NEW t \in Ids, FirstSeen(t) PROVE IInv'
<1>1. /\ pc[t] = "decide" /\ TypeOK /\ WorkerInv(t) BY DEF FirstSeen, Deciding, IInv
<1>2. /\ admitted[OpOf[raw[t]]] = None /\ Goto(t, "record")
      /\ UNCHANGED <<mailVars, admitted, journalVars, plan, lock, raw, digest, out, historyVars, boundVars>>
  BY DEF FirstSeen
<1>3. pc'[t] = "record" /\ \A v \in Ids \ {t} : pc'[v] = pc[v] BY <1>1, <1>2, GotoIs DEF Labels
<1>4. WorkerInv(t)'
  BY <1>1, <1>2, <1>3 DEF WorkerInv, Executing, Open, Verdict, Faithful, journalVars
<1> QED BY <1>2, <1>3, <1>4, Quiet

\* The admission is made while the lock keeps everyone else of the operation out.
LEMMA AdmitOperationKeeps == ASSUME IInv, TypeOK', NEW t \in Ids, AdmitOperation(t) PROVE IInv'
<1>1. /\ pc[t] = "record" /\ TypeOK /\ WorkerInv(t) /\ JournalInv(t) BY DEF AdmitOperation, IInv
<1>2. PICK o : o = OpOf[raw[t]] OBVIOUS
<1>3. o \in Ops /\ lock[o] = t /\ admitted[o] = None /\ raw[t] \in Contents
  BY <1>1, <1>2, Known DEF WorkerInv
<1>4. PICK a : a = [digest |-> digest[t], original |-> t] OBVIOUS
<1>5. /\ admitted' = [admitted EXCEPT ![o] = a] /\ Goto(t, "inspect")
      /\ UNCHANGED <<mailVars, journalVars, plan, lock, raw, digest, out, historyVars, boundVars>>
  BY <1>2, <1>4 DEF AdmitOperation
<1>6. a \in Admission BY <1>1, <1>4 DEF Admission, WorkerInv, TypeOK
<1>7. a # None /\ a.original = t BY <1>4, <1>6, MarksAssumption
<1>8. admitted'[o] = a /\ \A x \in Ops \ {o} : admitted'[x] = admitted[x]
  BY <1>1, <1>3, <1>5 DEF TypeOK
<1>9. pc'[t] = "inspect" /\ \A v \in Ids \ {t} : pc'[v] = pc[v] BY <1>1, <1>5, GotoIs DEF Labels
<1>10. Grows /\ \A u \in Ids : Lasting(u) BY <1>3, <1>5, <1>8 DEF Grows, Lasting, journalVars
<1>11. /\ result[t] \in Result \cup {None} /\ out[t] \in Result \cup {None}
       /\ request[t] \in Contents \cup {None} /\ started[t] \in Contents \cup {None}
  BY <1>1 DEF TypeOK
<1>12. Verdict(t, result[t])' /\ Verdict(t, out[t])'
  <2>1. PICK r : r = result[t] OBVIOUS
  <2>2. PICK e : e = out[t] OBVIOUS
  <2>3. Verdict(t, r)' /\ Verdict(t, e)'
    BY <1>1, <1>10, <1>11, <2>1, <2>2, VerdictKept DEF WorkerInv, JournalInv
  <2> QED BY <1>5, <2>1, <2>2, <2>3 DEF Verdict, Faithful, journalVars
<1>13. JournalInv(t)'
  <2>1. \A c \in Contents : Original(t, c) => Original(t, c)' BY <1>1, <1>10, OriginalKept
  <2>2. ran[t] # None /\ t \notin bypassed => Original(t, ran[t])'
    BY <1>1, <1>5, <2>1 DEF JournalInv, Original, TypeOK
  <2> QED BY <1>1, <1>5, <1>12, <2>2 DEF JournalInv, journalVars
<1>14. WorkerInv(t)'
  <2>1. Admitted(t, raw[t])' BY <1>2, <1>5, <1>7, <1>8 DEF Admitted, Original
  <2> QED BY <1>1, <1>5, <1>9, <1>12, <2>1 DEF WorkerInv, Executing, Open
<1>15. \A v \in Ids \ {t}, x \in Ops :
          lock[x] = v => lock'[x] = v /\ admitted'[x] = admitted[x]
  BY <1>3, <1>5, <1>8
<1> QED BY <1>5, <1>9, <1>10, <1>13, <1>14, <1>15, OthersKeep DEF journalVars


\* The original comes back: its verdict is published, or what it left is settled.
LEMMA RecoverOriginalKeeps == ASSUME IInv, TypeOK', NEW t \in Ids, RecoverOriginal(t) PROVE IInv'
<1>1. /\ pc[t] = "decide" /\ TypeOK /\ WorkerInv(t) /\ JournalInv(t)
  BY DEF RecoverOriginal, Deciding, IInv
<1>2. raw[t] \in Contents /\ OpOf[raw[t]] \in Ops BY <1>1, Known DEF WorkerInv
<1>3. /\ Original(t, raw[t])
      /\ UNCHANGED <<mailVars, admitted, started, result, finished, plan, historyVars, boundVars>>
  BY DEF RecoverOriginal, Original
<1>4. \/ Goto(t, "upload") /\ UNCHANGED <<request, raw, digest, out, lock>>
      \/ /\ Goto(t, "inspect") /\ UNCHANGED <<request, raw, digest, out, lock>>
      \/ /\ finished[t] = None /\ request' = [request EXCEPT ![t] = raw[t]]
         /\ Record(t, "indeterminate", "own") /\ UNCHANGED <<raw, digest, lock>>
      \/ EndWorker(t) /\ UNCHANGED request
  BY DEF RecoverOriginal, Publish
<1>5. CASE \E l \in {"upload", "inspect"} : Goto(t, l) /\ UNCHANGED <<request, raw, digest, out, lock>>
  <2>1. pc'[t] \in {"upload", "inspect"} /\ \A v \in Ids \ {t} : pc'[v] = pc[v]
    BY <1>1, <1>5, GotoIs DEF Labels
  <2>2. Admitted(t, raw[t])' BY <1>3, <1>5 DEF Admitted, Original
  <2>3. Verdict(t, out[t])' BY <1>1, <1>3, <1>5 DEF WorkerInv, Verdict, Faithful
  <2>4. WorkerInv(t)' BY <1>1, <1>5, <2>1, <2>2, <2>3 DEF WorkerInv, Executing, Open
  <2> QED BY <1>3, <1>5, <2>1, <2>4, Quiet DEF journalVars
<1>6. CASE /\ finished[t] = None /\ request' = [request EXCEPT ![t] = raw[t]]
           /\ Record(t, "indeterminate", "own") /\ UNCHANGED <<raw, digest, lock>>
  <2>1. /\ pc'[t] = "persist" /\ out'[t] # None /\ out'[t].kind = "own"
        /\ out'[t].status = "indeterminate"
        /\ \A v \in Ids \ {t} : pc'[v] = pc[v] /\ out'[v] = out[v]
    BY <1>1, <1>2, <1>6, RecordIs DEF Statuses
  <2>2. request'[t] = raw[t] /\ \A v \in Ids \ {t} : request'[v] = request[v]
    BY <1>1, <1>6 DEF TypeOK
  <2>4. Verdict(t, out[t])' BY <2>1 DEF Verdict, Faithful
  <2>5. WorkerInv(t)'
    BY <1>1, <1>3, <1>6, <2>1, <2>4 DEF WorkerInv, Executing, Open
  <2>6. JournalInv(t)'
    BY <1>1, <1>3, <1>6, <2>2 DEF JournalInv, Original, Verdict, Faithful
  <2>7. Grows /\ Lasting(t) BY <1>3 DEF Grows, Lasting
  <2> QED BY <1>3, <1>6, <2>1, <2>2, <2>5, <2>6, <2>7, OthersKeep
<1>7. CASE EndWorker(t) /\ UNCHANGED request
  BY <1>3, <1>7, QuietEnd DEF journalVars
<1> QED BY <1>4, <1>5, <1>6, <1>7

\* A verified original has a final verdict of its own, and completed means it ran.
LEMMA VerifiedIsFinal ==
  ASSUME IInv, NEW u \in Ids, NEW o \in Ops, NEW d \in Digest, Verified(u, o, d),
         admitted[o] # None, admitted[o].original = u
  PROVE  /\ finished[u] # None /\ result[u] \in Result
         /\ result[u].status = "completed" => ran[u] # None /\ Asks[ran[u]] = d[1]
<1>1. TypeOK /\ JournalInv(u) BY DEF IInv
<1>2. /\ request[u] # None /\ finished[u] # None /\ result[u] \in Result
      /\ result[u] # None /\ d = <<Asks[request[u]], plan>> /\ OpOf[request[u]] = o
      /\ result[u].sha = request[u] /\ started[u] \in {None, request[u]}
      /\ result[u].status = "completed" => started[u] # None
  BY <1>1 DEF Verified, TypeOK
<1>3. Verdict(u, result[u]) BY <1>1 DEF JournalInv
<1>4. result[u].kind = "own"
  <2>1. result[u].kind # "replayed" BY <1>2, <1>3 DEF Verdict, Faithful
  <2>2. result[u].kind # "refusal" BY <1>1, <1>2 DEF JournalInv
  <2> QED BY <1>2, <2>1, <2>2 DEF Result
<1>5. result[u].status = "completed" => ran[u] # None BY <1>2, <1>3, <1>4 DEF Verdict
<1>6. ran[u] # None => ran[u] = started[u] BY <1>1 DEF JournalInv
<1> QED BY <1>2, <1>5, <1>6

\* Nothing is run for another transport id of an admitted operation.
LEMMA ReplayKeeps == ASSUME IInv, TypeOK', NEW t \in Ids, Replay(t) PROVE IInv'
<1>1. /\ pc[t] = "decide" /\ TypeOK /\ WorkerInv(t) /\ JournalInv(t)
  BY DEF Replay, Deciding, IInv
<1>2. raw[t] \in Contents /\ OpOf[raw[t]] \in Ops BY <1>1, Known DEF WorkerInv
<1>3. PICK entry : entry = admitted[OpOf[raw[t]]] OBVIOUS
<1>4. entry # None /\ UNCHANGED <<mailVars, admitted, journalVars, plan, historyVars, boundVars>>
  BY <1>3 DEF Replay
<1>5. entry \in Admission /\ entry.original \in Ids BY <1>1, <1>2, <1>3, <1>4 DEF TypeOK, Admission
<1>6. \/ Refuse(t) /\ UNCHANGED <<raw, digest, lock>>
      \/ Goto(t, "upload") /\ UNCHANGED <<raw, digest, out, lock>>
      \/ /\ finished[t] = None /\ started[t] # None /\ Goto(t, "inspect")
         /\ UNCHANGED <<raw, digest, out, lock>>
      \/ EndWorker(t)
      \/ /\ entry.original # t /\ finished[t] = None
         /\ out' = [out EXCEPT ![t] = Told(t, entry)]
         /\ Goto(t, "persist") /\ UNCHANGED <<raw, digest, lock>>
  BY <1>3 DEF Replay, Publish
<1>7. CASE Refuse(t) /\ UNCHANGED <<raw, digest, lock>>
  <2>1. /\ pc'[t] = "upload" /\ out'[t].kind = "refusal"
        /\ \A v \in Ids \ {t} : pc'[v] = pc[v] /\ out'[v] = out[v]
    BY <1>1, <1>2, <1>7, RefuseIs
  <2>2. Verdict(t, out[t])' BY <2>1 DEF Verdict, Faithful
  <2>3. WorkerInv(t)' BY <1>1, <1>7, <2>1, <2>2 DEF WorkerInv, Executing, Open
  <2> QED BY <1>4, <1>7, <2>1, <2>3, Quiet
<1>8. CASE /\ Goto(t, "upload") \/ (finished[t] = None /\ started[t] # None /\ Goto(t, "inspect"))
           /\ UNCHANGED <<raw, digest, out, lock>>
  <2>1. /\ pc'[t] = "upload" \/ (pc'[t] = "inspect" /\ started[t] # None /\ finished[t] = None)
        /\ \A v \in Ids \ {t} : pc'[v] = pc[v]
    BY <1>1, <1>8, GotoIs DEF Labels
  <2>2. Verdict(t, out[t])' BY <1>1, <1>4, <1>8 DEF WorkerInv, Verdict, Faithful, journalVars
  <2>3. WorkerInv(t)'
    BY <1>1, <1>4, <1>8, <2>1, <2>2 DEF WorkerInv, Executing, Open, journalVars
  <2> QED BY <1>4, <1>8, <2>1, <2>3, Quiet
<1>9. CASE EndWorker(t) BY <1>4, <1>9, QuietEnd
<1>10. CASE /\ entry.original # t /\ finished[t] = None
            /\ out' = [out EXCEPT ![t] = Told(t, entry)]
            /\ Goto(t, "persist") /\ UNCHANGED <<raw, digest, lock>>
  <2>1. PICK e : e = Told(t, entry) OBVIOUS
  <2>2. pc'[t] = "persist" /\ \A v \in Ids \ {t} : pc'[v] = pc[v] BY <1>1, <1>10, GotoIs DEF Labels
  <2>3. out'[t] = e /\ \A v \in Ids \ {t} : out'[v] = out[v] BY <1>1, <1>10, <2>1 DEF TypeOK
  <2>4. /\ e # None /\ e.sha = raw[t]
        /\ \/ e.kind = "own" /\ e.status # "completed"
           \/ /\ e.kind = "replayed" /\ Verified(entry.original, OpOf[raw[t]], digest[t])
              /\ e.status = result[entry.original].status
    BY <1>1, <1>2, <1>5, <2>1, ToldIs
  <2>5. digest[t] \in Digest /\ digest[t][1] = Asks[raw[t]] BY <1>1 DEF WorkerInv, TypeOK
  <2>6. Faithful(t, e)
    <3> SUFFICES ASSUME e.kind = "replayed" PROVE Faithful(t, e) BY DEF Faithful
    <3>1. Verified(entry.original, OpOf[raw[t]], digest[t]) /\ e.status = result[entry.original].status
      BY <2>4
    <3>2. PICK u : u = entry.original OBVIOUS
    <3>3. /\ finished[u] # None
          /\ result[u].status = "completed" => ran[u] # None /\ Asks[ran[u]] = digest[t][1]
      BY <1>2, <1>3, <1>4, <1>5, <2>5, <3>1, <3>2, VerifiedIsFinal
    <3>4. OpOf[e.sha] # None /\ admitted[OpOf[e.sha]] = entry
      BY <1>1, <1>3, <2>4 DEF WorkerInv
    <3> QED BY <1>4, <1>10, <2>4, <2>5, <3>1, <3>2, <3>3, <3>4 DEF Faithful
  <2>7. Verdict(t, out[t])'
    BY <1>4, <2>3, <2>4, <2>6 DEF Verdict, Faithful, journalVars
  <2>8. WorkerInv(t)'
    BY <1>1, <1>4, <1>10, <2>2, <2>3, <2>4, <2>7 DEF WorkerInv, Executing, Open, journalVars
  <2> QED BY <1>4, <1>10, <2>2, <2>3, <2>8, Quiet
<1> QED BY <1>6, <1>7, <1>8, <1>9, <1>10


-----------------------------------------------------------------------------
(***************************************************************************)
(* The steps of _process_one_request.                                      *)
(***************************************************************************)
LEMMA InspectKeeps == ASSUME IInv, TypeOK', NEW t \in Ids, Inspect(t) PROVE IInv'
<1>1. pc[t] = "inspect" /\ TypeOK /\ WorkerInv(t) /\ JournalInv(t) BY DEF Inspect, IInv
<1>2. raw[t] \in Contents BY <1>1, Known
<1>3. UNCHANGED <<mailVars, admitted, journalVars, plan, lock, raw, digest, historyVars, boundVars>>
  BY DEF Inspect
<1>4. \/ Refuse(t)
      \/ Goto(t, "upload") /\ UNCHANGED out
      \/ finished[t] = None /\ Record(t, "indeterminate", "own")
      \/ /\ finished[t] = None /\ Admitted(t, raw[t])
         /\ Goto(t, "admit") /\ UNCHANGED out
  BY <1>1 DEF Inspect, Publish, WorkerInv, JournalInv
<1>5. CASE Refuse(t)
  <2>1. /\ pc'[t] = "upload" /\ out'[t].kind = "refusal"
        /\ \A v \in Ids \ {t} : pc'[v] = pc[v] /\ out'[v] = out[v]
    BY <1>1, <1>2, <1>5, RefuseIs
  <2>2. Verdict(t, out[t])' BY <2>1 DEF Verdict, Faithful
  <2>3. WorkerInv(t)' BY <1>1, <1>3, <2>1, <2>2 DEF WorkerInv, Executing, Open
  <2> QED BY <1>3, <2>1, <2>3, Quiet
<1>6. CASE /\ Goto(t, "upload") \/ (finished[t] = None /\ Admitted(t, raw[t]) /\ Goto(t, "admit"))
           /\ UNCHANGED out
  <2>1. /\ pc'[t] = "upload" \/ (pc'[t] = "admit" /\ Admitted(t, raw[t]) /\ finished[t] = None)
        /\ \A v \in Ids \ {t} : pc'[v] = pc[v]
    BY <1>1, <1>6, GotoIs DEF Labels
  <2>2. Verdict(t, out[t])' BY <1>1, <1>3, <1>6 DEF WorkerInv, Verdict, Faithful, journalVars
  <2>3. Admitted(t, raw[t]) => Admitted(t, raw[t])' BY <1>3 DEF Admitted, Original
  <2>4. WorkerInv(t)'
    BY <1>1, <1>3, <1>6, <2>1, <2>2, <2>3 DEF WorkerInv, Executing, Open, journalVars
  <2> QED BY <1>3, <1>6, <2>1, <2>4, Quiet
<1>7. CASE finished[t] = None /\ Record(t, "indeterminate", "own")
  <2>1. /\ pc'[t] = "persist" /\ out'[t] # None /\ out'[t].kind = "own"
        /\ out'[t].status = "indeterminate"
        /\ \A v \in Ids \ {t} : pc'[v] = pc[v] /\ out'[v] = out[v]
    BY <1>1, <1>2, <1>7, RecordIs DEF Statuses
  <2>2. Verdict(t, out[t])' BY <2>1 DEF Verdict, Faithful
  <2>3. WorkerInv(t)'
    BY <1>1, <1>3, <1>7, <2>1, <2>2 DEF WorkerInv, Executing, Open, journalVars
  <2> QED BY <1>3, <2>1, <2>3, Quiet
<1> QED BY <1>4, <1>5, <1>6, <1>7

LEMMA AdmitKeeps == ASSUME IInv, TypeOK', NEW t \in Ids, Admit(t) PROVE IInv'
<1>1. pc[t] = "admit" /\ TypeOK /\ WorkerInv(t) /\ JournalInv(t) BY DEF Admit, IInv
<1>2. Admitted(t, raw[t]) /\ finished[t] = None BY <1>1 DEF WorkerInv, Executing, Open
<1>3. /\ request' = [request EXCEPT ![t] = raw[t]] /\ Goto(t, "plan")
      /\ UNCHANGED <<mailVars, admitted, started, result, finished, plan, lock, raw,
                     digest, out, historyVars, boundVars>>
  BY DEF Admit
<1>4. pc'[t] = "plan" /\ \A v \in Ids \ {t} : pc'[v] = pc[v] BY <1>1, <1>3, GotoIs DEF Labels
<1>5. request'[t] = raw[t] /\ \A v \in Ids \ {t} : request'[v] = request[v]
  BY <1>1, <1>3 DEF TypeOK
<1>6. Admitted(t, raw[t])' BY <1>2, <1>3 DEF Admitted, Original
<1>7. WorkerInv(t)'
  BY <1>1, <1>2, <1>3, <1>4, <1>6 DEF WorkerInv, Executing, Open, Verdict, Faithful
<1>8. JournalInv(t)'
  BY <1>1, <1>3, <1>5, <1>6 DEF JournalInv, Original, Verdict, Faithful
<1>9. Grows /\ Lasting(t) BY <1>3 DEF Grows, Lasting
<1> QED BY <1>3, <1>4, <1>5, <1>7, <1>8, <1>9, OthersKeep

LEMMA PlanKeeps == ASSUME IInv, TypeOK', NEW t \in Ids, Plan(t) PROVE IInv'
<1>1. pc[t] = "plan" /\ TypeOK /\ WorkerInv(t) BY DEF Plan, IInv
<1>2. raw[t] \in Contents /\ Admitted(t, raw[t]) /\ finished[t] = None
  BY <1>1, Known DEF WorkerInv, Executing, Open
<1>3. UNCHANGED <<mailVars, admitted, journalVars, plan, lock, raw, digest, historyVars, boundVars>>
  BY DEF Plan
<1>4. CASE Record(t, "rejected", "own")
  <2>1. /\ pc'[t] = "persist" /\ out'[t] # None /\ out'[t].kind = "own"
        /\ out'[t].status = "rejected"
        /\ \A v \in Ids \ {t} : pc'[v] = pc[v] /\ out'[v] = out[v]
    BY <1>1, <1>2, <1>4, RecordIs DEF Statuses
  <2>2. Verdict(t, out[t])' BY <2>1 DEF Verdict, Faithful
  <2>3. WorkerInv(t)'
    BY <1>1, <1>2, <1>3, <2>1, <2>2 DEF WorkerInv, Executing, Open, journalVars
  <2> QED BY <1>3, <2>1, <2>3, Quiet
<1>5. CASE Goto(t, "start") /\ UNCHANGED out
  <2>1. pc'[t] = "start" /\ \A v \in Ids \ {t} : pc'[v] = pc[v] BY <1>1, <1>5, GotoIs DEF Labels
  <2>2. Admitted(t, raw[t])' BY <1>2, <1>3 DEF Admitted, Original
  <2>3. WorkerInv(t)'
    BY <1>1, <1>2, <1>3, <1>5, <2>1, <2>2
       DEF WorkerInv, Executing, Open, Verdict, Faithful, journalVars
  <2> QED BY <1>3, <1>5, <2>1, <2>3, Quiet
<1> QED BY <1>4, <1>5 DEF Plan

\* STARTED is created once and never removed: a second run of the id stops here.
LEMMA StartKeeps == ASSUME IInv, TypeOK', NEW t \in Ids, Start(t) PROVE IInv'
<1>1. pc[t] = "start" /\ TypeOK /\ WorkerInv(t) /\ JournalInv(t) BY DEF Start, IInv
<1>2. Admitted(t, raw[t]) /\ finished[t] = None BY <1>1 DEF WorkerInv, Executing, Open
<1>3. UNCHANGED <<mailVars, admitted, request, result, finished, plan, historyVars, boundVars>> BY DEF Start
<1>4. CASE /\ started[t] = None /\ started' = [started EXCEPT ![t] = raw[t]]
           /\ Goto(t, "spawn") /\ UNCHANGED <<raw, digest, out, lock>>
  <2>1. pc'[t] = "spawn" /\ \A v \in Ids \ {t} : pc'[v] = pc[v] BY <1>1, <1>4, GotoIs DEF Labels
  <2>2. started'[t] = raw[t] /\ \A v \in Ids \ {t} : started'[v] = started[v]
    BY <1>1, <1>4 DEF TypeOK
  <2>3. Admitted(t, raw[t])' BY <1>2, <1>3, <1>4 DEF Admitted, Original
  <2>4. WorkerInv(t)'
    BY <1>1, <1>2, <1>3, <1>4, <2>1, <2>2, <2>3
       DEF WorkerInv, Executing, Open, Verdict, Faithful
  <2>5. JournalInv(t)'
    BY <1>1, <1>3, <1>4, <2>2, <2>3 DEF JournalInv, Original, Verdict, Faithful
  <2>6. Grows /\ Lasting(t) BY <1>3 DEF Grows, Lasting
  <2> QED BY <1>3, <1>4, <2>1, <2>2, <2>4, <2>5, <2>6, OthersKeep
<1>5. CASE EndWorker(t) /\ UNCHANGED started BY <1>3, <1>5, QuietEnd DEF journalVars
<1> QED BY <1>4, <1>5 DEF Start

\* A run outside the admission is one whose digest could not be computed.
LEMMA SpawnKeeps == ASSUME IInv, TypeOK', NEW t \in Ids, Spawn(t) PROVE IInv'
<1>1. pc[t] = "spawn" /\ TypeOK /\ WorkerInv(t) /\ JournalInv(t) BY DEF Spawn, IInv
<1>2. /\ Admitted(t, raw[t]) /\ finished[t] = None /\ started[t] = raw[t] /\ raw[t] # None
      /\ raw[t] \in Contents
  BY <1>1, Known DEF WorkerInv, Executing, Open
<1>3. UNCHANGED <<mailVars, admitted, journalVars, plan, lock, raw, digest, boundVars>>
  BY DEF Spawn
<1>4. CASE /\ ran' = [ran EXCEPT ![t] = raw[t]]
           /\ bypassed' = IF digest[t] = None /\ OpOf[raw[t]] # None
                          THEN bypassed \cup {t} ELSE bypassed
           /\ Goto(t, "running") /\ UNCHANGED out
  <2>1. pc'[t] = "running" /\ \A v \in Ids \ {t} : pc'[v] = pc[v] BY <1>1, <1>4, GotoIs DEF Labels
  <2>2. ran'[t] = raw[t] /\ \A v \in Ids \ {t} : ran'[v] = ran[v] BY <1>1, <1>4 DEF TypeOK
  <2>3. Grows /\ (\A u \in Ids : Lasting(u)) /\ bypassed \subseteq bypassed'
    BY <1>1, <1>2, <1>3, <1>4, <2>2 DEF Grows, Lasting, journalVars, JournalInv
  <2>4. Verdict(t, result[t])' /\ Verdict(t, out[t])'
    <3>1. PICK r : r = result[t] OBVIOUS
    <3>2. PICK e : e = out[t] OBVIOUS
    <3>3. r \in Result \cup {None} /\ e \in Result \cup {None} BY <1>1, <3>1, <3>2 DEF TypeOK
    <3>4. Verdict(t, r)' /\ Verdict(t, e)'
      BY <1>1, <2>3, <3>1, <3>2, <3>3, VerdictKept DEF WorkerInv, JournalInv
    <3> QED BY <1>3, <1>4, <3>1, <3>2, <3>4 DEF Verdict, Faithful, journalVars
  <2>5. Admitted(t, raw[t])' BY <1>2, <1>3 DEF Admitted, Original
  <2>6. t \notin bypassed' => Original(t, raw[t])'
    BY <1>2, <1>3, <1>4 DEF Admitted, Original
  <2>7. WorkerInv(t)'
    BY <1>1, <1>2, <1>3, <1>4, <2>1, <2>2, <2>4, <2>5 DEF WorkerInv, Executing, Open, journalVars
  <2>8. JournalInv(t)'
    BY <1>1, <1>2, <1>3, <2>2, <2>4, <2>6 DEF JournalInv, Original, journalVars
  <2> QED BY <1>3, <1>4, <2>1, <2>2, <2>3, <2>7, <2>8, OthersKeep DEF journalVars
<1>5. CASE Record(t, "indeterminate", "own") /\ UNCHANGED historyVars
  <2>1. /\ pc'[t] = "persist" /\ out'[t] # None /\ out'[t].kind = "own"
        /\ out'[t].status = "indeterminate"
        /\ \A v \in Ids \ {t} : pc'[v] = pc[v] /\ out'[v] = out[v]
    BY <1>1, <1>2, <1>5, RecordIs DEF Statuses
  <2>2. Verdict(t, out[t])' BY <2>1 DEF Verdict, Faithful
  <2>3. WorkerInv(t)'
    BY <1>1, <1>2, <1>3, <2>1, <2>2 DEF WorkerInv, Executing, Open, journalVars
  <2> QED BY <1>3, <1>5, <2>1, <2>3, Quiet
<1> QED BY <1>4, <1>5 DEF Spawn

LEMMA EndedKeeps == ASSUME IInv, TypeOK', NEW t \in Ids, Ended(t) PROVE IInv'
<1>1. pc[t] = "running" /\ TypeOK /\ WorkerInv(t) BY DEF Ended, IInv
<1>2. raw[t] \in Contents /\ ran[t] # None /\ finished[t] = None
  BY <1>1, Known DEF WorkerInv, Executing, Open
<1>3. UNCHANGED <<mailVars, admitted, journalVars, plan, lock, raw, digest, historyVars, boundVars>>
  BY DEF Ended
<1>4. PICK s \in Statuses : Record(t, s, "own") BY DEF Ended, Statuses
<1>5. /\ pc'[t] = "persist" /\ out'[t] # None /\ out'[t].kind = "own"
      /\ \A v \in Ids \ {t} : pc'[v] = pc[v] /\ out'[v] = out[v]
  BY <1>1, <1>2, <1>4, RecordIs
<1>6. Verdict(t, out[t])' BY <1>2, <1>3, <1>5 DEF Verdict, Faithful
<1>7. WorkerInv(t)'
  BY <1>1, <1>2, <1>3, <1>5, <1>6 DEF WorkerInv, Executing, Open, journalVars
<1> QED BY <1>3, <1>5, <1>7, Quiet


LEMMA PersistKeeps == ASSUME IInv, TypeOK', NEW t \in Ids, Persist(t) PROVE IInv'
<1>1. pc[t] = "persist" /\ TypeOK /\ WorkerInv(t) /\ JournalInv(t) BY DEF Persist, IInv
<1>2. finished[t] = None /\ out[t] # None /\ out[t].kind # "refusal" /\ Verdict(t, out[t])
  BY <1>1 DEF WorkerInv, Open
<1>3. /\ result' = [result EXCEPT ![t] = out[t]] /\ Goto(t, "finish")
      /\ UNCHANGED <<mailVars, admitted, request, started, finished, plan, lock, raw,
                     digest, out, historyVars, boundVars>>
  BY DEF Persist
<1>4. pc'[t] = "finish" /\ \A v \in Ids \ {t} : pc'[v] = pc[v] BY <1>1, <1>3, GotoIs DEF Labels
<1>5. result'[t] = out[t] /\ \A v \in Ids \ {t} : result'[v] = result[v]
  BY <1>1, <1>3 DEF TypeOK
<1>6. Grows /\ \A u \in Ids : Lasting(u) BY <1>2, <1>3, <1>5 DEF Grows, Lasting
<1>7. PICK e : e = out[t] OBVIOUS
<1>8. Verdict(t, e)'
  <2>1. e \in Result \cup {None} BY <1>1, <1>7 DEF TypeOK
  <2> QED BY <1>1, <1>2, <1>6, <1>7, <2>1, VerdictKept
<1>9. WorkerInv(t)'
  BY <1>1, <1>2, <1>3, <1>4, <1>5, <1>7, <1>8 DEF WorkerInv, Executing, Open
<1>10. JournalInv(t)'
  BY <1>1, <1>2, <1>3, <1>5, <1>7, <1>8 DEF JournalInv, Original
<1> QED BY <1>3, <1>4, <1>5, <1>6, <1>9, <1>10, OthersKeep

\* From here on the verdict is final.
LEMMA FinishKeeps == ASSUME IInv, TypeOK', NEW t \in Ids, Finish(t) PROVE IInv'
<1>1. pc[t] = "finish" /\ TypeOK /\ WorkerInv(t) /\ JournalInv(t) BY DEF Finish, IInv
<1>2. finished[t] = None /\ out[t] # None /\ result[t] = out[t] /\ raw[t] # None
  BY <1>1, Known DEF WorkerInv, Open
<1>3. /\ finished' = [finished EXCEPT ![t] = raw[t]] /\ Goto(t, "upload")
      /\ UNCHANGED <<mailVars, admitted, request, started, result, plan, lock, raw,
                     digest, out, historyVars, boundVars>>
  BY DEF Finish
<1>4. pc'[t] = "upload" /\ \A v \in Ids \ {t} : pc'[v] = pc[v] BY <1>1, <1>3, GotoIs DEF Labels
<1>5. finished'[t] = raw[t] /\ \A v \in Ids \ {t} : finished'[v] = finished[v]
  BY <1>1, <1>3 DEF TypeOK
<1>6. Grows /\ \A u \in Ids : Lasting(u) BY <1>2, <1>3, <1>5 DEF Grows, Lasting
<1>7. Verdict(t, result[t])' /\ Verdict(t, out[t])'
  <2>1. PICK e : e = out[t] OBVIOUS
  <2>2. e \in Result \cup {None} /\ Verdict(t, e) BY <1>1, <2>1 DEF TypeOK, WorkerInv
  <2>3. Verdict(t, e)' BY <1>1, <1>6, <2>2, VerdictKept
  <2> QED BY <1>2, <1>3, <2>1, <2>3 DEF Verdict, Faithful
<1>8. WorkerInv(t)' BY <1>1, <1>3, <1>4, <1>7 DEF WorkerInv, Executing, Open
<1>9. JournalInv(t)' BY <1>1, <1>2, <1>3, <1>5, <1>7 DEF JournalInv, Original
<1> QED BY <1>3, <1>4, <1>5, <1>6, <1>8, <1>9, OthersKeep

LEMMA UploadKeeps == ASSUME IInv, TypeOK', NEW t \in Ids, Upload(t) PROVE IInv'
<1>1. pc[t] = "upload" /\ TypeOK /\ WorkerInv(t) BY DEF Upload, IInv
<1>2. /\ Goto(t, "delete")
      /\ UNCHANGED <<mailbox, admitted, journalVars, plan, lock, raw, digest, out, historyVars, boundVars>>
  BY DEF Upload
<1>3. pc'[t] = "delete" /\ \A v \in Ids \ {t} : pc'[v] = pc[v] BY <1>1, <1>2, GotoIs DEF Labels
<1>4. WorkerInv(t)'
  BY <1>1, <1>2, <1>3 DEF WorkerInv, Executing, Open, Verdict, Faithful, journalVars
<1> QED BY <1>2, <1>3, <1>4, Quiet

-----------------------------------------------------------------------------
(***************************************************************************)
(* Clients, changes of the plan and crashes.                               *)
(***************************************************************************)
\* Nothing on disk moves, and every worker is where it was or gone.
LEMMA DiskKeeps ==
  ASSUME IInv, TypeOK', UNCHANGED <<admitted, journalVars, historyVars>>,
         \/ UNCHANGED <<lock, pc, raw, digest, out>>
         \/ /\ pc' = [t \in Ids |-> "idle"] /\ digest' = [t \in Ids |-> None]
            /\ out' = [t \in Ids |-> None]
  PROVE  IInv'
<1> SUFFICES ASSUME NEW t \in Ids PROVE WorkerInv(t)' /\ JournalInv(t)' BY DEF IInv
<1>1. WorkerInv(t) /\ JournalInv(t) BY DEF IInv
<1>2. JournalInv(t)' BY <1>1 DEF JournalInv, journalVars, Original, Verdict, Faithful
<1>3. WorkerInv(t)'
  <2>1. CASE UNCHANGED <<lock, pc, raw, digest, out>>
    <3>1. Verdict(t, out[t])' BY <1>1, <2>1 DEF WorkerInv, journalVars, Verdict, Faithful
    <3>2. Admitted(t, raw[t]) => Admitted(t, raw[t])' BY <2>1 DEF Admitted, Original
    <3> QED BY <1>1, <2>1, <3>1, <3>2 DEF WorkerInv, journalVars, Executing, Open
  <2>2. CASE /\ pc' = [u \in Ids |-> "idle"] /\ digest' = [u \in Ids |-> None]
             /\ out' = [u \in Ids |-> None]
    <3>1. pc'[t] = "idle" /\ digest'[t] = None /\ out'[t] = None BY <2>2
    <3> QED BY <3>1 DEF WorkerInv, Verdict, Executing, Open
  <2> QED BY <2>1, <2>2
<1> QED BY <1>2, <1>3

LEMMA InitHolds == Init => IInv
<1> SUFFICES ASSUME Init PROVE IInv OBVIOUS
<1>1. TypeOK BY DEF Init, TypeOK, Labels
<1>2. ASSUME NEW t \in Ids PROVE WorkerInv(t) /\ JournalInv(t)
  BY DEF Init, WorkerInv, JournalInv, Executing, Open, Verdict
<1> QED BY <1>1, <1>2 DEF IInv

LEMMA StepKeeps == IInv /\ [Next]_vars => IInv'
<1> SUFFICES ASSUME IInv, [Next]_vars PROVE IInv' OBVIOUS
<1>0. TypeOK' BY TypeStep
<1>1. ASSUME NEW t \in Ids, WorkerStep(t) PROVE IInv'
  <2>1. CASE Delete(t) BY <1>0, <2>1, QuietEnd DEF Delete
  <2> QED
    BY <1>0, <1>1, <2>1, FetchKeeps, LockKeeps, FirstSeenKeeps, AdmitOperationKeeps,
       RecoverOriginalKeeps, ReplayKeeps, InspectKeeps, AdmitKeeps, PlanKeeps, StartKeeps,
       SpawnKeeps, EndedKeeps, PersistKeeps, FinishKeeps, UploadKeeps
       DEF WorkerStep
<1>2. ASSUME NEW t \in Ids, Fault(t) PROVE IInv' BY <1>0, <1>2, QuietEnd DEF Fault
<1>3. ASSUME NEW t \in Ids, NEW c \in Contents, Submit(t, c) PROVE IInv'
  BY <1>0, <1>3, DiskKeeps DEF Submit
<1>4. ASSUME NEW p \in Plans, Reconfigure(p) PROVE IInv'
  BY <1>0, <1>4, DiskKeeps DEF Reconfigure
<1>5. CASE Crash BY <1>0, <1>5, DiskKeeps DEF Crash
<1>6. CASE UNCHANGED vars BY <1>0, <1>6, DiskKeeps DEF vars
<1> QED BY <1>1, <1>2, <1>3, <1>4, <1>5, <1>6 DEF Next

LEMMA Inductive == Spec => []IInv
  BY InitHolds, StepKeeps, PTL DEF Spec

\* However often, late or concurrently an operation arrives and wherever the
\* daemon dies, it is executed under one transport id, the admitted one, apart
\* from ids fetched while the digest could not be computed (process_one: the
\* admission lock, admitted.json, STARTED and the fallback at line 1717).
THEOREM OneExecution == Spec => []OneRunPerOperation
<1>1. ASSUME IInv, NEW t \in Ids, NEW u \in Ids, t # u, ran[t] # None, ran[u] # None,
             OpOf[ran[t]] # None, OpOf[ran[t]] = OpOf[ran[u]]
      PROVE  bypassed \cap {t, u} # {}
  <2> SUFFICES ASSUME t \notin bypassed, u \notin bypassed PROVE FALSE OBVIOUS
  <2>1. Original(t, ran[t]) /\ Original(u, ran[u]) BY <1>1 DEF IInv, JournalInv
  <2> QED BY <1>1, <2>1 DEF Original
<1>2. IInv => OneRunPerOperation BY <1>1 DEF OneRunPerOperation
<1> QED BY <1>2, Inductive, PTL

\* What a later transport id is told is the final verdict of the admitted one,
\* and a copied "completed" stands for a run of what this request asks for
\* (_verified_logical_original).
THEOREM ReplaysAreTrue == Spec => []ReplayTellsOriginal
<1>1. ASSUME IInv PROVE ReplayTellsOriginal
  <2> SUFFICES ASSUME NEW t \in Ids, result[t] # None, result[t].kind = "replayed"
               PROVE  LET entry == admitted[OpOf[result[t].sha]] IN
                        /\ entry # None /\ entry.original # t
                        /\ finished[entry.original] # None
                        /\ result[entry.original].status = result[t].status
                        /\ result[t].status = "completed" =>
                             /\ ran[entry.original] # None
                             /\ Asks[ran[entry.original]] = Asks[result[t].sha]
    BY DEF ReplayTellsOriginal
  <2> QED BY <1>1 DEF IInv, JournalInv, Verdict, Faithful
<1> QED BY <1>1, Inductive, PTL

\* An admission, a finished verdict and the record of a run are never replaced,
\* by whichever request, crash or retry comes later.
THEOREM VerdictsAreFinal == Spec => [][Grows /\ \A t \in Ids : Lasting(t)]_vars
<1>1. ASSUME IInv, Next PROVE Grows /\ \A t \in Ids : Lasting(t)
  <2>1. TypeOK BY <1>1 DEF IInv
  <2>2. CASE UNCHANGED <<admitted, result, finished, historyVars>> BY <2>2 DEF Grows, Lasting
  <2>3. ASSUME NEW t \in Ids, AdmitOperation(t) PROVE Grows /\ \A u \in Ids : Lasting(u)
    <3>1. pc[t] = "record" /\ WorkerInv(t) BY <1>1, <2>3 DEF AdmitOperation, IInv
    <3>2. admitted[OpOf[raw[t]]] = None BY <3>1 DEF WorkerInv
    <3>3. /\ \A o \in Ops \ {OpOf[raw[t]]} : admitted'[o] = admitted[o]
          /\ UNCHANGED <<result, finished, historyVars>>
      BY <2>1, <2>3 DEF AdmitOperation, TypeOK, journalVars
    <3> QED BY <3>2, <3>3 DEF Grows, Lasting
  <2>4. ASSUME NEW t \in Ids, Persist(t) PROVE Grows /\ \A u \in Ids : Lasting(u)
    <3>1. finished[t] = None BY <1>1, <2>4 DEF Persist, IInv, WorkerInv, Open
    <3>2. /\ \A u \in Ids \ {t} : result'[u] = result[u]
          /\ UNCHANGED <<admitted, finished, historyVars>>
      BY <2>1, <2>4 DEF Persist, TypeOK
    <3> QED BY <3>1, <3>2 DEF Grows, Lasting
  <2>5. ASSUME NEW t \in Ids, Finish(t) PROVE Grows /\ \A u \in Ids : Lasting(u)
    <3>1. finished[t] = None BY <1>1, <2>5 DEF Finish, IInv, WorkerInv, Open
    <3>2. /\ \A u \in Ids \ {t} : finished'[u] = finished[u]
          /\ UNCHANGED <<admitted, result, historyVars>>
      BY <2>1, <2>5 DEF Finish, TypeOK
    <3> QED BY <3>1, <3>2 DEF Grows, Lasting
  <2>6. ASSUME NEW t \in Ids, Spawn(t) PROVE Grows /\ \A u \in Ids : Lasting(u)
    <3>1. started[t] = raw[t] /\ JournalInv(t)
      BY <1>1, <2>6 DEF Spawn, IInv, WorkerInv
    <3>2. /\ \/ ran'[t] = raw[t] /\ \A u \in Ids \ {t} : ran'[u] = ran[u]
             \/ UNCHANGED ran
          /\ UNCHANGED <<admitted, result, finished>>
      BY <2>1, <2>6 DEF Spawn, TypeOK, journalVars
    <3> QED BY <3>1, <3>2 DEF Grows, Lasting, JournalInv
  <2>7. ASSUME NEW t \in Ids, WorkerStep(t) PROVE Grows /\ \A u \in Ids : Lasting(u)
    <3>1. \/ AdmitOperation(t) \/ Persist(t) \/ Finish(t) \/ Spawn(t)
          \/ UNCHANGED <<admitted, result, finished, historyVars>>
      BY <2>7 DEF WorkerStep, Fetch, Lock, FirstSeen, RecoverOriginal, Replay, Inspect, Admit,
                  Plan, Start, Ended, Upload, Delete, journalVars
    <3> QED BY <2>2, <2>3, <2>4, <2>5, <2>6, <3>1
  <2>8. (\E t \in Ids : WorkerStep(t)) \/ UNCHANGED <<admitted, result, finished, historyVars>>
    BY <1>1 DEF Next, Fault, Submit, Reconfigure, Crash, journalVars
  <2> QED BY <2>2, <2>7, <2>8
<1>2. IInv /\ [Next]_vars => [Grows /\ \A t \in Ids : Lasting(t)]_vars BY <1>1
<1> QED BY <1>2, Inductive, PTL DEF Spec
===============================================================================
