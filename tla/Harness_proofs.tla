--------------------------- MODULE Harness_proofs ---------------------------
(***************************************************************************)
(* Theorems about Harness, for any number of jobs, conversations, browsers *)
(* and idempotency keys.  What keeps a job from being offered while it is  *)
(* held, or offered once it is closed, is spread over several methods:     *)
(* the inductive invariant below is the conjunction they rely on.          *)
(*                                                                         *)
(* The last section is about LocalProtocol, through which conversations    *)
(* call these methods.                                                     *)
(***************************************************************************)
EXTENDS Harness, LocalProtocol, FiniteSetTheorems, TLAPS

\* Nothing is recorded under a job that was not created.
Uncreated ==
  \A j \in Jobs : lifecycle[j] = None =>
    /\ ~IsOpen(handoff[j])
    /\ \A k \in Keys : operation[j][k] = None

\* "created" is answered exactly when the operation's row appears.
ToldOnce ==
  \A j \in Jobs, k \in Keys : told[j][k] = IF operation[j][k] = None THEN 0 ELSE 1

\* The nonce of an open handoff has granted nothing yet.
NonceUnspent ==
  \A j \in Jobs : claimed[j] <= 1 /\ (IsOpen(handoff[j]) => claimed[j] = 0)

-----------------------------------------------------------------------------
\* What _expire leaves is what was there, or less: it opens nothing.
LEMMA Seen ==
  ASSUME TypeOK, NEW j \in Jobs, NEW late \in BOOLEAN
  PROVE  /\ LeaseSeen(j, late) \in Lease \cup {None}
         /\ TokenSeen(j, late) \in SUBSET Holders
         /\ LeaseSeen(j, late) # None => Leased(j)
         /\ HandoffSeen(j, late) \in Handoff \cup {None}
         /\ IsOpen(HandoffSeen(j, late)) => IsOpen(handoff[j])
         /\ \A b : ReservedBy(HandoffSeen(j, late), b) => ReservedBy(handoff[j], b)
<1>1. /\ LeaseSeen(j, late) \in Lease \cup {None}
      /\ TokenSeen(j, late) \in SUBSET Holders
      /\ LeaseSeen(j, late) # None => Leased(j)
  BY DEF TypeOK, LeaseSeen, TokenSeen, Lapsed, Leased
<1>2. HandoffSeen(j, late) \in Handoff \cup {None}
  <2>1. handoff[j] \in Handoff \cup {None}
    BY DEF TypeOK
  <2>2. CASE HandoffSeen(j, late) = handoff[j]
    BY <2>1, <2>2
  <2>3. CASE HandoffSeen(j, late) # handoff[j]
    <3>1. handoff[j] \in Handoff
      BY <2>1, <2>3 DEF HandoffSeen, IsOpen
    <3>2. HandoffSeen(j, late) \in {Shut(handoff[j], "expired"), Unreserved(handoff[j], "pending")}
      BY <2>3 DEF HandoffSeen
    <3> QED BY <3>1, <3>2 DEF Shut, Unreserved, Handoff, Open
  <2> QED BY <2>2, <2>3
<1>3. IsOpen(HandoffSeen(j, late)) => IsOpen(handoff[j])
  BY DEF HandoffSeen, IsOpen
<1>4. ASSUME NEW b PROVE ReservedBy(HandoffSeen(j, late), b) => ReservedBy(handoff[j], b)
  <2>1. handoff[j] \in Handoff \cup {None}
    BY DEF TypeOK
  <2> QED BY <2>1 DEF HandoffSeen, IsOpen, ReservedBy, Shut, Unreserved, Handoff
<1> QED BY <1>1, <1>2, <1>3, <1>4

-----------------------------------------------------------------------------
\* What the parts that transactions share leave is well typed.
LEMMA SharedTypes ==
  ASSUME TypeOK, NEW j \in Jobs, NEW h \in Holders, NEW late \in BOOLEAN
  PROVE  /\ KeepLease(j, late) => /\ lease' \in [Jobs -> Lease \cup {None}]
                                  /\ token' \in [Jobs -> SUBSET Holders]
         /\ Grant(h, j) => /\ lease' \in [Jobs -> Lease \cup {None}]
                           /\ token' \in [Jobs -> SUBSET Holders]
         /\ Drop(j) => /\ lease' \in [Jobs -> Lease \cup {None}]
                       /\ token' \in [Jobs -> SUBSET Holders]
         /\ KeepHandoff(j, late) => /\ handoff' \in [Jobs -> Handoff \cup {None}]
                                    /\ known' \in [Jobs -> SUBSET Holders]
                                    /\ claimed' \in [Jobs -> Nat]
<1>1. KeepLease(j, late) => /\ lease' \in [Jobs -> Lease \cup {None}]
                            /\ token' \in [Jobs -> SUBSET Holders]
  BY Seen DEF TypeOK, KeepLease
<1>2. Grant(h, j) => /\ lease' \in [Jobs -> Lease \cup {None}]
                     /\ token' \in [Jobs -> SUBSET Holders]
  BY DEF TypeOK, Grant, Lease
<1>3. Drop(j) => /\ lease' \in [Jobs -> Lease \cup {None}]
                 /\ token' \in [Jobs -> SUBSET Holders]
  BY DEF TypeOK, Drop
<1>4. KeepHandoff(j, late) => /\ handoff' \in [Jobs -> Handoff \cup {None}]
                              /\ known' \in [Jobs -> SUBSET Holders]
                              /\ claimed' \in [Jobs -> Nat]
  BY Seen DEF TypeOK, KeepHandoff
<1> QED BY <1>1, <1>2, <1>3, <1>4

LEMMA SweepTypes ==
  ASSUME TypeOK, NEW late \in BOOLEAN
  PROVE  /\ SweepLeases(late) => /\ lease' \in [Jobs -> Lease \cup {None}]
                                 /\ token' \in [Jobs -> SUBSET Holders]
         /\ Swept(late) \in [Jobs -> Handoff \cup {None}]
<1>1. SweepLeases(late) => lease' \in [Jobs -> Lease \cup {None}]
  BY Seen DEF TypeOK, SweepLeases
<1>2. SweepLeases(late) => token' \in [Jobs -> SUBSET Holders]
  BY Seen DEF TypeOK, SweepLeases
<1>3. Swept(late) \in [Jobs -> Handoff \cup {None}]
  BY Seen DEF Swept
<1> QED BY <1>1, <1>2, <1>3

LEMMA TypeHolder ==
  ASSUME TypeOK, NEW h \in Holders, NEW j \in Jobs, NEW late \in BOOLEAN,
         HolderStep(h, j, late)
  PROVE  TypeOK'
<1> USE SharedTypes, Seen
<1>1. CASE AcquireLease(h, j, late)
  <2>1. CASE Grant(h, j)
    BY <1>1, <2>1 DEF AcquireLease, TypeOK
  <2>2. CASE ~Grant(h, j)
    <3>1. lease' = [lease EXCEPT ![j] = [holder |-> h, past |-> FALSE]]
      BY <1>1, <2>2 DEF AcquireLease
    <3>2. PICK told_to \in {{}, {h}} : token' = [token EXCEPT ![j] = @ \cup told_to]
      BY <1>1, <2>2 DEF AcquireLease
    <3> QED BY <1>1, <3>1, <3>2 DEF AcquireLease, TypeOK, Lease
  <2> QED BY <2>1, <2>2
<1>2. CASE RenewLease(h, j, late)
  <2>1. lease[j] \in Lease
    BY <1>2 DEF RenewLease, Holds, TypeOK, LeaseSeen
  <2> QED BY <1>2, <2>1 DEF RenewLease, TypeOK, Lease
<1>3. CASE ReleaseLease(h, j, late)
  BY <1>3 DEF ReleaseLease, TypeOK
<1>4. ASSUME NEW lc \in Lifecycles, UpdateJob(h, j, lc, late) PROVE TypeOK'
  BY <1>4 DEF UpdateJob, TypeOK
<1>5. CASE CreateHandoff(h, j, late)
  <2>1. [state |-> "pending", past |-> FALSE, browser |-> None, startPast |-> FALSE] \in Handoff
    BY DEF Handoff, Open
  <2> QED BY <1>5, <2>1 DEF CreateHandoff, Offer, TypeOK
<1>6. CASE ClaimHandoff(h, j, late)
  <2>1. handoff[j] \in Handoff
    BY <1>6 DEF ClaimHandoff, TypeOK, IsOpen
  <2>2. Shut(handoff[j], "claimed") \in Handoff
    BY <2>1 DEF Shut, Unreserved, Handoff
  <2> QED BY <1>6, <2>2 DEF ClaimHandoff, TypeOK
<1>7. ASSUME NEW k \in Keys, StartOperation(h, j, k, late) PROVE TypeOK'
  <2>1. /\ operation' \in [Jobs -> [Keys -> Statuses \cup {None}]]
        /\ told' \in [Jobs -> [Keys -> Nat]]
    <3>1. CASE UNCHANGED <<operation, told>>
      BY <3>1 DEF TypeOK
    <3>2. CASE ~UNCHANGED <<operation, told>>
      <4>1. /\ operation' = [operation EXCEPT ![j][k] = "started"]
            /\ told' = [told EXCEPT ![j][k] = @ + 1]
        BY <1>7, <3>2 DEF StartOperation
      <4>2. told[j] \in [Keys -> Nat] /\ operation[j] \in [Keys -> Statuses \cup {None}]
        BY DEF TypeOK
      <4>3. [told[j] EXCEPT ![k] = @ + 1] \in [Keys -> Nat]
        BY <4>2
      <4> QED BY <4>1, <4>2, <4>3 DEF TypeOK, Statuses, Unresolved
    <3> QED BY <3>1, <3>2
  <2> QED BY <1>7, <2>1 DEF StartOperation, TypeOK
<1>8. ASSUME NEW k \in Keys, NEW s \in Statuses \ {"started"},
             FinishOperation(h, j, k, s, late)
      PROVE  TypeOK'
  BY <1>8 DEF FinishOperation, TypeOK
<1> QED BY <1>1, <1>2, <1>3, <1>4, <1>5, <1>6, <1>7, <1>8 DEF HolderStep

LEMMA TypeBrowser ==
  ASSUME TypeOK, NEW b \in Browsers, NEW late \in BOOLEAN, BrowserStep(b, late)
  PROVE  TypeOK'
<1>1. CASE ReserveReentry(b, late)
  <2>1. /\ lease' \in [Jobs -> Lease \cup {None}] /\ token' \in [Jobs -> SUBSET Holders]
        /\ Swept(late) \in [Jobs -> Handoff \cup {None}]
    BY <1>1, SweepTypes DEF ReserveReentry
  <2>2. ASSUME NEW j \in Jobs, IsPending(Swept(late)[j])
        PROVE  [Swept(late)[j] EXCEPT !.state = "starting", !.browser = b] \in Handoff
    BY <2>1, <2>2 DEF IsPending, Handoff, Open
  <2> QED BY <1>1, <2>1, <2>2 DEF ReserveReentry, TypeOK
<1>2. ASSUME NEW j \in Jobs, ReleaseReentry(b, j, late) PROVE TypeOK'
  <2>1. /\ lease' \in [Jobs -> Lease \cup {None}] /\ token' \in [Jobs -> SUBSET Holders]
        /\ Swept(late) \in [Jobs -> Handoff \cup {None}]
    BY <1>2, SweepTypes DEF ReleaseReentry
  <2>2. Unreserved(Swept(late)[j], "pending") \in Handoff
    BY <1>2, <2>1 DEF ReleaseReentry, ReservedBy, Unreserved, Handoff, Open
  <2> QED BY <1>2, <2>1, <2>2 DEF ReleaseReentry, TypeOK
<1> QED BY <1>1, <1>2 DEF BrowserStep

LEMMA TypeTime ==
  ASSUME TypeOK, NEW j \in Jobs, Time(j)
  PROVE  TypeOK'
<1>1. CASE LeaseLapses(j)
  <2>1. lease[j] \in Lease
    BY <1>1 DEF LeaseLapses, Leased, TypeOK
  <2> QED BY <1>1, <2>1 DEF LeaseLapses, TypeOK, Lease
<1>2. CASE HandoffLapses(j)
  <2>1. handoff[j] \in Handoff
    BY <1>2 DEF HandoffLapses, IsOpen, TypeOK
  <2> QED BY <1>2, <2>1 DEF HandoffLapses, TypeOK, Handoff
<1>3. CASE ReservationLapses(j)
  <2>1. handoff[j] \in Handoff
    BY <1>3 DEF ReservationLapses, IsOpen, TypeOK
  <2> QED BY <1>3, <2>1 DEF ReservationLapses, TypeOK, Handoff
<1> QED BY <1>1, <1>2, <1>3 DEF Time

LEMMA TypeStep == TypeOK /\ [Next]_vars => TypeOK'
<1> SUFFICES ASSUME TypeOK, [Next]_vars PROVE TypeOK'
  OBVIOUS
<1>1. ASSUME NEW j \in Jobs, NEW lc \in Lifecycles, CreateJob(j, lc) PROVE TypeOK'
  BY <1>1 DEF CreateJob, TypeOK
<1>2. ASSUME NEW j \in Jobs, NEW late \in BOOLEAN, Read(j, late) PROVE TypeOK'
  <2>1. /\ lease' \in [Jobs -> Lease \cup {None}] /\ token' \in [Jobs -> SUBSET Holders]
        /\ handoff' \in [Jobs -> Handoff \cup {None}]
    BY <1>2, Seen DEF Read, KeepLease, KeepHandoff, TypeOK
  <2> QED BY <1>2, <2>1 DEF Read, KeepHandoff, TypeOK
<1>3. ASSUME NEW late \in BOOLEAN, PendingReentries(late) PROVE TypeOK'
  BY <1>3, SweepTypes DEF PendingReentries, TypeOK
<1>4. ASSUME NEW h \in Holders, NEW j \in Jobs, Prompt(h, j) PROVE TypeOK'
  BY <1>4 DEF Prompt, TypeOK
<1>5. CASE UNCHANGED vars
  BY <1>5 DEF TypeOK, vars
<1> QED BY <1>1, <1>2, <1>3, <1>4, <1>5, TypeHolder, TypeBrowser, TypeTime DEF Next

\* The rows of the harness database keep their types.
THEOREM TypeCorrect == Spec => []TypeOK
<1>1. Init => TypeOK
  BY DEF Init, TypeOK
<1> QED BY <1>1, TypeStep, PTL DEF Spec

-----------------------------------------------------------------------------
(***************************************************************************)
(* What one step may do to one job.                                        *)
(***************************************************************************)
\* The step grants no lease on i and opens no handoff of it.
Less(i) == (lease'[i] # None => Leased(i)) /\ (IsOpen(handoff'[i]) => IsOpen(handoff[i]))

LEMMA KeepsLess ==
  ASSUME TypeOK, NEW i \in Jobs, NEW j \in Jobs, NEW late \in BOOLEAN
  PROVE  /\ KeepLease(j, late) => (lease'[i] # None => Leased(i))
         /\ KeepHandoff(j, late) => /\ IsOpen(handoff'[i]) => IsOpen(handoff[i])
                                    /\ \A b : ReservedBy(handoff'[i], b) => ReservedBy(handoff[i], b)
         /\ SweepLeases(late) => (lease'[i] # None => Leased(i))
         /\ IsOpen(Swept(late)[i]) => IsOpen(handoff[i])
         /\ \A b : ReservedBy(Swept(late)[i], b) => ReservedBy(handoff[i], b)
<1>1. KeepLease(j, late) => (lease'[i] # None => Leased(i))
  BY Seen DEF KeepLease, TypeOK, Leased
<1>2. KeepHandoff(j, late) => /\ IsOpen(handoff'[i]) => IsOpen(handoff[i])
                              /\ \A b : ReservedBy(handoff'[i], b) => ReservedBy(handoff[i], b)
  BY Seen DEF KeepHandoff, TypeOK
<1>3. SweepLeases(late) => (lease'[i] # None => Leased(i))
  BY Seen DEF SweepLeases, Leased
<1>4. /\ IsOpen(Swept(late)[i]) => IsOpen(handoff[i])
      /\ \A b : ReservedBy(Swept(late)[i], b) => ReservedBy(handoff[i], b)
  BY Seen DEF Swept
<1> QED BY <1>1, <1>2, <1>3, <1>4

\* A step that grants a lease leaves no handoff open; one that opens a handoff
\* leaves no lease; both need a job that is not closed.
LEMMA LeaseStep ==
  ASSUME TypeOK, Next, NEW i \in Jobs
  PROVE  Less(i) \/ (Live(i) /\ (~IsOpen(handoff'[i]) \/ lease'[i] = None))
<1> DEFINE Good == Less(i) \/ (Live(i) /\ (~IsOpen(handoff'[i]) \/ lease'[i] = None))
<1> USE KeepsLess
<1>1. ASSUME NEW j \in Jobs, NEW lc \in Lifecycles, CreateJob(j, lc) PROVE Good
  BY <1>1 DEF CreateJob, Less, Leased
<1>2. ASSUME NEW j \in Jobs, NEW late \in BOOLEAN, Read(j, late) PROVE Good
  BY <1>2 DEF Read, Less
<1>3. ASSUME NEW h \in Holders, NEW j \in Jobs, NEW late \in BOOLEAN, HolderStep(h, j, late)
      PROVE  Good
  <2>1. CASE AcquireLease(h, j, late)
    <3>1. CASE i = j
      BY <2>1, <3>1 DEF AcquireLease, KeepHandoff, TypeOK
    <3>2. CASE i # j
      <4>1. lease'[i] = lease[i]
        BY <2>1, <3>2 DEF AcquireLease, Grant, TypeOK
      <4> QED BY <2>1, <4>1 DEF AcquireLease, Less, Leased
    <3> QED BY <3>1, <3>2
  <2>2. CASE RenewLease(h, j, late)
    <3>1. Leased(j)
      BY <2>2, Seen DEF RenewLease, Holds
    <3>2. lease'[i] # None => Leased(i)
      BY <2>2, <3>1 DEF RenewLease, TypeOK, Leased
    <3> QED BY <2>2, <3>2 DEF RenewLease, Less
  <2>3. CASE ReleaseLease(h, j, late)
    BY <2>3 DEF ReleaseLease, Drop, TypeOK, Less, Leased
  <2>4. ASSUME NEW lc \in Lifecycles, UpdateJob(h, j, lc, late) PROVE Good
    BY <2>4 DEF UpdateJob, Less
  <2>5. CASE CreateHandoff(h, j, late)
    <3>1. CASE i = j
      BY <2>5, <3>1 DEF CreateHandoff, Drop, TypeOK
    <3>2. CASE i # j
      BY <2>5, <3>2 DEF CreateHandoff, Offer, Drop, TypeOK, Less, Leased
    <3> QED BY <3>1, <3>2
  <2>6. CASE ClaimHandoff(h, j, late)
    <3>1. CASE i = j
      <4>1. handoff'[j] = Shut(handoff[j], "claimed") /\ Live(j)
        BY <2>6 DEF ClaimHandoff, TypeOK
      <4>2. handoff[j] \in Handoff
        BY <2>6, Seen DEF ClaimHandoff, TypeOK, IsOpen
      <4>3. ~IsOpen(handoff'[j])
        BY <4>1, <4>2 DEF Shut, Unreserved, Handoff, IsOpen, Open
      <4> QED BY <3>1, <4>1, <4>3
    <3>2. CASE i # j
      BY <2>6, <3>2 DEF ClaimHandoff, Grant, TypeOK, Less, Leased
    <3> QED BY <3>1, <3>2
  <2>7. ASSUME NEW k \in Keys, StartOperation(h, j, k, late) PROVE Good
    BY <2>7 DEF StartOperation, Less
  <2>8. ASSUME NEW k \in Keys, NEW s \in Statuses \ {"started"},
               FinishOperation(h, j, k, s, late)
        PROVE  Good
    BY <2>8 DEF FinishOperation, Less
  <2> QED BY <1>3, <2>1, <2>2, <2>3, <2>4, <2>5, <2>6, <2>7, <2>8 DEF HolderStep
<1>4. ASSUME NEW b \in Browsers, NEW late \in BOOLEAN, BrowserStep(b, late) PROVE Good
  <2>1. lease'[i] # None => Leased(i)
    BY <1>4 DEF BrowserStep, ReserveReentry, ReleaseReentry
  <2>2. IsOpen(handoff'[i]) => IsOpen(Swept(late)[i])
    <3>1. CASE ReserveReentry(b, late)
      BY <3>1 DEF ReserveReentry, Swept, IsPending, IsOpen, Open
    <3>2. ASSUME NEW j \in Jobs, ReleaseReentry(b, j, late)
          PROVE  IsOpen(handoff'[i]) => IsOpen(Swept(late)[i])
      BY <3>2 DEF ReleaseReentry, Swept, ReservedBy, IsOpen, Open
    <3> QED BY <1>4, <3>1, <3>2 DEF BrowserStep
  <2> QED BY <2>1, <2>2 DEF Less
<1>5. ASSUME NEW late \in BOOLEAN, PendingReentries(late) PROVE Good
  BY <1>5 DEF PendingReentries, Less
<1>6. ASSUME NEW h \in Holders, NEW j \in Jobs, Prompt(h, j) PROVE Good
  BY <1>6 DEF Prompt, Less, Leased
<1>7. ASSUME NEW j \in Jobs, Time(j) PROVE Good
  <2>1. CASE LeaseLapses(j)
    BY <2>1 DEF LeaseLapses, Less, Leased, TypeOK
  <2>2. CASE HandoffLapses(j)
    BY <2>2 DEF HandoffLapses, Less, Leased, TypeOK
  <2>3. CASE ReservationLapses(j)
    BY <2>3 DEF ReservationLapses, Less, Leased, TypeOK
  <2> QED BY <1>7, <2>1, <2>2, <2>3 DEF Time
<1> QED BY <1>1, <1>2, <1>3, <1>4, <1>5, <1>6, <1>7 DEF Next

\* A lifecycle changes only when a job is created, or by the conversation that
\* holds the job once all its operations are resolved.
LEMMA LifecycleStep ==
  ASSUME TypeOK, Next, NEW i \in Jobs
  PROVE  \/ lifecycle'[i] = lifecycle[i]
         \/ /\ lifecycle[i] = None /\ lifecycle'[i] \in Lifecycles
            /\ handoff'[i] = handoff[i] /\ operation'[i] = operation[i]
         \/ /\ Live(i) /\ lifecycle'[i] \in Lifecycles
            /\ Leased(i) /\ AllResolved(i) /\ Less(i) /\ operation'[i] = operation[i]
<1> DEFINE Good ==
         \/ lifecycle'[i] = lifecycle[i]
         \/ /\ lifecycle[i] = None /\ lifecycle'[i] \in Lifecycles
            /\ handoff'[i] = handoff[i] /\ operation'[i] = operation[i]
         \/ /\ Live(i) /\ lifecycle'[i] \in Lifecycles
            /\ Leased(i) /\ AllResolved(i) /\ Less(i) /\ operation'[i] = operation[i]
<1>1. ASSUME NEW j \in Jobs, NEW lc \in Lifecycles, CreateJob(j, lc) PROVE Good
  BY <1>1 DEF CreateJob, TypeOK
<1>2. ASSUME NEW h \in Holders, NEW j \in Jobs, NEW late \in BOOLEAN, NEW lc \in Lifecycles,
             UpdateJob(h, j, lc, late)
      PROVE  Good
  <2>1. CASE i = j
    <3>1. Leased(j) /\ Live(j) /\ AllResolved(j) /\ lifecycle'[j] = lc /\ UNCHANGED operation
      BY <1>2, Seen DEF UpdateJob, Holds, TypeOK
    <3>2. Less(j)
      BY <1>2, KeepsLess DEF UpdateJob, Less
    <3> QED BY <2>1, <3>1, <3>2
  <2>2. CASE i # j
    BY <1>2, <2>2 DEF UpdateJob, TypeOK
  <2> QED BY <2>1, <2>2
<1>3. CASE UNCHANGED lifecycle
  BY <1>3
<1>4. ASSUME NEW h \in Holders, NEW j \in Jobs, NEW late \in BOOLEAN, HolderStep(h, j, late)
      PROVE  Good
  BY <1>2, <1>3, <1>4 DEF HolderStep, AcquireLease, RenewLease, ReleaseLease, CreateHandoff,
       ClaimHandoff, StartOperation, FinishOperation
<1>5. ASSUME NEW b \in Browsers, NEW late \in BOOLEAN, BrowserStep(b, late) PROVE Good
  BY <1>3, <1>5 DEF BrowserStep, ReserveReentry, ReleaseReentry
<1> QED BY <1>1, <1>3, <1>4, <1>5 DEF Next, Read, PendingReentries, Prompt, Time,
           LeaseLapses, HandoffLapses, ReservationLapses

\* An operation appears, started and told, only while no other is unresolved;
\* after that it can only be finished, and only while it is unresolved.
Started(i) ==
  /\ Live(i) /\ AllResolved(i) /\ lifecycle'[i] = lifecycle[i]
  /\ \E k \in Keys : /\ operation[i][k] = None
                     /\ operation'[i] = [operation[i] EXCEPT ![k] = "started"]
                     /\ told'[i] = [told[i] EXCEPT ![k] = @ + 1]
Resolving(i) ==
  /\ told'[i] = told[i]
  /\ \E k \in Keys, s \in Statuses :
       /\ operation[i][k] \in Unresolved \/ operation[i][k] = s
       /\ operation'[i] = [operation[i] EXCEPT ![k] = s]

LEMMA OperationStep ==
  ASSUME TypeOK, Next, NEW i \in Jobs
  PROVE  (operation'[i] = operation[i] /\ told'[i] = told[i]) \/ Started(i) \/ Resolving(i)
<1> DEFINE Good == (operation'[i] = operation[i] /\ told'[i] = told[i]) \/ Started(i) \/ Resolving(i)
<1>1. ASSUME NEW h \in Holders, NEW j \in Jobs, NEW late \in BOOLEAN, NEW k \in Keys,
             StartOperation(h, j, k, late)
      PROVE  Good
  <2>1. CASE UNCHANGED <<operation, told>>
    BY <2>1
  <2>2. CASE ~UNCHANGED <<operation, told>>
    <3>1. /\ Live(j) /\ AllResolved(j) /\ operation[j][k] = None /\ UNCHANGED lifecycle
          /\ operation' = [operation EXCEPT ![j][k] = "started"]
          /\ told' = [told EXCEPT ![j][k] = @ + 1]
      BY <1>1, <2>2 DEF StartOperation
    <3> QED BY <3>1 DEF Started, TypeOK
  <2> QED BY <2>1, <2>2
<1>2. ASSUME NEW h \in Holders, NEW j \in Jobs, NEW late \in BOOLEAN, NEW k \in Keys,
             NEW s \in Statuses \ {"started"}, FinishOperation(h, j, k, s, late)
      PROVE  Good
  BY <1>2 DEF FinishOperation, Resolving, TypeOK
<1>3. CASE UNCHANGED <<operation, told>>
  BY <1>3
<1>4. ASSUME NEW h \in Holders, NEW j \in Jobs, NEW late \in BOOLEAN, HolderStep(h, j, late)
      PROVE  Good
  BY <1>1, <1>2, <1>3, <1>4 DEF HolderStep, AcquireLease, RenewLease, ReleaseLease,
       UpdateJob, CreateHandoff, ClaimHandoff
<1>5. ASSUME NEW b \in Browsers, NEW late \in BOOLEAN, BrowserStep(b, late) PROVE Good
  BY <1>3, <1>5 DEF BrowserStep, ReserveReentry, ReleaseReentry
<1> QED BY <1>3, <1>4, <1>5 DEF Next, CreateJob, Read, PendingReentries, Prompt, Time,
           LeaseLapses, HandoffLapses, ReservationLapses

-----------------------------------------------------------------------------
(***************************************************************************)
(* Jobs are held or offered, and closed for good.                          *)
(***************************************************************************)
JobInv == TypeOK /\ Uncreated /\ HeldOrOffered /\ ClosedIsNotOffered

LEMMA JobInit == Init => JobInv
<1> SUFFICES ASSUME Init PROVE JobInv
  OBVIOUS
<1>1. TypeOK
  BY DEF Init, TypeOK
<1>2. \A j \in Jobs : ~Leased(j) /\ ~IsOpen(handoff[j])
  BY DEF Init, Leased, IsOpen
<1>3. Uncreated
  BY <1>2 DEF Init, Uncreated
<1> QED BY <1>1, <1>2, <1>3 DEF JobInv, HeldOrOffered, ClosedIsNotOffered

LEMMA JobStep == JobInv /\ [Next]_vars => JobInv'
<1> SUFFICES ASSUME JobInv, [Next]_vars PROVE JobInv'
  OBVIOUS
<1> USE NoneAssumption
<1>1. TypeOK /\ TypeOK'
  BY TypeStep DEF JobInv
<1>2. CASE UNCHANGED vars
  BY <1>1, <1>2 DEF JobInv, vars, Uncreated, HeldOrOffered, ClosedIsNotOffered, Leased
<1>3. CASE Next
  <2> SUFFICES ASSUME NEW i \in Jobs
               PROVE  /\ lifecycle'[i] = None => /\ ~IsOpen(handoff'[i])
                                                 /\ \A k \in Keys : operation'[i][k] = None
                      /\ ~(lease'[i] # None /\ IsOpen(handoff'[i]))
                      /\ lifecycle'[i] \in Closed => ~IsOpen(handoff'[i])
    BY <1>1 DEF JobInv, Uncreated, HeldOrOffered, ClosedIsNotOffered, Leased
  <2>1. /\ lifecycle[i] = None => /\ ~IsOpen(handoff[i])
                                  /\ \A k \in Keys : operation[i][k] = None
        /\ ~(Leased(i) /\ IsOpen(handoff[i]))
        /\ lifecycle[i] \in Closed => ~IsOpen(handoff[i])
    BY DEF JobInv, Uncreated, HeldOrOffered, ClosedIsNotOffered
  <2>2. Less(i) \/ (Live(i) /\ (~IsOpen(handoff'[i]) \/ lease'[i] = None))
    BY <1>1, <1>3, LeaseStep
  <2>3. ~(lease'[i] # None /\ IsOpen(handoff'[i]))
    BY <2>1, <2>2 DEF Less
  <2>4. \/ lifecycle'[i] = lifecycle[i]
        \/ /\ lifecycle[i] = None /\ lifecycle'[i] \in Lifecycles
           /\ handoff'[i] = handoff[i] /\ operation'[i] = operation[i]
        \/ /\ Live(i) /\ lifecycle'[i] \in Lifecycles
           /\ Leased(i) /\ AllResolved(i) /\ Less(i) /\ operation'[i] = operation[i]
    BY <1>1, <1>3, LifecycleStep
  <2>5. lifecycle'[i] \in Closed => ~IsOpen(handoff'[i])
    BY <2>1, <2>2, <2>4 DEF Less, Live
  <2>6. lifecycle'[i] = None => ~IsOpen(handoff'[i])
    BY <2>1, <2>2, <2>4 DEF Less, Live
  <2>7. ASSUME lifecycle'[i] = None, NEW k \in Keys PROVE operation'[i][k] = None
    <3>1. lifecycle[i] = None
      BY <2>4, <2>7
    <3>2. operation'[i] = operation[i] \/ Started(i) \/ Resolving(i)
      BY <1>1, <1>3, OperationStep
    <3>3. ~Started(i)
      BY <3>1 DEF Started, Live
    <3>4. ~Resolving(i)
      BY <2>1, <3>1 DEF Resolving, Statuses
    <3> QED BY <2>1, <2>7, <3>1, <3>2, <3>3, <3>4
  <2> QED BY <2>3, <2>5, <2>6, <2>7
<1> QED BY <1>2, <1>3

\* A job is never leased and offered at once.
THEOREM JobsHeldOrOffered == Spec => []HeldOrOffered
<1>1. JobInv => HeldOrOffered
  BY DEF JobInv
<1> QED BY JobInit, JobStep, <1>1, PTL DEF Spec

\* No browser is ever offered a job that is closed.
THEOREM ClosedNeverOffered == Spec => []ClosedIsNotOffered
<1>1. JobInv => ClosedIsNotOffered
  BY DEF JobInv
<1> QED BY JobInit, JobStep, <1>1, PTL DEF Spec

-----------------------------------------------------------------------------
(***************************************************************************)
(* Operations.                                                             *)
(***************************************************************************)
OperationInv ==
  JobInv /\ OneUnresolvedOperation /\ ClosedIsResolved /\ ToldOnce

LEMMA OperationInit == Init => OperationInv
<1> SUFFICES ASSUME Init PROVE OperationInv
  OBVIOUS
<1> USE NoneAssumption
<1>1. \A j \in Jobs, k \in Keys : operation[j][k] = None /\ told[j][k] = 0
  BY DEF Init
<1>2. None \notin Unresolved /\ None \notin Closed
  BY DEF Statuses, Lifecycles
<1> QED BY <1>1, <1>2, JobInit DEF OperationInv, OneUnresolvedOperation, ClosedIsResolved,
           AllResolved, ToldOnce

\* What a step leaves of the operations of one job.
LEMMA OperationsKept ==
  ASSUME OperationInv, Next, NEW i \in Jobs
  PROVE  /\ \A k, l \in Keys :
              (operation'[i][k] \in Unresolved /\ operation'[i][l] \in Unresolved) => k = l
         /\ lifecycle'[i] \in Closed => \A k \in Keys : operation'[i][k] \notin Unresolved
         /\ \A k \in Keys : told'[i][k] = IF operation'[i][k] = None THEN 0 ELSE 1
<1> USE NoneAssumption
<1>1. /\ \A k, l \in Keys : (operation[i][k] \in Unresolved /\ operation[i][l] \in Unresolved) => k = l
      /\ lifecycle[i] \in Closed => AllResolved(i)
      /\ lifecycle[i] = None => \A k \in Keys : operation[i][k] = None
      /\ \A k \in Keys : told[i][k] = IF operation[i][k] = None THEN 0 ELSE 1
      /\ operation[i] \in [Keys -> Statuses \cup {None}] /\ told[i] \in [Keys -> Nat]
  BY DEF OperationInv, JobInv, TypeOK, Uncreated, OneUnresolvedOperation, ClosedIsResolved, ToldOnce
<1>2. \/ lifecycle'[i] = lifecycle[i]
      \/ lifecycle[i] = None /\ operation'[i] = operation[i]
      \/ AllResolved(i) /\ operation'[i] = operation[i]
  BY LifecycleStep DEF OperationInv, JobInv
<1>3. None \notin Unresolved /\ "started" # None
  BY DEF Statuses, Unresolved
<1>4. CASE operation'[i] = operation[i] /\ told'[i] = told[i]
  BY <1>1, <1>2, <1>3, <1>4 DEF AllResolved
<1>5. CASE Started(i)
  <2>1. PICK k \in Keys : /\ operation[i][k] = None
                          /\ operation'[i] = [operation[i] EXCEPT ![k] = "started"]
                          /\ told'[i] = [told[i] EXCEPT ![k] = @ + 1]
    BY <1>5 DEF Started
  <2>2. AllResolved(i) /\ lifecycle'[i] \notin Closed
    BY <1>5 DEF Started, Live
  <2>3. \A l \in Keys : l # k => operation'[i][l] \notin Unresolved
    BY <1>1, <2>1, <2>2 DEF AllResolved
  <2>4. \A l \in Keys : told'[i][l] = IF operation'[i][l] = None THEN 0 ELSE 1
    BY <1>1, <1>3, <2>1
  <2> QED BY <2>2, <2>3, <2>4
<1>6. CASE Resolving(i)
  <2>1. PICK k \in Keys, t \in Statuses :
          /\ operation[i][k] \in Unresolved \/ operation[i][k] = t
          /\ operation'[i] = [operation[i] EXCEPT ![k] = t]
    BY <1>6 DEF Resolving
  <2>2. \A l \in Keys : operation'[i][l] \in Unresolved => l = k \/ operation[i][l] \in Unresolved
    BY <1>1, <2>1
  <2>3. \A l \in Keys : (operation'[i][l] = None) <=> (operation[i][l] = None)
    BY <1>1, <2>1 DEF Statuses
  <2>4. operation'[i] # operation[i] => operation[i][k] \in Unresolved
    BY <1>1, <2>1
  <2>5. \A l, n \in Keys :
          (operation'[i][l] \in Unresolved /\ operation'[i][n] \in Unresolved) => l = n
    BY <1>1, <2>2, <2>4
  <2>6. \A l \in Keys : told'[i][l] = IF operation'[i][l] = None THEN 0 ELSE 1
    BY <1>1, <1>6, <2>3 DEF Resolving
  <2>7. lifecycle'[i] \in Closed => \A l \in Keys : operation'[i][l] \notin Unresolved
    BY <1>1, <1>2, <1>3, <2>1, <2>4 DEF AllResolved
  <2> QED BY <2>5, <2>6, <2>7
<1> QED BY <1>4, <1>5, <1>6, OperationStep DEF OperationInv, JobInv

LEMMA OperationInvStep == OperationInv /\ [Next]_vars => OperationInv'
<1> SUFFICES ASSUME OperationInv, [Next]_vars PROVE OperationInv'
  OBVIOUS
<1>1. JobInv'
  BY JobStep DEF OperationInv
<1>2. CASE UNCHANGED vars
  BY <1>1, <1>2 DEF OperationInv, vars, OneUnresolvedOperation, ClosedIsResolved, AllResolved, ToldOnce
<1>3. CASE Next
  BY <1>1, <1>3, OperationsKept
     DEF OperationInv, OneUnresolvedOperation, ClosedIsResolved, AllResolved, ToldOnce
<1> QED BY <1>2, <1>3

\* Whoever takes a job over finds at most one operation in flight.
THEOREM OneOperationInFlight == Spec => []OneUnresolvedOperation
<1>1. OperationInv => OneUnresolvedOperation
  BY DEF OperationInv
<1> QED BY OperationInit, OperationInvStep, <1>1, PTL DEF Spec

\* A closed job has no operation in flight.
THEOREM ClosedJobsResolved == Spec => []ClosedIsResolved
<1>1. OperationInv => ClosedIsResolved
  BY DEF OperationInv
<1> QED BY OperationInit, OperationInvStep, <1>1, PTL DEF Spec

\* No idempotency key is ever performed twice.
THEOREM KeysPerformedOnce == Spec => []PerformedOnce
<1>1. OperationInv => PerformedOnce
  BY DEF OperationInv, ToldOnce, PerformedOnce
<1> QED BY OperationInit, OperationInvStep, <1>1, PTL DEF Spec

\* However often the holder of a job vanishes in the middle of an operation, its
\* successors neither perform it again, nor start another, nor close the job over it.
THEOREM SuccessorsReconcile == Spec => []SuccessorReconciles
BY KeysPerformedOnce, OneOperationInFlight, ClosedJobsResolved, PTL DEF SuccessorReconciles

-----------------------------------------------------------------------------
(***************************************************************************)
(* Nonces are spent once, and a browser reserves one job at a time.        *)
(***************************************************************************)
Unclaimed(i) == claimed'[i] = claimed[i] /\ (IsOpen(handoff'[i]) => IsOpen(handoff[i]))
Spent(i) == IsOpen(handoff[i]) /\ ~IsOpen(handoff'[i]) /\ claimed'[i] = claimed[i] + 1
Unreserving(i) == \A b \in Browsers : ReservedBy(handoff'[i], b) => ReservedBy(handoff[i], b)

\* Only a browser's reservation reserves a job.
LEMMA HolderHandoffs ==
  ASSUME TypeOK, NEW h \in Holders, NEW j \in Jobs, NEW late \in BOOLEAN,
         HolderStep(h, j, late), NEW i \in Jobs
  PROVE  (Unclaimed(i) \/ claimed'[i] = 0 \/ Spent(i)) /\ Unreserving(i)
<1> USE KeepsLess
<1>1. CASE KeepHandoff(j, late)
  BY <1>1 DEF KeepHandoff, Unclaimed, Unreserving
<1>2. CASE CreateHandoff(h, j, late)
  <2>1. CASE i = j
    BY <1>2, <2>1 DEF CreateHandoff, Offer, TypeOK, ReservedBy, Unreserving
  <2>2. CASE i # j
    BY <1>2, <2>2 DEF CreateHandoff, Offer, TypeOK, Unclaimed, Unreserving
  <2> QED BY <2>1, <2>2
<1>3. CASE ClaimHandoff(h, j, late)
  <2>1. CASE i = j
    <3>1. handoff[j] \in Handoff /\ IsOpen(handoff[j])
      BY <1>3, Seen DEF ClaimHandoff, TypeOK, IsOpen
    <3>2. handoff'[j] = Shut(handoff[j], "claimed") /\ claimed'[j] = claimed[j] + 1
      BY <1>3 DEF ClaimHandoff, TypeOK
    <3>3. handoff'[j].state = "claimed"
      BY <3>1, <3>2 DEF Shut, Unreserved, Handoff
    <3> QED BY <2>1, <3>1, <3>2, <3>3 DEF Spent, Unreserving, IsOpen, Open, ReservedBy
  <2>2. CASE i # j
    BY <1>3, <2>2 DEF ClaimHandoff, TypeOK, Unclaimed, Unreserving
  <2> QED BY <2>1, <2>2
<1> QED BY <1>1, <1>2, <1>3 DEF HolderStep, AcquireLease, RenewLease, ReleaseLease,
           UpdateJob, StartOperation, FinishOperation

LEMMA NonceStep ==
  ASSUME TypeOK, Next, NEW i \in Jobs
  PROVE  Unclaimed(i) \/ claimed'[i] = 0 \/ Spent(i)
<1> DEFINE Good == Unclaimed(i) \/ claimed'[i] = 0 \/ Spent(i)
<1>1. ASSUME NEW j \in Jobs, NEW late \in BOOLEAN, Read(j, late) PROVE Good
  BY <1>1, KeepsLess DEF Read, KeepHandoff, Unclaimed
<1>2. ASSUME NEW h \in Holders, NEW j \in Jobs, NEW late \in BOOLEAN, HolderStep(h, j, late)
      PROVE  Good
  BY <1>2, HolderHandoffs
<1>3. CASE Less(i) /\ UNCHANGED claimed
  BY <1>3 DEF Less, Unclaimed
<1>4. ASSUME NEW b \in Browsers, NEW late \in BOOLEAN, BrowserStep(b, late) PROVE Good
  <2>1. IsOpen(handoff'[i]) => IsOpen(Swept(late)[i])
    <3>1. CASE ReserveReentry(b, late)
      BY <3>1 DEF ReserveReentry, Swept, IsPending, IsOpen, Open
    <3>2. ASSUME NEW j \in Jobs, ReleaseReentry(b, j, late)
          PROVE  IsOpen(handoff'[i]) => IsOpen(Swept(late)[i])
      BY <3>2 DEF ReleaseReentry, Swept, ReservedBy, IsOpen, Open
    <3> QED BY <1>4, <3>1, <3>2 DEF BrowserStep
  <2>2. claimed' = claimed
    BY <1>4 DEF BrowserStep, ReserveReentry, ReleaseReentry
  <2> QED BY <2>1, <2>2, KeepsLess DEF Unclaimed
<1>5. ASSUME NEW late \in BOOLEAN, PendingReentries(late) PROVE Good
  BY <1>5, KeepsLess DEF PendingReentries, Unclaimed
<1>6. ASSUME NEW j \in Jobs, Time(j) PROVE Good
  <2>1. CASE LeaseLapses(j)
    BY <2>1 DEF LeaseLapses, Unclaimed
  <2>2. CASE HandoffLapses(j)
    BY <2>2 DEF HandoffLapses, Unclaimed, TypeOK
  <2>3. CASE ReservationLapses(j)
    BY <2>3 DEF ReservationLapses, Unclaimed, TypeOK
  <2> QED BY <1>6, <2>1, <2>2, <2>3 DEF Time
<1>7. ASSUME NEW j \in Jobs, NEW lc \in Lifecycles, CreateJob(j, lc) PROVE Good
  BY <1>7 DEF CreateJob, Unclaimed
<1>8. ASSUME NEW h \in Holders, NEW j \in Jobs, Prompt(h, j) PROVE Good
  BY <1>8 DEF Prompt, Unclaimed
<1> QED BY <1>1, <1>2, <1>4, <1>5, <1>6, <1>7, <1>8 DEF Next

\* A nonce grants at most one lease, whichever conversations replay it.
THEOREM NoncesSpentOnce == Spec => []NonceSpentOnce
<1>1. Init => TypeOK /\ NonceUnspent
  BY DEF Init, TypeOK, NonceUnspent
<1>2. TypeOK /\ NonceUnspent /\ [Next]_vars => (TypeOK /\ NonceUnspent)'
  <2> SUFFICES ASSUME TypeOK, NonceUnspent, [Next]_vars PROVE NonceUnspent'
    BY TypeStep
  <2>1. CASE UNCHANGED vars
    BY <2>1 DEF vars, NonceUnspent
  <2>2. CASE Next
    <3> SUFFICES ASSUME NEW i \in Jobs
                 PROVE  claimed'[i] <= 1 /\ (IsOpen(handoff'[i]) => claimed'[i] = 0)
      BY DEF NonceUnspent
    <3>1. claimed[i] \in Nat /\ claimed[i] <= 1 /\ (IsOpen(handoff[i]) => claimed[i] = 0)
      BY DEF NonceUnspent, TypeOK
    <3>2. Unclaimed(i) \/ claimed'[i] = 0 \/ Spent(i)
      BY <2>2, NonceStep
    <3> QED BY <3>1, <3>2 DEF Unclaimed, Spent
  <2> QED BY <2>1, <2>2
<1>3. TypeOK /\ NonceUnspent => NonceSpentOnce
  BY DEF NonceUnspent, NonceSpentOnce
<1> QED BY <1>1, <1>2, <1>3, PTL DEF Spec

\* Every other step reserves nothing.
LEMMA ReservationStep ==
  ASSUME TypeOK, Next
  PROVE  \/ \A i \in Jobs : Unreserving(i)
         \/ \E b \in Browsers, late \in BOOLEAN : ReserveReentry(b, late)
<1> DEFINE Good == \A i \in Jobs : Unreserving(i)
<1>1. ASSUME NEW j \in Jobs, NEW late \in BOOLEAN, Read(j, late) PROVE Good
  BY <1>1, KeepsLess DEF Read, Unreserving
<1>2. ASSUME NEW h \in Holders, NEW j \in Jobs, NEW late \in BOOLEAN, HolderStep(h, j, late)
      PROVE  Good
  BY <1>2, HolderHandoffs
<1>3. ASSUME NEW b \in Browsers, NEW j \in Jobs, NEW late \in BOOLEAN, ReleaseReentry(b, j, late)
      PROVE  Good
  <2> SUFFICES ASSUME NEW i \in Jobs, NEW c \in Browsers, ReservedBy(handoff'[i], c)
               PROVE  ReservedBy(handoff[i], c)
    BY DEF Unreserving
  <2>1. Swept(late) \in [Jobs -> Handoff \cup {None}]
    BY SweepTypes
  <2>2. CASE i = j
    <3>1. handoff'[j] = Unreserved(Swept(late)[j], "pending") /\ Swept(late)[j] \in Handoff
      BY <1>3, <2>1 DEF ReleaseReentry, ReservedBy
    <3>2. handoff'[j].state = "pending"
      BY <3>1 DEF Unreserved, Handoff
    <3> QED BY <2>2, <3>2 DEF ReservedBy
  <2>3. CASE i # j
    <3>1. handoff'[i] = Swept(late)[i]
      BY <1>3, <2>1, <2>3 DEF ReleaseReentry
    <3> QED BY <3>1, KeepsLess
  <2> QED BY <2>2, <2>3
<1>4. ASSUME NEW late \in BOOLEAN, PendingReentries(late) PROVE Good
  BY <1>4, KeepsLess DEF PendingReentries, Unreserving
<1>5. ASSUME NEW j \in Jobs, Time(j) PROVE Good
  <2>1. CASE LeaseLapses(j)
    BY <2>1 DEF LeaseLapses, Unreserving
  <2>2. CASE HandoffLapses(j)
    <3>1. handoff[j] \in Handoff
      BY <2>2 DEF HandoffLapses, IsOpen, TypeOK
    <3>2. handoff'[j] = [handoff[j] EXCEPT !.past = TRUE, !.startPast = handoff[j].state = "starting"]
      BY <2>2 DEF HandoffLapses, TypeOK
    <3>3. handoff'[j].state = handoff[j].state /\ handoff'[j].browser = handoff[j].browser
      BY <3>1, <3>2 DEF Handoff
    <3>4. ASSUME NEW i \in Jobs, i # j PROVE handoff'[i] = handoff[i]
      BY <2>2, <3>4 DEF HandoffLapses, TypeOK
    <3>5. handoff[j] # None
      BY <2>2 DEF HandoffLapses, IsOpen
    <3> QED BY <3>3, <3>4, <3>5 DEF Unreserving, ReservedBy
  <2>3. CASE ReservationLapses(j)
    <3>1. handoff[j] \in Handoff
      BY <2>3 DEF ReservationLapses, IsOpen, TypeOK
    <3>2. handoff'[j] = [handoff[j] EXCEPT !.startPast = TRUE]
      BY <2>3 DEF ReservationLapses, TypeOK
    <3>3. handoff'[j].state = handoff[j].state /\ handoff'[j].browser = handoff[j].browser
      BY <3>1, <3>2 DEF Handoff
    <3>4. ASSUME NEW i \in Jobs, i # j PROVE handoff'[i] = handoff[i]
      BY <2>3, <3>4 DEF ReservationLapses, TypeOK
    <3>5. handoff[j] # None
      BY <2>3 DEF ReservationLapses, IsOpen
    <3> QED BY <3>3, <3>4, <3>5 DEF Unreserving, ReservedBy
  <2> QED BY <1>5, <2>1, <2>2, <2>3 DEF Time
<1>6. ASSUME NEW j \in Jobs, NEW lc \in Lifecycles, CreateJob(j, lc) PROVE Good
  BY <1>6 DEF CreateJob, Unreserving
<1>7. ASSUME NEW h \in Holders, NEW j \in Jobs, Prompt(h, j) PROVE Good
  BY <1>7 DEF Prompt, Unreserving
<1> QED BY <1>1, <1>2, <1>3, <1>4, <1>5, <1>6, <1>7 DEF Next, BrowserStep

LEMMA ReserveOnce ==
  ASSUME TypeOK, OneReservationPerBrowser, NEW b \in Browsers, NEW late \in BOOLEAN,
         ReserveReentry(b, late)
  PROVE  OneReservationPerBrowser'
<1>1. CASE handoff' = Swept(late)
  BY <1>1, KeepsLess DEF OneReservationPerBrowser
<1>2. CASE \A j \in Jobs : ~ReservedBy(Swept(late)[j], b)
  <2>1. CASE handoff' = Swept(late)
    BY <1>1, <2>1
  <2>2. CASE handoff' # Swept(late)
    <3>1. PICK k \in Jobs : /\ IsPending(Swept(late)[k])
                            /\ handoff' = [Swept(late) EXCEPT ![k] =
                                 [@ EXCEPT !.state = "starting", !.browser = b]]
      BY <2>2 DEF ReserveReentry
    <3>2. Swept(late) \in [Jobs -> Handoff \cup {None}] /\ Swept(late)[k] \in Handoff
      BY <3>1, SweepTypes DEF IsPending
    <3>3. handoff'[k].browser = b
      BY <3>1, <3>2 DEF Handoff
    <3>4. ASSUME NEW i \in Jobs, i # k PROVE handoff'[i] = Swept(late)[i]
      BY <3>1, <3>2, <3>4
    <3>5. ASSUME NEW c \in Browsers, NEW i \in Jobs, NEW j \in Jobs,
                 ReservedBy(handoff'[i], c), ReservedBy(handoff'[j], c), i # j
          PROVE  FALSE
      <4>1. CASE i = k
        <5>1. c = b
          BY <3>3, <3>5, <4>1 DEF ReservedBy
        <5> QED BY <1>2, <3>4, <3>5, <4>1, <5>1
      <4>2. CASE j = k
        <5>1. c = b
          BY <3>3, <3>5, <4>2 DEF ReservedBy
        <5> QED BY <1>2, <3>4, <3>5, <4>2, <5>1
      <4>3. CASE i # k /\ j # k
        <5>1. ReservedBy(handoff[i], c) /\ ReservedBy(handoff[j], c)
          BY <3>4, <3>5, <4>3, KeepsLess
        <5> QED BY <3>5, <5>1 DEF OneReservationPerBrowser
      <4> QED BY <4>1, <4>2, <4>3
    <3> QED BY <3>5 DEF OneReservationPerBrowser
  <2> QED BY <2>1, <2>2
<1> QED BY <1>1, <1>2 DEF ReserveReentry

\* A browser never has two jobs reserved, so the unique index of the handoffs
\* never makes reserve_reentry fail.
THEOREM BrowsersReserveOnce == Spec => []OneReservationPerBrowser
<1>1. Init => TypeOK /\ OneReservationPerBrowser
  BY DEF Init, TypeOK, OneReservationPerBrowser, ReservedBy
<1>2. TypeOK /\ OneReservationPerBrowser /\ [Next]_vars => (TypeOK /\ OneReservationPerBrowser)'
  <2> SUFFICES ASSUME TypeOK, OneReservationPerBrowser, [Next]_vars
               PROVE  OneReservationPerBrowser'
    BY TypeStep
  <2>1. CASE UNCHANGED vars
    BY <2>1 DEF vars, OneReservationPerBrowser
  <2>2. CASE Next
    <3>1. CASE \A i \in Jobs : Unreserving(i)
      BY <3>1 DEF Unreserving, OneReservationPerBrowser
    <3>2. CASE \E b \in Browsers, late \in BOOLEAN : ReserveReentry(b, late)
      BY <3>2, ReserveOnce
    <3> QED BY <2>2, <3>1, <3>2, ReservationStep
  <2> QED BY <2>1, <2>2
<1> QED BY <1>1, <1>2, PTL DEF Spec

-----------------------------------------------------------------------------
(***************************************************************************)
(* LocalProtocol, for any number of request ids, payloads and messages.    *)
(* The one fact everything rests on: a mutation executes only between      *)
(* _begin and _finish of the message that inserted the row, and the row    *)
(* remembers whose mutation it was.                                        *)
(***************************************************************************)
\* What a row says about what executed under its request id.
RowInv ==
  \A r \in Requests :
    /\ \A p \in Payloads : executed[r][p] # 0 =>
         executed[r][p] = 1 /\ row[r] # Absent /\ row[r].payload = p
    /\ row[r] # Absent =>
         /\ row[r].status = "completed" =>
              row[r].response = "ok" /\ executed[r][row[r].payload] = 1
         /\ row[r].status = "failed" => row[r].response \in {"error", "conflict"}

\* The message being dispatched between its transactions: nobody was told
\* that its request is indeterminate, because nobody else is served.
Own(r, p) ==
  /\ row[r] # Absent /\ row[r].status = "started" /\ row[r].payload = p
  /\ \A h \in heard : h.id = r => h.answer # "indeterminate"

ServerInv ==
  /\ At("execute") => /\ Own(server.id, server.payload)
                      /\ executed[server.id][server.payload] = 0
  /\ At("finish") => /\ Own(server.id, server.payload) /\ server.response = "ok"
                     /\ executed[server.id][server.payload] = 1
  /\ At("refuse") => server.response \in {"error", "conflict"}

ProtocolInv == ProtocolTypeOK /\ RowInv /\ ServerInv /\ OkIsItsOwn /\ IndeterminateNeverCompletes

-----------------------------------------------------------------------------
LEMMA ProtocolInitInv == ProtocolInit => ProtocolInv
<1> SUFFICES ASSUME ProtocolInit PROVE ProtocolInv
  OBVIOUS
<1>1. ProtocolTypeOK
  BY PayloadsAssumption DEF ProtocolInit, ProtocolTypeOK
<1>2. RowInv
  BY DEF ProtocolInit, RowInv
<1>3. ServerInv
  BY DEF ProtocolInit, ServerInv, At
<1>4. OkIsItsOwn /\ IndeterminateNeverCompletes
  BY DEF ProtocolInit, OkIsItsOwn, IndeterminateNeverCompletes
<1> QED BY <1>1, <1>2, <1>3, <1>4 DEF ProtocolInv

\* The socket write that ends a message changes neither rows nor effects.
LEMMA AnswerType ==
  ASSUME ProtocolTypeOK, server # Absent, NEW a \in Answers, Answer(a)
  PROVE  /\ server' = Absent
         /\ heard' \subseteq [id : Requests, payload : Payloads, answer : Answers]
         /\ \A h \in heard' : h \in heard \/ (/\ h.id = server.id
                                             /\ h.payload = server.payload
                                             /\ h.answer = a)
<1>1. server \in Message
  BY DEF ProtocolTypeOK
<1>2. server.id \in Requests /\ server.payload \in Payloads
  BY <1>1 DEF Message
<1> QED BY <1>2 DEF Answer, ProtocolTypeOK

LEMMA ReceiveInv ==
  ASSUME ProtocolInv, NEW r \in Requests, NEW p \in Payloads, Receive(r, p)
  PROVE  ProtocolInv'
<1>1. /\ UNCHANGED <<row, executed, heard>> /\ ProtocolTypeOK
      /\ server' = [id |-> r, payload |-> p,
                    step |-> IF p \in Malformed THEN "refuse" ELSE "begin",
                    response |-> IF p \in Malformed THEN "error" ELSE Absent]
  BY DEF Receive, ProtocolInv
<1>2. server' \in Message
  BY <1>1 DEF Message, Steps
<1>3. messages' \in 0..MaxMessages
  BY PayloadsAssumption DEF Receive, ProtocolInv, ProtocolTypeOK
<1>4. ProtocolTypeOK'
  BY <1>1, <1>2, <1>3 DEF ProtocolTypeOK
<1>5. RowInv' /\ OkIsItsOwn' /\ IndeterminateNeverCompletes'
  BY <1>1 DEF ProtocolInv, RowInv, OkIsItsOwn, IndeterminateNeverCompletes
<1>6. ServerInv'
  <2>1. /\ server'.step \in {"refuse", "begin"}
        /\ server'.step = "refuse" => server'.response = "error"
    BY <1>1
  <2> QED BY <2>1 DEF ServerInv, At
<1> QED BY <1>4, <1>5, <1>6 DEF ProtocolInv

LEMMA BeginInv ==
  ASSUME ProtocolInv, Begin
  PROVE  ProtocolInv'
<1>1. ProtocolTypeOK /\ RowInv /\ ServerInv /\ OkIsItsOwn /\ IndeterminateNeverCompletes
  BY DEF ProtocolInv
<1>2. server \in Message /\ server # Absent
  BY DEF Begin, At, ProtocolInv, ProtocolTypeOK
<1> DEFINE r == server.id
           p == server.payload
<1>3. r \in Requests /\ p \in Payloads /\ UNCHANGED <<executed, messages>>
  BY <1>2 DEF Message, Begin
<1>4. CASE /\ row[r] = Absent
           /\ row' = [row EXCEPT ![r] = [payload |-> p, status |-> "started", response |-> Absent]]
           /\ Goto("execute", Absent) /\ UNCHANGED heard
  <2>1. /\ row'[r] = [payload |-> p, status |-> "started", response |-> Absent]
        /\ \A q \in Requests : q # r => row'[q] = row[q]
    BY <1>1, <1>3, <1>4 DEF ProtocolTypeOK
  <2>2. row'[r] \in Row /\ row'[r] # Absent
    BY <1>3, <2>1, PayloadsAssumption DEF Row
  <2>3. /\ server' \in Message /\ server' # Absent
        /\ server'.id = r /\ server'.payload = p /\ server'.step = "execute"
    BY <1>2, <1>4, PayloadsAssumption DEF Goto, Message, Steps
  <2>4. ProtocolTypeOK'
    BY <1>1, <1>3, <1>4, <2>2, <2>3 DEF ProtocolTypeOK
  <2>5. /\ \A q \in Payloads : executed[r][q] = 0
        /\ \A h \in heard : h.id = r => h.answer \notin {"ok", "indeterminate"}
    BY <1>1, <1>3, <1>4 DEF RowInv, OkIsItsOwn, IndeterminateNeverCompletes, ProtocolTypeOK
  <2>6. RowInv'
    BY <1>1, <1>3, <1>4, <2>1, <2>2, <2>5 DEF RowInv
  <2>7. ServerInv'
    BY <1>3, <1>4, <2>1, <2>2, <2>3, <2>5 DEF ServerInv, At, Own
  <2>8. OkIsItsOwn' /\ IndeterminateNeverCompletes'
    BY <1>1, <1>3, <1>4, <2>1, <2>5 DEF OkIsItsOwn, IndeterminateNeverCompletes, ProtocolTypeOK
  <2> QED BY <2>4, <2>6, <2>7, <2>8 DEF ProtocolInv
<1>5. CASE Goto("refuse", "conflict") /\ UNCHANGED <<row, heard>>
  <2>1. /\ server' \in Message /\ server' # Absent
        /\ server'.step = "refuse" /\ server'.response = "conflict"
    BY <1>2, <1>5, PayloadsAssumption DEF Goto, Message, Steps
  <2>2. ProtocolTypeOK'
    BY <1>1, <1>3, <1>5, <2>1 DEF ProtocolTypeOK
  <2>3. RowInv' /\ OkIsItsOwn' /\ IndeterminateNeverCompletes'
    BY <1>1, <1>3, <1>5 DEF RowInv, OkIsItsOwn, IndeterminateNeverCompletes
  <2>4. ServerInv'
    BY <2>1 DEF ServerInv, At
  <2> QED BY <2>2, <2>3, <2>4 DEF ProtocolInv
<1>6. CASE /\ row[r] # Absent /\ row[r].payload = p
           /\ Answer(IF IsStarted(r) THEN "indeterminate" ELSE row[r].response)
           /\ UNCHANGED row
  <2> DEFINE a == IF IsStarted(r) THEN "indeterminate" ELSE row[r].response
  <2>1. row[r] \in Row
    BY <1>1, <1>3, <1>6 DEF ProtocolTypeOK
  <2>2. /\ a \in {"ok", "error", "conflict", "indeterminate"}
        /\ a = "ok" => executed[r][p] = 1
        /\ a = "indeterminate" => row[r].status = "started"
    <3>1. CASE row[r].status = "started"
      BY <1>6, <3>1 DEF IsStarted
    <3>2. CASE row[r].status = "completed"
      BY <1>1, <1>3, <1>6, <3>2 DEF IsStarted, RowInv
    <3>3. CASE row[r].status = "failed"
      BY <1>1, <1>3, <1>6, <3>3 DEF IsStarted, RowInv
    <3> QED BY <2>1, <3>1, <3>2, <3>3 DEF Row, Terminal
  <2>3. /\ server' = Absent
        /\ heard' \subseteq [id : Requests, payload : Payloads, answer : Answers]
        /\ \A h \in heard' : h \in heard \/ (h.id = r /\ h.payload = p /\ h.answer = a)
    <3>1. a \in Answers /\ Answer(a)
      BY <1>6, <2>2 DEF Answers
    <3> HIDE DEF a
    <3> QED BY <1>1, <1>2, <3>1, AnswerType
  <2> HIDE DEF a
  <2>4. ProtocolTypeOK' /\ RowInv' /\ ServerInv'
    BY <1>1, <1>3, <1>6, <2>3 DEF ProtocolTypeOK, RowInv, ServerInv, At
  <2>5. OkIsItsOwn'
    BY <1>1, <1>3, <2>2, <2>3 DEF OkIsItsOwn
  <2>6. IndeterminateNeverCompletes'
    BY <1>1, <1>3, <1>6, <2>2, <2>3 DEF IndeterminateNeverCompletes
  <2> QED BY <2>4, <2>5, <2>6 DEF ProtocolInv
<1> QED BY <1>4, <1>5, <1>6 DEF Begin

LEMMA ExecuteInv ==
  ASSUME ProtocolInv, Execute
  PROVE  ProtocolInv'
<1>1. ProtocolTypeOK /\ RowInv /\ ServerInv /\ OkIsItsOwn /\ IndeterminateNeverCompletes
  BY DEF ProtocolInv
<1>2. server \in Message /\ server # Absent
  BY DEF Execute, At, ProtocolInv, ProtocolTypeOK
<1> DEFINE r == server.id
           p == server.payload
<1>3. r \in Requests /\ p \in Payloads /\ UNCHANGED <<row, heard, messages>>
  BY <1>2 DEF Message, Execute
<1>4. Own(r, p) /\ executed[r][p] = 0
  BY <1>1 DEF Execute, ServerInv
<1>5. CASE /\ executed' = [executed EXCEPT ![r][p] = @ + 1]
           /\ Goto("finish", "ok")
  <2>1. /\ executed'[r][p] = 1
        /\ \A q \in Requests, x \in Payloads : q # r \/ x # p => executed'[q][x] = executed[q][x]
        /\ executed' \in [Requests -> [Payloads -> Nat]]
    BY <1>1, <1>3, <1>4, <1>5 DEF ProtocolTypeOK
  <2>2. /\ server' \in Message /\ server' # Absent
        /\ server'.id = r /\ server'.payload = p /\ server'.step = "finish"
        /\ server'.response = "ok"
    BY <1>2, <1>5, PayloadsAssumption DEF Goto, Message, Steps
  <2>3. ProtocolTypeOK'
    BY <1>1, <1>3, <2>1, <2>2 DEF ProtocolTypeOK
  <2>4. RowInv'
    <3> SUFFICES ASSUME NEW q \in Requests
                 PROVE  /\ \A x \in Payloads : executed'[q][x] # 0 =>
                             executed'[q][x] = 1 /\ row[q] # Absent /\ row[q].payload = x
                        /\ row[q] # Absent =>
                             /\ row[q].status = "completed" =>
                                  row[q].response = "ok" /\ executed'[q][row[q].payload] = 1
                             /\ row[q].status = "failed" => row[q].response \in {"error", "conflict"}
      BY <1>3 DEF RowInv
    <3>1. CASE q = r
      BY <1>1, <1>3, <1>4, <2>1, <3>1 DEF RowInv, Own
    <3>2. CASE q # r
      <4>1. row[q] # Absent => row[q].payload \in Payloads
        BY <1>1 DEF ProtocolTypeOK, Row
      <4> QED BY <1>1, <1>3, <2>1, <3>2, <4>1 DEF RowInv
    <3> QED BY <3>1, <3>2
  <2>5. ServerInv'
    BY <1>3, <1>4, <2>1, <2>2 DEF ServerInv, At, Own
  <2>6. OkIsItsOwn' /\ IndeterminateNeverCompletes'
    BY <1>1, <1>3, <2>1 DEF OkIsItsOwn, IndeterminateNeverCompletes, ProtocolTypeOK
  <2> QED BY <2>3, <2>4, <2>5, <2>6 DEF ProtocolInv
<1>6. CASE Goto("refuse", "error") /\ UNCHANGED executed
  <2>1. /\ server' \in Message /\ server' # Absent
        /\ server'.step = "refuse" /\ server'.response = "error"
    BY <1>2, <1>6, PayloadsAssumption DEF Goto, Message, Steps
  <2>2. ProtocolTypeOK' /\ RowInv' /\ OkIsItsOwn' /\ IndeterminateNeverCompletes'
    BY <1>1, <1>3, <1>6, <2>1 DEF ProtocolTypeOK, RowInv, OkIsItsOwn, IndeterminateNeverCompletes
  <2>3. ServerInv'
    BY <2>1 DEF ServerInv, At
  <2> QED BY <2>2, <2>3 DEF ProtocolInv
<1> QED BY <1>5, <1>6 DEF Execute

\* Closing a row that is still started, then answering.
LEMMA CloseInv ==
  ASSUME ProtocolInv, server # Absent, UNCHANGED <<executed, messages>>,
         NEW status \in Terminal, Close(status), NEW a \in Answers \ {"indeterminate"}, Answer(a),
         status = "completed" => /\ a = "ok" /\ server.response = "ok"
                                 /\ Own(server.id, server.payload)
                                 /\ executed[server.id][server.payload] = 1,
         status = "failed" => a # "ok" /\ server.response \in {"error", "conflict"}
  PROVE  ProtocolInv'
<1>1. ProtocolTypeOK /\ RowInv /\ OkIsItsOwn /\ IndeterminateNeverCompletes
  BY DEF ProtocolInv
<1>2. server \in Message
  BY <1>1 DEF ProtocolTypeOK
<1> DEFINE r == server.id
           p == server.payload
<1>3. r \in Requests /\ p \in Payloads /\ server.response \in {"ok", "error", "conflict", Absent}
  BY <1>2 DEF Message
<1>4. /\ server' = Absent
      /\ heard' \subseteq [id : Requests, payload : Payloads, answer : Answers]
      /\ \A h \in heard' : h \in heard \/ (h.id = r /\ h.payload = p /\ h.answer = a)
  BY <1>1, AnswerType
<1>5. /\ row' \in [Requests -> Row \cup {Absent}]
      /\ \A q \in Requests :
           \/ row'[q] = row[q]
           \/ /\ q = r /\ row[q] # Absent /\ row[q] \in Row /\ row[q].status = "started"
              /\ row'[q] # Absent /\ row'[q].payload = row[q].payload
              /\ row'[q].status = status /\ row'[q].response = server.response
  <2>1. CASE IsStarted(r)
    <3>1. row[r] \in Row /\ row[r] # Absent /\ row[r].status = "started"
      BY <1>1, <1>3, <2>1 DEF IsStarted, ProtocolTypeOK
    <3>2. row' = [row EXCEPT ![r].status = status, ![r].response = server.response]
      BY <2>1 DEF Close
    <3>3. /\ row'[r] = [row[r] EXCEPT !.status = status, !.response = server.response]
          /\ \A q \in Requests : q # r => row'[q] = row[q]
      BY <1>1, <1>3, <3>2 DEF ProtocolTypeOK
    <3>4. /\ row'[r] \in Row /\ row'[r].payload = row[r].payload
          /\ row'[r].status = status /\ row'[r].response = server.response
      BY <1>3, <3>1, <3>3 DEF Row
    <3>5. row'[r] # Absent
      BY <3>4, PayloadsAssumption
    <3>6. row' \in [Requests -> Row \cup {Absent}]
      BY <1>1, <1>3, <3>2, <3>3, <3>4 DEF ProtocolTypeOK
    <3> QED BY <3>1, <3>3, <3>4, <3>5, <3>6
  <2>2. CASE ~IsStarted(r)
    BY <1>1, <2>2 DEF Close, ProtocolTypeOK
  <2> QED BY <2>1, <2>2
<1>6. ProtocolTypeOK'
  BY <1>1, <1>4, <1>5 DEF ProtocolTypeOK
<1>7. RowInv'
  <2> SUFFICES ASSUME NEW q \in Requests
               PROVE  /\ \A x \in Payloads : executed[q][x] # 0 =>
                           executed[q][x] = 1 /\ row'[q] # Absent /\ row'[q].payload = x
                      /\ row'[q] # Absent =>
                           /\ row'[q].status = "completed" =>
                                row'[q].response = "ok" /\ executed[q][row'[q].payload] = 1
                           /\ row'[q].status = "failed" => row'[q].response \in {"error", "conflict"}
    BY DEF RowInv
  <2>1. CASE row'[q] = row[q]
    BY <1>1, <2>1 DEF RowInv
  <2>2. CASE /\ q = r /\ row[q] # Absent /\ row'[q] # Absent /\ row'[q].payload = row[q].payload
             /\ row'[q].status = status /\ row'[q].response = server.response
    BY <1>1, <2>2 DEF RowInv, Own
  <2> QED BY <1>5, <2>1, <2>2
<1>8. ServerInv'
  BY <1>4 DEF ServerInv, At
<1>9. OkIsItsOwn'
  BY <1>1, <1>4 DEF OkIsItsOwn, Terminal
<1>10. IndeterminateNeverCompletes'
  <2> SUFFICES ASSUME NEW h \in heard', h.answer = "indeterminate"
               PROVE  row'[h.id] # Absent /\ row'[h.id].status # "completed"
    BY DEF IndeterminateNeverCompletes
  <2>1. h \in heard /\ h.id \in Requests /\ row[h.id] # Absent /\ row[h.id].status # "completed"
    BY <1>1, <1>4 DEF IndeterminateNeverCompletes, ProtocolTypeOK
  <2>2. status = "completed" => h.id # r
    BY <2>1 DEF Own
  <2> QED BY <1>5, <2>1, <2>2
<1> QED BY <1>6, <1>7, <1>8, <1>9, <1>10 DEF ProtocolInv

\* An error or a death forgets the message and touches nothing durable.
LEMMA DropInv ==
  ASSUME ProtocolInv, server # Absent, UNCHANGED <<row, executed, messages>>, server' = Absent,
         (UNCHANGED heard) \/ Answer("internal")
  PROVE  ProtocolInv'
<1>1. ProtocolTypeOK /\ RowInv /\ OkIsItsOwn /\ IndeterminateNeverCompletes
  BY DEF ProtocolInv
<1>2. /\ heard' \subseteq [id : Requests, payload : Payloads, answer : Answers]
      /\ \A h \in heard' : h \in heard \/ h.answer = "internal"
  <2>1. CASE UNCHANGED heard
    BY <1>1, <2>1 DEF ProtocolTypeOK
  <2>2. CASE Answer("internal")
    BY <1>1, <2>2, AnswerType DEF Answers
  <2> QED BY <2>1, <2>2
<1>3. ProtocolTypeOK' /\ RowInv' /\ ServerInv'
  BY <1>1, <1>2 DEF ProtocolTypeOK, RowInv, ServerInv, At
<1>4. OkIsItsOwn' /\ IndeterminateNeverCompletes'
  BY <1>1, <1>2 DEF OkIsItsOwn, IndeterminateNeverCompletes
<1> QED BY <1>3, <1>4 DEF ProtocolInv

LEMMA ProtocolStepInv == ProtocolInv /\ [ProtocolNext]_protocolVars => ProtocolInv'
<1> SUFFICES ASSUME ProtocolInv, [ProtocolNext]_protocolVars PROVE ProtocolInv'
  OBVIOUS
<1>1. ASSUME NEW r \in Requests, NEW p \in Payloads, Receive(r, p) PROVE ProtocolInv'
  BY <1>1, ReceiveInv
<1>2. CASE Begin
  BY <1>2, BeginInv
<1>3. CASE Execute
  BY <1>3, ExecuteInv
<1>4. CASE Finish
  <2>1. /\ Own(server.id, server.payload) /\ executed[server.id][server.payload] = 1
        /\ server # Absent
    BY <1>4 DEF Finish, ProtocolInv, ServerInv, At
  <2>2. server.response = "ok"
    BY <1>4 DEF Finish, ProtocolInv, ServerInv
  <2> QED BY <1>4, <2>1, <2>2, CloseInv DEF Finish, Terminal, Answers
<1>5. CASE Refuse
  <2>1. server # Absent /\ server.response \in {"error", "conflict"}
    BY <1>5 DEF Refuse, ProtocolInv, ServerInv, At
  <2> QED BY <1>5, <2>1, CloseInv DEF Refuse, Terminal, Answers
<1>6. CASE InternalError
  BY <1>6, DropInv DEF InternalError, Answer
<1>7. CASE Crash
  BY <1>7, DropInv DEF Crash
<1>8. CASE UNCHANGED protocolVars
  BY <1>8 DEF protocolVars, ProtocolInv, ProtocolTypeOK, RowInv, ServerInv, Own, At, OkIsItsOwn, IndeterminateNeverCompletes
<1> QED BY <1>1, <1>2, <1>3, <1>4, <1>5, <1>6, <1>7, <1>8 DEF ProtocolNext

-----------------------------------------------------------------------------
\* At most one mutation commits under a request_id, once, however often and
\* with whatever arguments it is sent, and wherever the daemon dies.
THEOREM AtMostOnceMutation == ProtocolSpec => []ExecutedOnce
<1>1. ProtocolInv => ExecutedOnce
  <2> SUFFICES ASSUME ProtocolInv, NEW r \in Requests
               PROVE  /\ \A p \in Payloads : executed[r][p] <= 1
                      /\ Cardinality(Ran(r)) <= 1
    BY DEF ExecutedOnce
  <2>1. \A p \in Payloads : executed[r][p] # 0 => executed[r][p] = 1 /\ row[r].payload = p
    BY DEF ProtocolInv, RowInv
  <2>2. \A p \in Payloads : executed[r][p] <= 1
    BY <2>1 DEF ProtocolInv, ProtocolTypeOK
  <2>3. Ran(r) = {} \/ Ran(r) = {row[r].payload}
    BY <2>1 DEF Ran
  <2>4. Cardinality(Ran(r)) \in {0, 1}
    BY <2>3, FS_EmptySet, FS_Singleton
  <2> QED BY <2>2, <2>4
<1> QED BY ProtocolInitInv, ProtocolStepInv, <1>1, PTL DEF ProtocolSpec

\* "ok" is only ever said of the sender's own mutation, which has committed.
THEOREM OkTellsOwn == ProtocolSpec => []OkIsItsOwn
<1>1. ProtocolInv => OkIsItsOwn
  BY DEF ProtocolInv
<1> QED BY ProtocolInitInv, ProtocolStepInv, <1>1, PTL DEF ProtocolSpec

\* A request that a client was told is indeterminate never completes later.
THEOREM IndeterminateForGood == ProtocolSpec => []IndeterminateNeverCompletes
<1>1. ProtocolInv => IndeterminateNeverCompletes
  BY DEF ProtocolInv
<1> QED BY ProtocolInitInv, ProtocolStepInv, <1>1, PTL DEF ProtocolSpec
=============================================================================
