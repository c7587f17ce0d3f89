------------------------ MODULE ResultDelivery_proofs ------------------------
(***************************************************************************)
(* Proofs about ResultDelivery, for any number of requests, any retention  *)
(* and any number of deaths, losses, damages and failing calls.            *)
(***************************************************************************)
EXTENDS ResultDelivery, SequenceTheorems, WellFoundedInduction, TLAPS

-----------------------------------------------------------------------------
(* A listing that is not empty has a first entry. *)
LEMMA PlaceIsNumber == \A r \in Tx : Place(r) \in Nat
<1> TAKE r \in Tx
<1>1. PICK i \in DOMAIN Names : Names[i] = r BY DEF Tx, ToSet
<1>2. Place(r) \in DOMAIN Names BY <1>1 DEF Place
<1>3. DOMAIN Names = 1 .. Len(Names) BY DeliveryAssumption
<1> QED BY <1>2, <1>3, DeliveryAssumption

LEMMA FirstIsIn == ASSUME NEW S \in SUBSET Tx, S # {} PROVE First(S) \in S
<1> DEFINE R == {ss \in Nat \X Nat : ss[1] < ss[2]}
           N == {Place(r) : r \in S}
<1>1. IsWellFoundedOn(R, Nat) BY NatLessThanWellFounded DEF OpToRel
<1>2. N \subseteq Nat /\ N # {} BY PlaceIsNumber
<1>3. PICK n \in N : \A m \in N : ~(<<m, n>> \in R)
  <2> HIDE DEF R, N
  <2> QED BY <1>1, <1>2, WFMin
<1>4. PICK r \in S : n = Place(r) BY <1>3
<1>5. \A q \in S : Place(r) <= Place(q)
  <2> TAKE q \in S
  <2>1. Place(q) \in N /\ Place(q) \in Nat /\ Place(r) \in Nat BY PlaceIsNumber
  <2>2. ~(<<Place(q), Place(r)>> \in R) BY <1>3, <1>4, <2>1
  <2>3. ~(Place(q) < Place(r)) BY <2>1, <2>2
  <2> QED BY <2>1, <2>3
<1> QED BY <1>5 DEF First

-----------------------------------------------------------------------------
(***************************************************************************)
(* The inductive invariant.                                                *)
(***************************************************************************)
Steps == {"down", "idle", "repair", "recover", "execute", "ran", "upload", "mark", "delete"}
Sending == {"upload", "mark", "delete"}
Marks == {"none", "valid", "invalid"}

TypeInv ==
    /\ sent \subseteq Tx /\ inbox \subseteq sent
    /\ remote \in [Tx -> Seq(Nat)] /\ flying \in [Tx -> Seq(Nat)]
    /\ ran \in [Tx -> Nat] /\ local \in [Tx -> [ver : Nat, ok : BOOLEAN]]
    /\ marker \in [Tx -> Marks] /\ fresh \subseteq Kept
    /\ reconciled \in BOOLEAN /\ again \in BOOLEAN /\ pc \in Steps

\* What the watcher works on is in the mailbox.
Control ==
    /\ todo \cup exec \cup bad \subseteq inbox /\ todo \cap exec = {}
    /\ pc \in {"down", "idle"} => todo = {} /\ exec = {}
    /\ pc \notin {"down", "idle"} => reconciled
    /\ pc # "repair" => bad = {}
    /\ pc = "repair" => exec = {}
    /\ again => pc \in Sending /\ todo # {}
    /\ pc \in {"execute", "ran"} \/ (pc \in Sending /\ ~again) => exec # {} /\ todo = {}
    /\ pc = "ran" => ran[First(exec)] # 0
    /\ pc = "upload" => Current \in Kept /\ (~again => local[Current].ok)

\* Nothing is acknowledged or deleted without a result in the mailbox.
Answering ==
    /\ Answered \cup InFlight \subseteq sent
    /\ \A r \in Tx : marker[r] = "valid" => r \in Answered
    /\ pc \in {"mark", "delete"} => Current \in Answered

\* The requests of which a run of the watcher can know all it needs: no write is in
\* flight that it cannot wait for, and no answer was unreadable.
Clean(r) == r \notin unread \cup blind

\* After the reconciliation an answered request of the mailbox has a marker or a local
\* result, or its marker was found invalid and the mailbox is still to be looked at.
Finding ==
    /\ \A r \in todo : marker[r] = "none" \/ (pc = "delete" /\ again /\ r = Current)
    /\ reconciled /\ pc # "down" => \A r \in inbox :
          Clean(r) /\ r \in Answered => marker[r] # "none" \/ r \in Kept \/ r \in bad

\* What is to be executed has no answer, until its own is uploaded.
Executing ==
    \A r \in exec : Clean(r) /\ r \in Answered => r = Current /\ ~again /\ pc \in {"mark", "delete"}

\* The one write in flight is a first upload within its grace period.
Flying ==
    \A r \in Tx : Clean(r) /\ flying[r] # <<>> =>
        r \in fresh /\ local[r].ok /\ r \notin Answered /\ r \notin exec /\ Len(flying[r]) = 1
Repeating == pc = "upload" /\ again => Current \notin fresh /\ (Clean(Current) => Current \notin Answered)

DInv == TypeInv /\ Control /\ Answering /\ Finding /\ Executing /\ Flying /\ Repeating
            /\ DeletedIsAnswered /\ AnswerSurvives

LEMMA CurrentIsIn ==
    ASSUME TypeInv, Control, pc \in Sending
    PROVE  Current \in inbox /\ Current \in Tx /\ Current \in (IF again THEN todo ELSE exec)
<1>1. (IF again THEN todo ELSE exec) \subseteq inbox /\ (IF again THEN todo ELSE exec) # {}
  BY DEF Control
<1>2. inbox \subseteq Tx BY DEF TypeInv
<1> QED BY <1>1, <1>2, FirstIsIn DEF Current

LEMMA InitInv == Init => DInv
<1> SUFFICES ASSUME Init PROVE DInv OBVIOUS
<1>1. <<>> \in Seq(Nat) OBVIOUS
<1>2. Absent \in [ver : Nat, ok : BOOLEAN] BY DEF Absent
<1>3. TypeInv BY <1>1, <1>2 DEF Init, TypeInv, Steps, Marks, Kept
<1>4. Answered = {} /\ InFlight = {} BY DEF Init, Answered, InFlight
<1> QED
  BY <1>3, <1>4 DEF Init, DInv, Control, Answering, Finding, Executing, Flying, Repeating,
     DeletedIsAnswered, AnswerSurvives, Sending
-----------------------------------------------------------------------------
(***************************************************************************)
(* The client, the provider and the faults.                                *)
(***************************************************************************)
LEMMA SequenceStep ==
    ASSUME NEW s \in Seq(Nat), s # <<>>
    PROVE  /\ Head(s) \in Nat /\ Tail(s) \in Seq(Nat)
           /\ Len(s) = 1 => Tail(s) = <<>>
           /\ \A t \in Seq(Nat) : Append(t, Head(s)) \in Seq(Nat) /\ Append(t, Head(s)) # <<>>
<1>1. Head(s) \in Nat /\ Tail(s) \in Seq(Nat) /\ Len(Tail(s)) = Len(s) - 1
  BY HeadTailProperties
<1>2. ASSUME Len(s) = 1 PROVE Tail(s) = <<>>
  <2>1. Tail(s) # <<>> => Len(Tail(s)) \in Nat \ {0}
    <3> DEFINE rest == Tail(s)
    <3>1. rest \in Seq(Nat) BY <1>1
    <3> HIDE DEF rest
    <3>2. rest # <<>> => Len(rest) \in Nat \ {0} BY <3>1, EmptySeq
    <3> QED BY <3>2 DEF rest
  <2>2. Len(Tail(s)) = 0 BY <1>1, <1>2
  <2> QED BY <2>1, <2>2
<1>3. ASSUME NEW t \in Seq(Nat), NEW n \in Nat
      PROVE  Append(t, n) \in Seq(Nat) /\ Append(t, n) # <<>>
  <2> DEFINE u == Append(t, n)
  <2>1. u \in Seq(Nat) /\ Len(u) = Len(t) + 1 /\ Len(t) \in Nat OBVIOUS
  <2> HIDE DEF u
  <2>2. Len(u) # 0 BY <2>1
  <2>3. u # <<>> BY <2>1, <2>2, EmptySeq
  <2> QED BY <2>1, <2>3 DEF u
<1> QED BY <1>1, <1>2, <1>3

LEMMA OutsideInv ==
    ASSUME DInv, NEW r \in Tx, Send(r) \/ Land(r) \/ Vanish(r) \/ GraceEnds(r)
    PROVE  DInv'
<1> USE DEF DInv, mailbox, files, disk, memory, history
<1>1. CASE Send(r)
  <2>1. UNCHANGED <<remote, flying, disk, memory, history, ran>> /\ r \notin sent
        /\ sent' = sent \cup {r} /\ inbox' = inbox \cup {r}
    BY <1>1 DEF Send
  <2>2. r \notin Answered BY <2>1 DEF Answering
  <2>3. TypeInv' BY <2>1 DEF TypeInv, Kept
  <2>4. Control' BY <2>1 DEF Control, Current, Kept
  <2>5. Answering' BY <2>1 DEF Answering, Answered, InFlight, Current
  <2>6. Finding' BY <2>1, <2>2 DEF Finding, Clean, Answered, Kept, Current
  <2>7. Executing' /\ Flying' /\ Repeating'
    BY <2>1 DEF Executing, Flying, Repeating, Clean, Answered, Current
  <2>8. DeletedIsAnswered' /\ AnswerSurvives'
    BY <2>1 DEF DeletedIsAnswered, AnswerSurvives, Answered, Kept
  <2> QED BY <2>3, <2>4, <2>5, <2>6, <2>7, <2>8
<1>2. CASE Land(r)
  <2>1. /\ UNCHANGED <<sent, inbox, disk, memory, history, ran>> /\ flying[r] # <<>>
        /\ remote' = [remote EXCEPT ![r] = Append(remote[r], Head(flying[r]))]
        /\ flying' = [flying EXCEPT ![r] = Tail(flying[r])]
    BY <1>2 DEF Land
  <2>2. /\ Append(remote[r], Head(flying[r])) \in Seq(Nat)
        /\ Append(remote[r], Head(flying[r])) # <<>> /\ Tail(flying[r]) \in Seq(Nat)
        /\ Len(flying[r]) = 1 => Tail(flying[r]) = <<>>
    BY <2>1, SequenceStep DEF TypeInv
  <2>3. remote \in [Tx -> Seq(Nat)] /\ flying \in [Tx -> Seq(Nat)] BY DEF TypeInv
  <2>4. Answered' = Answered \cup {r} /\ InFlight' \subseteq InFlight
    BY <2>1, <2>2, <2>3 DEF Answered, InFlight
  <2>5. TypeInv' BY <2>1, <2>2, <2>3 DEF TypeInv, Kept
  <2>6. Control' BY <2>1 DEF Control, Current, Kept
  <2>7. Answering' BY <2>1, <2>4 DEF Answering, InFlight, Current
  <2>8. Clean(r) => r \in fresh /\ r \notin exec /\ Len(flying[r]) = 1 BY <2>1 DEF Flying
  <2>9. Finding' BY <2>1, <2>4, <2>8 DEF Finding, Clean, Kept, Current, TypeInv
  <2>10. Executing' BY <2>1, <2>4, <2>8 DEF Executing, Clean, Current
  <2>11. Flying'
    <3> SUFFICES ASSUME NEW q \in Tx, Clean(q)', flying'[q] # <<>>
                 PROVE  (q \in fresh /\ local[q].ok /\ q \notin Answered /\ q \notin exec
                            /\ Len(flying[q]) = 1)'
      BY DEF Flying
    <3>1. Clean(q) BY <2>1 DEF Clean
    <3>2. q # r BY <2>1, <2>2, <2>3, <2>8, <3>1
    <3>3. flying'[q] = flying[q] BY <2>1, <2>3, <3>2
    <3> QED BY <2>1, <2>4, <3>1, <3>2, <3>3 DEF Flying
  <2>12. Repeating' BY <2>1, <2>4, <2>8 DEF Repeating, Clean, Current
  <2>13. DeletedIsAnswered' /\ AnswerSurvives'
    BY <2>1, <2>4 DEF DeletedIsAnswered, AnswerSurvives, Kept
  <2> QED BY <2>5, <2>6, <2>7, <2>9, <2>10, <2>11, <2>12, <2>13
<1>3. CASE Vanish(r)
  <2>1. /\ UNCHANGED <<sent, inbox, remote, disk, memory, history, ran>> /\ flying[r] # <<>>
        /\ flying' = [flying EXCEPT ![r] = Tail(flying[r])]
    BY <1>3 DEF Vanish
  <2>2. Tail(flying[r]) \in Seq(Nat) /\ (Len(flying[r]) = 1 => Tail(flying[r]) = <<>>)
    BY <2>1, SequenceStep DEF TypeInv
  <2>3. flying \in [Tx -> Seq(Nat)] BY DEF TypeInv
  <2>4. Answered' = Answered /\ InFlight' \subseteq InFlight
    BY <2>1, <2>2, <2>3 DEF Answered, InFlight
  <2>5. TypeInv' BY <2>1, <2>2, <2>3 DEF TypeInv, Kept
  <2>6. Control' BY <2>1 DEF Control, Current, Kept
  <2>7. Answering' BY <2>1, <2>4 DEF Answering, Current
  <2>8. Finding' /\ Executing' /\ Repeating'
    BY <2>1, <2>4 DEF Finding, Executing, Repeating, Clean, Kept, Current
  <2>9. Flying'
    <3> SUFFICES ASSUME NEW q \in Tx, Clean(q)', flying'[q] # <<>>
                 PROVE  (q \in fresh /\ local[q].ok /\ q \notin Answered /\ q \notin exec
                            /\ Len(flying[q]) = 1)'
      BY DEF Flying
    <3>1. Clean(q) BY <2>1 DEF Clean
    <3>2. q # r BY <2>1, <2>2, <2>3, <3>1 DEF Flying
    <3>3. flying'[q] = flying[q] BY <2>1, <2>3, <3>2
    <3> QED BY <2>1, <2>4, <3>1, <3>2, <3>3 DEF Flying
  <2>10. DeletedIsAnswered' /\ AnswerSurvives'
    BY <2>1, <2>4 DEF DeletedIsAnswered, AnswerSurvives, Kept
  <2> QED BY <2>5, <2>6, <2>7, <2>8, <2>9, <2>10
<1>4. CASE GraceEnds(r)
  <2>1. /\ UNCHANGED <<mailbox, local, marker, memory, history, ran>>
        /\ flying[r] = <<>> /\ fresh' = fresh \ {r}
    BY <1>4 DEF GraceEnds
  <2>2. Answered' = Answered /\ InFlight' = InFlight /\ Kept' = Kept
    BY <2>1 DEF Answered, InFlight, Kept
  <2>3. TypeInv' BY <2>1, <2>2 DEF TypeInv
  <2>4. Control' /\ Answering' BY <2>1, <2>2 DEF Control, Answering, Current
  <2>5. Finding' /\ Executing' /\ Flying' /\ Repeating'
    BY <2>1, <2>2 DEF Finding, Executing, Flying, Repeating, Clean, Current
  <2>6. DeletedIsAnswered' /\ AnswerSurvives'
    BY <2>1, <2>2 DEF DeletedIsAnswered, AnswerSurvives
  <2> QED BY <2>3, <2>4, <2>5, <2>6
<1> QED BY <1>1, <1>2, <1>3, <1>4
\* The watcher dies or gives up its poll: what it was working on is forgotten.
LEMMA ForgetInv ==
    ASSUME DInv, UNCHANGED <<mailbox, disk, reconciled, ran, made, blind>>, Forget,
           pc' \in {"down", "idle"}, unread \subseteq unread',
           pc' = "down" \/ bad \cap Answered \subseteq unread',
           pc' = "idle" => pc # "down"
    PROVE  DInv'
<1> USE DEF DInv, mailbox, files, disk, Forget
<1>1. Answered' = Answered /\ InFlight' = InFlight /\ Kept' = Kept
  BY DEF Answered, InFlight, Kept
<1>2. TypeInv' BY <1>1 DEF TypeInv, Steps
<1>3. Control' BY <1>1 DEF Control, Sending
<1>4. Answering' BY <1>1 DEF Answering
<1>5. Finding' BY <1>1 DEF Finding, Clean
<1>6. Executing' /\ Flying' /\ Repeating' BY <1>1 DEF Executing, Flying, Repeating, Clean
<1>7. DeletedIsAnswered' /\ AnswerSurvives' BY <1>1 DEF DeletedIsAnswered, AnswerSurvives
<1> QED BY <1>2, <1>3, <1>4, <1>5, <1>6, <1>7

LEMMA FaultsInv ==
    ASSUME DInv,
           \/ Crash \/ LoseState \/ Start
           \/ \E r \in Tx : DamageResult(r) \/ DamageMarker(r)
    PROVE  DInv'
<1> USE DEF DInv, mailbox, files, disk, memory, history
<1>1. CASE Crash
  <2>1. /\ UNCHANGED <<mailbox, disk, reconciled, history, ran>> /\ Forget /\ pc' = "down"
    BY <1>1 DEF Crash
  <2> QED BY <2>1, ForgetInv
<1>2. CASE LoseState
  <2>1. /\ UNCHANGED <<mailbox, memory, unread, ran>> /\ pc = "down"
        /\ local' = [r \in Tx |-> Absent] /\ fresh' = {} /\ marker' = [r \in Tx |-> "none"]
        /\ made' = {} /\ blind' = blind \cup InFlight
    BY <1>2 DEF LoseState
  <2>2. Answered' = Answered /\ InFlight' = InFlight BY <2>1 DEF Answered, InFlight
  <2>3. TypeInv' BY <2>1 DEF TypeInv, Marks, Absent, Kept
  <2>4. Control' BY <2>1 DEF Control, Sending
  <2>5. Answering' BY <2>1, <2>2 DEF Answering
  <2>6. Finding' /\ Executing' /\ Repeating'
    BY <2>1 DEF Finding, Executing, Repeating, Control
  <2>7. Flying' BY <2>1 DEF Flying, Clean, InFlight
  <2>8. DeletedIsAnswered' /\ AnswerSurvives'
    BY <2>1, <2>2 DEF DeletedIsAnswered, AnswerSurvives
  <2> QED BY <2>3, <2>4, <2>5, <2>6, <2>7, <2>8
<1>3. CASE Start
  <2>1. /\ UNCHANGED <<mailbox, disk, bad, todo, exec, again, history, ran>>
        /\ pc = "down" /\ pc' = "idle" /\ reconciled' = FALSE
    BY <1>3 DEF Start
  <2>2. Answered' = Answered /\ InFlight' = InFlight /\ Kept' = Kept
    BY <2>1 DEF Answered, InFlight, Kept
  <2>3. TypeInv' BY <2>1, <2>2 DEF TypeInv, Steps
  <2>4. Control' BY <2>1 DEF Control, Sending
  <2>5. Answering' BY <2>1, <2>2 DEF Answering
  <2>6. Finding' /\ Executing' /\ Flying' /\ Repeating'
    BY <2>1, <2>2 DEF Finding, Executing, Flying, Repeating, Clean, Control
  <2>7. DeletedIsAnswered' /\ AnswerSurvives'
    BY <2>1, <2>2 DEF DeletedIsAnswered, AnswerSurvives
  <2> QED BY <2>3, <2>4, <2>5, <2>6, <2>7
<1>4. ASSUME NEW r \in Tx, DamageResult(r) PROVE DInv'
  <2>1. /\ UNCHANGED <<mailbox, fresh, marker, memory, unread, ran>>
        /\ pc \in {"down", "idle"} /\ r \in Kept
        /\ local' = [local EXCEPT ![r].ok = FALSE]
        /\ made' = made \ {r} /\ blind' = blind \cup (InFlight \cap {r})
    BY <1>4 DEF DamageResult
  <2>2. /\ local' \in [Tx -> [ver : Nat, ok : BOOLEAN]]
        /\ \A q \in Tx : local'[q].ver = local[q].ver
        /\ \A q \in Tx \ {r} : local'[q] = local[q]
    BY <2>1 DEF TypeInv
  <2>3. Answered' = Answered /\ InFlight' = InFlight /\ Kept' = Kept
    BY <2>1, <2>2 DEF Answered, InFlight, Kept
  <2>4. TypeInv' BY <2>1, <2>2, <2>3 DEF TypeInv
  <2>5. Control' BY <2>1 DEF Control, Sending
  <2>6. Answering' BY <2>1, <2>3 DEF Answering
  <2>7. Finding' /\ Executing' /\ Repeating'
    BY <2>1, <2>3 DEF Finding, Executing, Repeating, Clean, Control
  <2>8. Flying' BY <2>1, <2>2, <2>3 DEF Flying, Clean, InFlight
  <2>9. DeletedIsAnswered' /\ AnswerSurvives'
    <3>1. made' \subseteq made /\ r \notin made' BY <2>1
    <3>2. \A q \in made' : q \in Answered \/ (q \in Kept /\ local[q].ok)
      BY <3>1 DEF AnswerSurvives
    <3>3. \A q \in Kept : q # r => local'[q] = local[q] BY <2>2 DEF Kept
    <3> QED BY <2>1, <2>3, <3>1, <3>2, <3>3 DEF DeletedIsAnswered, AnswerSurvives
  <2> QED BY <2>4, <2>5, <2>6, <2>7, <2>8, <2>9
<1>5. ASSUME NEW r \in Tx, DamageMarker(r) PROVE DInv'
  <2>1. /\ UNCHANGED <<mailbox, local, fresh, memory, history, ran>>
        /\ pc \in {"down", "idle"} /\ marker' = [marker EXCEPT ![r] = "invalid"]
    BY <1>5 DEF DamageMarker
  <2>2. Answered' = Answered /\ InFlight' = InFlight /\ Kept' = Kept
    BY <2>1 DEF Answered, InFlight, Kept
  <2>3. TypeInv' BY <2>1, <2>2 DEF TypeInv, Marks
  <2>4. Control' BY <2>1 DEF Control, Sending
  <2>5. Answering' BY <2>1, <2>2 DEF Answering, TypeInv
  <2>6. Finding' BY <2>1, <2>2 DEF Finding, Clean, Control, TypeInv
  <2>7. Executing' /\ Flying' /\ Repeating'
    BY <2>1, <2>2 DEF Executing, Flying, Repeating, Clean, Control
  <2>8. DeletedIsAnswered' /\ AnswerSurvives'
    BY <2>1, <2>2 DEF DeletedIsAnswered, AnswerSurvives
  <2> QED BY <2>3, <2>4, <2>5, <2>6, <2>7, <2>8
<1> QED BY <1>1, <1>2, <1>3, <1>4, <1>5

-----------------------------------------------------------------------------
(* The reconciliation, the maintenance and the start of a poll.            *)

\* Pruning drops local results of acknowledged requests, and moves invalid markers away
\* whose results it keeps.
LEMMA Dropped ==
    ASSUME TypeInv, Prune(marker)
    PROVE  /\ local' \in [Tx -> [ver : Nat, ok : BOOLEAN]] /\ marker' \in [Tx -> Marks]
           /\ fresh' \subseteq fresh /\ fresh' \subseteq Kept'
           /\ \A r \in Tx : marker[r] # "valid" =>
                 local'[r] = local[r] /\ (r \in fresh' <=> r \in fresh)
           /\ \A r \in Tx : \/ marker'[r] = marker[r]
                            \/ marker[r] = "invalid" /\ marker'[r] = "none" /\ r \in Kept
<1> DEFINE D == Pruned(marker)
<1>1. D \subseteq Tx /\ \A r \in D : marker[r] = "valid" BY DEF Pruned, Prunable, Kept
<1>2. Passed(marker) \subseteq Kept BY DEF Passed
<1>3. /\ local' = [r \in Tx |-> IF r \in D THEN Absent ELSE local[r]] /\ fresh' = fresh \ D
      /\ marker' = [r \in Tx |-> IF marker[r] = "invalid" /\ r \in Passed(marker) THEN "none"
                                 ELSE marker[r]]
  BY DEF Prune
<1> HIDE DEF D
<1>4. Absent \in [ver : Nat, ok : BOOLEAN] BY DEF Absent
<1>5. local' \in [Tx -> [ver : Nat, ok : BOOLEAN]] /\ marker' \in [Tx -> Marks]
  BY <1>3, <1>4 DEF TypeInv, Marks
<1>6. fresh' \subseteq Kept'
  <2> SUFFICES ASSUME NEW r \in fresh' PROVE r \in Kept' OBVIOUS
  <2>1. r \in Kept /\ r \notin D BY <1>3 DEF TypeInv
  <2> QED BY <1>3, <2>1 DEF Kept
<1>7. \A r \in Tx : \/ marker'[r] = marker[r]
                    \/ marker[r] = "invalid" /\ marker'[r] = "none" /\ r \in Kept
  BY <1>2, <1>3
<1>8. \A r \in Tx : marker[r] # "valid" =>
         local'[r] = local[r] /\ (r \in fresh' <=> r \in fresh)
  BY <1>1, <1>3
<1> QED BY <1>3, <1>5, <1>6, <1>7, <1>8
LEMMA ReconcileInv ==
    ASSUME DInv, Reconcile \/ ReconcileFails
    PROVE  DInv'
<1> USE DEF DInv, mailbox, files, disk, memory, history
<1> DEFINE asked == inbox \cap Unmarked
<1>1. pc = "idle" /\ todo = {} /\ exec = {} /\ bad = {} /\ again = FALSE
  BY DEF Reconcile, ReconcileFails, Control, Sending, TypeInv
<1>2. UNCHANGED <<mailbox, files, pc, bad, todo, exec, again, made, blind, ran>>
  BY DEF Reconcile, ReconcileFails
<1>3. Answered' = Answered /\ InFlight' = InFlight /\ Kept' = Kept
  BY <1>2 DEF Answered, InFlight, Kept
<1>4. /\ marker' \in [Tx -> Marks] /\ reconciled' \in BOOLEAN /\ unread \subseteq unread'
      /\ \A r \in Tx : marker'[r] = "valid" => marker[r] = "valid" \/ r \in Answered
      /\ reconciled' => \A r \in inbox : r \in Answered \ unread' => marker'[r] # "none"
  <2>1. CASE ReconcileFails
    <3>1. marker' = Quarantined(inbox) /\ reconciled' = FALSE /\ unread' = unread
      BY <2>1 DEF ReconcileFails, TypeInv
    <3> QED BY <3>1 DEF Quarantined, TypeInv, Marks
  <2>2. CASE Reconcile /\ asked = {}
    <3>1. marker' = marker /\ reconciled' = TRUE /\ unread' = unread
      BY <2>2 DEF Reconcile
    <3>2. \A r \in inbox : marker[r] = "valid" BY <2>2 DEF Unmarked, TypeInv
    <3> QED BY <3>1, <3>2 DEF TypeInv
  <2>3. CASE Reconcile /\ asked # {}
    <3>1. PICK Missed \in SUBSET (asked \cap Answered) :
            /\ reconciled' = TRUE /\ unread' = unread \cup Missed
            /\ marker' = Marked((asked \cap Answered) \ Missed, Quarantined(inbox))
      BY <2>3 DEF Reconcile
    <3>2. \A r \in Tx : marker'[r] = IF r \in (asked \cap Answered) \ Missed THEN "valid"
                                     ELSE IF r \in inbox /\ marker[r] = "invalid" THEN "none"
                                     ELSE marker[r]
      BY <3>1 DEF Marked, Quarantined
    <3>3. marker' \in [Tx -> Marks]
      BY <3>1 DEF Marked, Quarantined, TypeInv, Marks
    <3>4. \A r \in inbox : r \in Answered \ unread' => marker'[r] # "none"
      <4> TAKE r \in inbox
      <4> HAVE r \in Answered \ unread'
      <4>1. r \in Tx BY DEF TypeInv
      <4>2. CASE marker[r] = "valid" BY <3>2, <4>1, <4>2
      <4>3. CASE marker[r] # "valid"
        <5>1. r \in (asked \cap Answered) \ Missed BY <3>1, <4>1, <4>3 DEF Unmarked
        <5> QED BY <3>2, <4>1, <5>1
      <4> QED BY <4>2, <4>3
    <3> QED BY <3>1, <3>2, <3>3, <3>4
  <2> QED BY <2>1, <2>2, <2>3
<1> HIDE DEF asked
<1>5. TypeInv' BY <1>2, <1>3, <1>4 DEF TypeInv
<1>6. Control' BY <1>1, <1>2 DEF Control, Sending
<1>7. Answering' BY <1>1, <1>2, <1>3, <1>4 DEF Answering
<1>8. Finding' BY <1>1, <1>2, <1>3, <1>4 DEF Finding, Clean
<1>9. Executing' /\ Flying' /\ Repeating'
  BY <1>1, <1>2, <1>3, <1>4 DEF Executing, Flying, Repeating, Clean
<1>10. DeletedIsAnswered' /\ AnswerSurvives'
  BY <1>2, <1>3 DEF DeletedIsAnswered, AnswerSurvives
<1> QED BY <1>5, <1>6, <1>7, <1>8, <1>9, <1>10

LEMMA MaintainInv == ASSUME DInv, Maintain PROVE DInv'
<1> USE DEF DInv, mailbox, files, disk, memory, history
<1>1. /\ pc = "idle" /\ todo = {} /\ exec = {} /\ bad = {} /\ again = FALSE
      /\ UNCHANGED <<sent, remote, flying, memory, history, ran>>
      /\ inbox # {} /\ inbox \cap Unmarked = {} /\ inbox' \subseteq inbox
      /\ inbox' = inbox \/ inbox' = inbox \ {First(inbox)}
      /\ Prune(marker)
  BY DEF Maintain, Control, Sending, TypeInv
<1>2. \A r \in inbox : marker[r] = "valid" BY <1>1 DEF Unmarked, TypeInv
<1>3. First(inbox) \in inbox BY <1>1, FirstIsIn DEF TypeInv
<1>4. Answered' = Answered /\ InFlight' = InFlight BY <1>1 DEF Answered, InFlight
<1>5. /\ local' \in [Tx -> [ver : Nat, ok : BOOLEAN]] /\ marker' \in [Tx -> Marks]
      /\ fresh' \subseteq fresh /\ fresh' \subseteq Kept'
      /\ \A r \in Tx : marker[r] # "valid" =>
            local'[r] = local[r] /\ (r \in fresh' <=> r \in fresh)
      /\ \A r \in Tx : \/ marker'[r] = marker[r]
                       \/ marker[r] = "invalid" /\ marker'[r] = "none" /\ r \in Kept
  BY <1>1, Dropped
<1>6. TypeInv' BY <1>1, <1>5 DEF TypeInv
<1>7. Control' BY <1>1 DEF Control, Sending
<1>8. Answering' BY <1>1, <1>4, <1>5 DEF Answering
<1>9. Finding' /\ Executing' /\ Repeating'
  BY <1>1, <1>2, <1>4, <1>5 DEF Finding, Executing, Repeating, Clean, TypeInv
<1>10. Flying' BY <1>1, <1>4, <1>5 DEF Flying, Clean, Answering
<1>11. DeletedIsAnswered'
  BY <1>1, <1>2, <1>3, <1>4 DEF DeletedIsAnswered, Answering, TypeInv
<1>12. AnswerSurvives' BY <1>1, <1>4, <1>5 DEF AnswerSurvives, Answering, Kept
<1> QED BY <1>6, <1>7, <1>8, <1>9, <1>10, <1>11, <1>12

LEMMA PollInv ==
    ASSUME DInv, Classify \/ Repair \/ RepairFails
    PROVE  DInv'
<1> USE DEF DInv, mailbox, files, disk, memory, history
<1>1. CASE Classify
  <2>1. /\ UNCHANGED <<mailbox, files, reconciled, exec, again, history, ran>>
        /\ pc = "idle" /\ reconciled /\ exec = {} /\ again = FALSE
        /\ bad' = {r \in inbox : marker[r] = "invalid"} /\ todo' = inbox \cap Unmarked
        /\ marker' = Quarantined(inbox) /\ pc' = IF bad' = {} THEN "recover" ELSE "repair"
    BY <1>1 DEF Classify, Control, Sending, TypeInv
  <2>2. Answered' = Answered /\ InFlight' = InFlight /\ Kept' = Kept
    BY <2>1 DEF Answered, InFlight, Kept
  <2>3. /\ marker' \in [Tx -> Marks]
        /\ \A r \in Tx : marker'[r] = IF r \in inbox /\ marker[r] = "invalid" THEN "none"
                                      ELSE marker[r]
    BY <2>1 DEF Quarantined, TypeInv, Marks
  <2>4. TypeInv' BY <2>1, <2>2, <2>3 DEF TypeInv, Steps
  <2>5. Control' BY <2>1 DEF Control, Sending
  <2>6. Answering' BY <2>1, <2>2, <2>3 DEF Answering
  <2>7. \A r \in todo' : marker'[r] = "none" BY <2>1, <2>3 DEF Unmarked, TypeInv, Marks
  <2>8. \A r \in inbox' : Clean(r)' /\ r \in Answered' =>
           marker'[r] # "none" \/ r \in Kept' \/ r \in bad'
    BY <2>1, <2>2, <2>3 DEF Finding, Clean, TypeInv, Control
  <2>9. Finding' BY <2>7, <2>8 DEF Finding
  <2>10. Executing' /\ Flying' /\ Repeating'
    BY <2>1, <2>2 DEF Executing, Flying, Repeating, Clean
  <2>11. DeletedIsAnswered' /\ AnswerSurvives'
    BY <2>1, <2>2 DEF DeletedIsAnswered, AnswerSurvives
  <2> QED BY <2>4, <2>5, <2>6, <2>9, <2>10, <2>11
<1>2. CASE Repair
  <2>1. PICK Missed \in SUBSET (bad \cap Answered) :
          /\ marker' = Marked((bad \cap Answered) \ Missed, marker)
          /\ unread' = unread \cup Missed
          /\ todo' = todo \ ((bad \cap Answered) \ Missed)
    BY <1>2 DEF Repair
  <2>2. /\ UNCHANGED <<mailbox, files, reconciled, exec, again, made, blind, ran>>
        /\ pc = "repair" /\ pc' = "recover" /\ bad' = {} /\ exec = {} /\ again = FALSE
    BY <1>2 DEF Repair, Control, Sending, TypeInv
  <2>3. Answered' = Answered /\ InFlight' = InFlight /\ Kept' = Kept
    BY <2>2 DEF Answered, InFlight, Kept
  <2>4. /\ marker' \in [Tx -> Marks]
        /\ \A r \in Tx : marker'[r] = IF r \in (bad \cap Answered) \ Missed THEN "valid"
                                      ELSE marker[r]
    BY <2>1 DEF Marked, TypeInv, Marks
  <2>5. TypeInv' BY <2>2, <2>3, <2>4 DEF TypeInv, Steps
  <2>6. Control' BY <2>1, <2>2 DEF Control, Sending
  <2>7. Answering' BY <2>2, <2>3, <2>4 DEF Answering
  <2>8. \A r \in todo' : marker'[r] = "none"
    BY <2>1, <2>2, <2>4 DEF Finding, Control, TypeInv
  <2>9. \A r \in inbox' : Clean(r)' /\ r \in Answered' => marker'[r] # "none" \/ r \in Kept'
    <3> SUFFICES ASSUME NEW r \in inbox, r \notin unread' \cup blind, r \in Answered
                 PROVE  marker'[r] # "none" \/ r \in Kept
      BY <2>2, <2>3 DEF Clean
    <3>1. r \in Tx BY DEF TypeInv
    <3>2. marker[r] # "none" \/ r \in Kept \/ r \in bad
      BY <2>1, <2>2 DEF Finding, Clean, Control
    <3>3. CASE r \in bad BY <2>1, <2>4, <3>1, <3>3
    <3> QED BY <2>4, <3>1, <3>2, <3>3
  <2>10. Finding' BY <2>8, <2>9 DEF Finding
  <2>11. Executing' /\ Flying' /\ Repeating'
    BY <2>1, <2>2, <2>3 DEF Executing, Flying, Repeating, Clean
  <2>12. DeletedIsAnswered' /\ AnswerSurvives'
    BY <2>2, <2>3 DEF DeletedIsAnswered, AnswerSurvives
  <2> QED BY <2>5, <2>6, <2>7, <2>10, <2>11, <2>12
<1>3. CASE RepairFails
  <2>1. /\ UNCHANGED <<mailbox, disk, reconciled, made, blind, ran>> /\ Forget
        /\ pc = "repair" /\ pc' = "idle" /\ unread' = unread \cup (bad \cap Answered)
    BY <1>3 DEF RepairFails, Abort
  <2> QED BY <2>1, ForgetInv
<1> QED BY <1>1, <1>2, <1>3

-----------------------------------------------------------------------------
(* Recovery: what the watcher finds of an earlier run.                     *)

LEMMA RecoverInv ==
    ASSUME DInv, NEW r \in Tx,
           \/ NoCopy(r) \/ RecoverFails(r) \/ Acknowledge(r) \/ Quarantine(r)
           \/ WaitGrace(r) \/ Republish(r)
    PROVE  DInv'
<1> USE DEF DInv, mailbox, files, disk, memory, history
<1>1. AtHead(r)
  BY DEF NoCopy, RecoverFails, Acknowledge, Quarantine, WaitGrace, Republish, Usable
<1>2. pc = "recover" /\ todo # {} /\ r = First(todo) /\ bad = {} /\ again = FALSE /\ reconciled
  BY <1>1 DEF AtHead, Control, Sending, TypeInv
<1>3. r \in todo /\ r \in inbox BY <1>2, FirstIsIn DEF Control, TypeInv
<1>4. /\ marker[r] = "none" /\ r \notin exec
      /\ \A q \in exec : Clean(q) => q \notin Answered
  BY <1>2, <1>3 DEF Finding, Executing, Control
<1>5. ASSUME RecoverFails(r) PROVE DInv'
  <2>1. UNCHANGED <<mailbox, disk, reconciled, history, ran>> /\ Forget /\ pc' = "idle"
    BY <1>5 DEF RecoverFails, Abort
  <2> QED BY <1>2, <2>1, ForgetInv
<1>6. ASSUME Quarantine(r) PROVE DInv'
  <2>1. /\ UNCHANGED <<mailbox, marker, reconciled, pc, bad, again, history, ran>>
        /\ local' = [local EXCEPT ![r] = Absent] /\ fresh' = fresh \ {r}
        /\ exec' = exec \cup {r} /\ todo' = todo \ {r}
        /\ r \notin Answered /\ ~local[r].ok
    BY <1>6 DEF Quarantine, Usable
  <2>2. Answered' = Answered /\ InFlight' = InFlight BY <2>1 DEF Answered, InFlight
  <2>3. /\ local' \in [Tx -> [ver : Nat, ok : BOOLEAN]] /\ Kept' = Kept \ {r}
        /\ \A q \in Tx : q # r => local'[q] = local[q]
    <3>1. Absent \in [ver : Nat, ok : BOOLEAN] /\ Absent.ver = 0 BY DEF Absent
    <3>2. \A q \in Tx : local'[q] = IF q = r THEN Absent ELSE local[q]
      BY <2>1 DEF TypeInv
    <3> QED BY <2>1, <3>1, <3>2 DEF TypeInv, Kept
  <2>4. TypeInv' BY <2>1, <2>3 DEF TypeInv
  <2>5. Control' BY <1>2, <1>3, <2>1 DEF Control, Sending
  <2>6. Answering' BY <1>2, <2>1, <2>2 DEF Answering
  <2>7. Finding' BY <1>2, <1>3, <2>1, <2>2, <2>3 DEF Finding, Clean
  <2>8. Executing' BY <1>4, <2>1, <2>2 DEF Executing, Clean
  <2>9. Flying' BY <2>1, <2>2, <2>3 DEF Flying, Clean
  <2>10. Repeating' BY <1>2, <2>1 DEF Repeating
  <2>11. DeletedIsAnswered' BY <2>1, <2>2 DEF DeletedIsAnswered
  <2>12. AnswerSurvives' BY <2>1, <2>2, <2>3 DEF AnswerSurvives, Kept
  <2> QED BY <2>4, <2>5, <2>6, <2>7, <2>8, <2>9, <2>10, <2>11, <2>12
<1>7. ASSUME NoCopy(r) \/ Acknowledge(r) \/ WaitGrace(r) \/ Republish(r) PROVE DInv'
  <2>1. UNCHANGED <<mailbox, disk, reconciled, bad, history, ran>>
    BY <1>7 DEF NoCopy, Acknowledge, WaitGrace, Republish
  <2>2. \/ /\ exec' = exec \cup {r} /\ todo' = todo \ {r} /\ UNCHANGED <<pc, again>>
           /\ r \notin Kept
        \/ exec' = exec /\ todo' = todo \ {r} /\ UNCHANGED <<pc, again>>
        \/ /\ exec' = exec /\ todo' = todo /\ again' = TRUE
           /\ \/ pc' = "mark" /\ r \in Answered
              \/ pc' = "upload" /\ r \in Kept /\ r \notin fresh \cup Answered
    BY <1>7 DEF NoCopy, Acknowledge, WaitGrace, Republish, Usable
  <2>3. Answered' = Answered /\ InFlight' = InFlight /\ Kept' = Kept
    BY <2>1 DEF Answered, InFlight, Kept
  <2>4. again' => Current' = r BY <1>2, <2>2 DEF Current
  <2>5. TypeInv' BY <1>2, <2>1, <2>2, <2>3 DEF TypeInv, Steps
  <2>6. Control' BY <1>2, <1>3, <2>1, <2>2, <2>3, <2>4 DEF Control, Sending
  <2>7. Answering' BY <1>2, <2>1, <2>2, <2>3, <2>4 DEF Answering
  <2>8. Finding' BY <1>2, <2>1, <2>2, <2>3 DEF Finding, Clean
  <2>9. Clean(r) /\ r \in Answered => r \in Kept BY <1>2, <1>3, <1>4 DEF Finding
  <2>10. Executing' BY <1>4, <2>1, <2>2, <2>3, <2>9 DEF Executing, Clean
  <2>11. Flying' BY <2>1, <2>2, <2>3 DEF Flying, Clean, TypeInv
  <2>12. Repeating' BY <1>2, <2>1, <2>2, <2>3, <2>4 DEF Repeating, Clean
  <2>13. DeletedIsAnswered' /\ AnswerSurvives'
    BY <2>1, <2>3 DEF DeletedIsAnswered, AnswerSurvives
  <2> QED BY <2>5, <2>6, <2>7, <2>8, <2>10, <2>11, <2>12, <2>13
<1> QED BY <1>5, <1>6, <1>7
-----------------------------------------------------------------------------
(* Execution, and the order of effects that follows it.                    *)

LEMMA ExecuteInv ==
    ASSUME DInv, Recovered \/ SkipDownload \/ Run \/ Persist \/ PersistFails
    PROVE  DInv'
<1> USE DEF DInv, mailbox, files, disk, memory, history
<1>1. CASE PersistFails
  <2>1. /\ UNCHANGED <<mailbox, disk, reconciled, history, ran>> /\ Forget
        /\ pc = "ran" /\ pc' = "idle" /\ bad = {}
    BY <1>1 DEF PersistFails, Abort, Control
  <2> QED BY <2>1, ForgetInv
<1>2. CASE Recovered \/ SkipDownload
  <2>1. /\ UNCHANGED <<mailbox, disk, reconciled, bad, todo, again, history, ran>>
        /\ pc \in {"recover", "execute"} /\ pc' = (IF exec' = {} THEN "idle" ELSE "execute")
        /\ exec' \subseteq exec /\ todo = {} /\ again = FALSE
    BY <1>2 DEF Recovered, SkipDownload, Control, Sending, TypeInv
  <2>2. Answered' = Answered /\ InFlight' = InFlight /\ Kept' = Kept
    BY <2>1 DEF Answered, InFlight, Kept
  <2>3. TypeInv' BY <2>1, <2>2 DEF TypeInv, Steps
  <2>4. Control' BY <2>1 DEF Control, Sending
  <2>5. Answering' BY <2>1, <2>2 DEF Answering
  <2>6. Finding' BY <2>1, <2>2 DEF Finding, Clean
  <2>7. Executing' BY <2>1, <2>2 DEF Executing, Clean
  <2>8. Flying' /\ Repeating' BY <2>1, <2>2 DEF Flying, Repeating, Clean
  <2>9. DeletedIsAnswered' /\ AnswerSurvives'
    BY <2>1, <2>2 DEF DeletedIsAnswered, AnswerSurvives
  <2> QED BY <2>3, <2>4, <2>5, <2>6, <2>7, <2>8, <2>9
<1>3. ASSUME Run \/ Persist PROVE First(exec) \in exec /\ First(exec) \in inbox /\ First(exec) \in Tx
  BY <1>3, FirstIsIn DEF Run, Persist, Control, TypeInv
<1>4. CASE Run
  <2>1. /\ UNCHANGED <<mailbox, disk, reconciled, bad, todo, exec, again, history>>
        /\ pc = "execute" /\ pc' = "ran" /\ todo = {} /\ again = FALSE
        /\ ran' = [ran EXCEPT ![First(exec)] = ran[First(exec)] + 1]
    BY <1>4 DEF Run, Control, Sending, TypeInv
  <2>2. Answered' = Answered /\ InFlight' = InFlight /\ Kept' = Kept
    BY <2>1 DEF Answered, InFlight, Kept
  <2>3. ran' \in [Tx -> Nat] /\ ran'[First(exec)] # 0 BY <1>3, <1>4, <2>1 DEF TypeInv
  <2>4. TypeInv' BY <2>1, <2>2, <2>3 DEF TypeInv, Steps
  <2>5. Control' BY <2>1, <2>3 DEF Control, Sending
  <2>6. Answering' BY <2>1, <2>2 DEF Answering
  <2>7. Finding' BY <2>1, <2>2 DEF Finding, Clean
  <2>8. Executing' BY <2>1, <2>2 DEF Executing, Clean
  <2>9. Flying' /\ Repeating' BY <2>1, <2>2 DEF Flying, Repeating, Clean
  <2>10. DeletedIsAnswered' /\ AnswerSurvives'
    BY <2>1, <2>2 DEF DeletedIsAnswered, AnswerSurvives
  <2> QED BY <2>4, <2>5, <2>6, <2>7, <2>8, <2>9, <2>10
<1>5. CASE Persist
  <2> DEFINE r == First(exec)
  <2>1. /\ UNCHANGED <<mailbox, marker, reconciled, bad, todo, exec, blind, unread, ran>>
        /\ pc = "ran" /\ pc' = "upload" /\ again' = FALSE /\ todo = {} /\ exec # {}
        /\ local' = [local EXCEPT ![r] = [ver |-> ran[r], ok |-> TRUE]]
        /\ fresh' = fresh \cup {r} /\ made' = made \cup {r}
        /\ ran[r] # 0
    BY <1>5 DEF Persist, Control
  <2>2. Current' = r BY <2>1 DEF Current
  <2>3. r \in exec /\ r \in inbox /\ r \in Tx BY <1>3, <1>5
  <2> HIDE DEF r
  <2>4. /\ local' \in [Tx -> [ver : Nat, ok : BOOLEAN]] /\ local'[r].ver # 0 /\ local'[r].ok
        /\ \A q \in Tx : q # r => local'[q] = local[q]
    BY <2>1, <2>3 DEF TypeInv
  <2>5. Answered' = Answered /\ InFlight' = InFlight /\ Kept' = Kept \cup {r}
    BY <2>1, <2>3, <2>4 DEF Answered, InFlight, Kept
  <2>6. TypeInv' BY <2>1, <2>4, <2>5 DEF TypeInv, Steps
  <2>7. Control' BY <2>1, <2>2, <2>4, <2>5 DEF Control, Sending
  <2>8. Answering' BY <2>1, <2>5 DEF Answering
  <2>9. Finding' BY <2>1, <2>5 DEF Finding, Clean
  <2>10. Executing' BY <2>1, <2>5 DEF Executing, Clean
  <2>11. Flying' BY <2>1, <2>3, <2>4, <2>5 DEF Flying, Clean
  <2>12. Repeating' BY <2>1 DEF Repeating
  <2>13. DeletedIsAnswered' BY <2>1, <2>5 DEF DeletedIsAnswered
  <2>14. AnswerSurvives' BY <2>1, <2>3, <2>4, <2>5 DEF AnswerSurvives, Kept
  <2> QED BY <2>6, <2>7, <2>8, <2>9, <2>10, <2>11, <2>12, <2>13, <2>14
<1> QED BY <1>1, <1>2, <1>4, <1>5

\* copyto leaves a result of the request in the mailbox, and touches no other.
LEMMA Placed ==
    ASSUME TypeInv, Control, Upload
    PROVE  /\ remote' \in [Tx -> Seq(Nat)] /\ Answered' = Answered \cup {Current}
           /\ \A q \in Tx : q # Current => remote'[q] = remote[q]
<1> DEFINE c == Current
           v == local[c].ver
           s == remote[c]
<1>1. pc = "upload" BY DEF Upload
<1>2. c \in Tx BY <1>1, CurrentIsIn DEF Sending
<1>3. s \in Seq(Nat) /\ v \in Nat BY <1>2 DEF TypeInv
<1>4. remote' = [remote EXCEPT ![c] = IF s = <<>> THEN <<v>> ELSE [s EXCEPT ![1] = v]]
  BY DEF Upload
<1> HIDE DEF c, s, v
<1>5. <<v>> \in Seq(Nat) /\ <<v>> # <<>> BY <1>3
<1>6. ASSUME s # <<>> PROVE [s EXCEPT ![1] = v] \in Seq(Nat) /\ [s EXCEPT ![1] = v] # <<>>
  <2>1. Len(s) \in Nat /\ Len(s) # 0 BY <1>3, <1>6, EmptySeq
  <2>2. 1 \in 1 .. Len(s) BY <2>1
  <2>3. [s EXCEPT ![1] = v] \in Seq(Nat) /\ Len([s EXCEPT ![1] = v]) = Len(s)
    BY <1>3, <2>2, ExceptSeq
  <2> QED BY <2>1, <2>3
<1>7. remote' \in [Tx -> Seq(Nat)] /\ remote'[c] # <<>>
      /\ \A q \in Tx : q # c => remote'[q] = remote[q]
  BY <1>2, <1>4, <1>5, <1>6 DEF TypeInv
<1>8. Answered' = Answered \cup {c} BY <1>2, <1>7 DEF Answered
<1> QED BY <1>7, <1>8 DEF c

LEMMA UploadInv ==
    ASSUME DInv, Upload \/ UploadFails \/ UploadAmbiguous
    PROVE  DInv'
<1> USE DEF DInv, mailbox, files, disk, memory, history
<1>1. pc = "upload" /\ bad = {} BY DEF Upload, UploadFails, UploadAmbiguous, Control
<1>2. /\ Current \in inbox /\ Current \in Tx /\ Current \in Kept
      /\ IF again THEN Current \in todo /\ Current \notin exec ELSE Current \in exec
  BY <1>1, CurrentIsIn DEF Control, Sending
<1>3. CASE UploadFails
  <2>1. /\ UNCHANGED <<mailbox, disk, reconciled, history, ran>> /\ Forget /\ pc' = "idle"
    BY <1>3 DEF UploadFails, Abort
  <2> QED BY <1>1, <2>1, ForgetInv
<1>4. CASE Upload
  <2>1. /\ UNCHANGED <<sent, inbox, flying, disk, reconciled, bad, todo, exec, again, history, ran>>
        /\ pc' = "mark"
    BY <1>4 DEF Upload
  <2>2. Current' = Current /\ Kept' = Kept /\ InFlight' = InFlight
    BY <2>1 DEF Current, Kept, InFlight
  <2>3. remote' \in [Tx -> Seq(Nat)] /\ Answered' = Answered \cup {Current}
    BY <1>4, Placed
  <2>4. TypeInv' BY <2>1, <2>2, <2>3 DEF TypeInv, Steps
  <2>5. Control' BY <1>1, <2>1 DEF Control, Sending
  <2>6. Answering' BY <1>2, <2>1, <2>2, <2>3 DEF Answering, TypeInv
  <2>7. Finding' BY <1>1, <1>2, <2>1, <2>2, <2>3 DEF Finding, Clean
  <2>8. Executing' BY <1>1, <1>2, <2>1, <2>2, <2>3 DEF Executing, Clean
  <2>9. Clean(Current) => flying[Current] = <<>>
    BY <1>1, <1>2 DEF Flying, Repeating
  <2>10. Flying' BY <2>1, <2>3, <2>9 DEF Flying, Clean
  <2>11. Repeating' BY <2>1 DEF Repeating
  <2>12. DeletedIsAnswered' /\ AnswerSurvives'
    BY <2>1, <2>2, <2>3 DEF DeletedIsAnswered, AnswerSurvives
  <2> QED BY <2>4, <2>5, <2>6, <2>7, <2>8, <2>10, <2>11, <2>12
<1>5. CASE UploadAmbiguous
  <2> DEFINE c == Current
             v == local[c].ver
  <2>1. /\ UNCHANGED <<sent, inbox, remote, disk, reconciled, made, unread, ran>>
        /\ Forget /\ pc' = "idle"
        /\ flying' = [flying EXCEPT ![c] = Append(flying[c], v)]
        /\ blind' = IF c \in fresh THEN blind ELSE blind \cup {c}
    BY <1>5 DEF UploadAmbiguous, Abort
  <2>2. c \in Tx /\ c \in inbox /\ flying[c] \in Seq(Nat) /\ v \in Nat
    BY <1>2 DEF TypeInv
  <2>3. c \in fresh => ~again /\ c \in exec /\ local[c].ok
    BY <1>1, <1>2 DEF Repeating, Control
  <2>4. c \in fresh /\ Clean(c) => flying[c] = <<>> /\ c \notin Answered
    BY <1>1, <2>2, <2>3 DEF Flying, Executing
  <2> HIDE DEF c, v
  <2>5. /\ Append(flying[c], v) \in Seq(Nat)
        /\ flying[c] = <<>> => Len(Append(flying[c], v)) = 1
    <3>1. Append(flying[c], v) \in Seq(Nat) /\ Len(Append(flying[c], v)) = Len(flying[c]) + 1
      BY <2>2, AppendProperties
    <3>2. flying[c] = <<>> => Len(flying[c]) = 0 OBVIOUS
    <3> QED BY <3>1, <3>2
  <2>6. /\ flying' \in [Tx -> Seq(Nat)] /\ flying'[c] = Append(flying[c], v)
        /\ \A q \in Tx : q # c => flying'[q] = flying[q]
    BY <2>1, <2>2, <2>5 DEF TypeInv
  <2>7. Answered' = Answered /\ Kept' = Kept /\ InFlight' \subseteq InFlight \cup {c}
    BY <2>1, <2>6 DEF Answered, Kept, InFlight
  <2>8. \A q \in Tx : Clean(q)' => Clean(q) /\ (q = c => c \in fresh)
    BY <2>1 DEF Clean
  <2>9. TypeInv' BY <2>1, <2>6, <2>7 DEF TypeInv, Steps, Forget
  <2>10. Control' BY <1>1, <2>1 DEF Control, Forget, Sending
  <2>11. Answering' BY <2>1, <2>2, <2>7 DEF Answering, TypeInv
  <2>12. \A q \in inbox : q \in Tx BY DEF TypeInv
  <2>13. Finding' BY <1>1, <2>1, <2>7, <2>8, <2>12 DEF Finding, Forget
  <2>14. Executing' /\ Repeating' BY <2>1 DEF Executing, Repeating, Forget
  <2>15. Flying'
    <3> SUFFICES ASSUME NEW q \in Tx, Clean(q)', flying'[q] # <<>>
                 PROVE  (q \in fresh /\ local[q].ok /\ q \notin Answered /\ q \notin exec
                            /\ Len(flying[q]) = 1)'
      BY DEF Flying
    <3>1. Clean(q) /\ (q = c => c \in fresh) BY <2>8
    <3>2. CASE q = c BY <2>1, <2>3, <2>4, <2>5, <2>6, <2>7, <3>1, <3>2 DEF Forget
    <3>3. CASE q # c
      <4>1. flying'[q] = flying[q] BY <2>6, <3>3
      <4> QED BY <2>1, <2>7, <3>1, <4>1 DEF Flying, Forget
    <3> QED BY <3>2, <3>3
  <2>16. DeletedIsAnswered' /\ AnswerSurvives'
    BY <2>1, <2>7 DEF DeletedIsAnswered, AnswerSurvives
  <2> QED BY <2>9, <2>10, <2>11, <2>13, <2>14, <2>15, <2>16
<1> QED BY <1>3, <1>4, <1>5

LEMMA RetireInv == ASSUME DInv, Mark \/ Delete PROVE DInv'
<1> USE DEF DInv, mailbox, files, disk, memory, history
<1>1. pc \in {"mark", "delete"} /\ bad = {} /\ reconciled BY DEF Mark, Delete, Control
<1>2. /\ Current \in inbox /\ Current \in Tx /\ Current \in Answered
      /\ IF again THEN Current \in todo /\ Current \notin exec ELSE Current \in exec /\ todo = {}
  BY <1>1, CurrentIsIn DEF Control, Sending, Answering
<1>3. CASE Mark
  <2>1. /\ UNCHANGED <<mailbox, files, reconciled, bad, todo, exec, again, history, ran>>
        /\ pc = "mark" /\ pc' = "delete" /\ marker' = [marker EXCEPT ![Current] = "valid"]
    BY <1>3 DEF Mark
  <2>2. Answered' = Answered /\ InFlight' = InFlight /\ Kept' = Kept /\ Current' = Current
    BY <2>1 DEF Answered, InFlight, Kept, Current
  <2>3. /\ marker' \in [Tx -> Marks] /\ marker'[Current] = "valid"
        /\ \A q \in Tx : q # Current => marker'[q] = marker[q]
    BY <1>2, <2>1 DEF TypeInv, Marks
  <2>4. TypeInv' BY <2>1, <2>2, <2>3 DEF TypeInv, Steps
  <2>5. Control' BY <2>1 DEF Control, Sending
  <2>6. Answering' BY <1>2, <2>1, <2>2, <2>3 DEF Answering
  <2>7. \A q \in todo : q # Current => marker'[q] = "none"
    BY <2>1, <2>3 DEF Finding, Control, TypeInv
  <2>8. \A q \in todo : q = Current => again BY <1>2
  <2>9. \A q \in inbox : Clean(q) /\ q \in Answered => marker'[q] # "none" \/ q \in Kept
    <3> SUFFICES ASSUME NEW q \in inbox, Clean(q), q \in Answered
                 PROVE  marker'[q] # "none" \/ q \in Kept
      OBVIOUS
    <3>1. q \in Tx BY DEF TypeInv
    <3>2. marker[q] # "none" \/ q \in Kept BY <1>1, <2>1 DEF Finding
    <3> QED BY <2>3, <3>1, <3>2
  <2>10. Finding' BY <2>1, <2>2, <2>7, <2>8, <2>9 DEF Finding, Clean
  <2>11. Executing' /\ Flying' /\ Repeating'
    BY <2>1, <2>2 DEF Executing, Flying, Repeating, Clean
  <2>12. DeletedIsAnswered' /\ AnswerSurvives'
    BY <2>1, <2>2 DEF DeletedIsAnswered, AnswerSurvives
  <2> QED BY <2>4, <2>5, <2>6, <2>10, <2>11, <2>12
<1>4. CASE Delete
  <2>1. /\ UNCHANGED <<sent, remote, flying, reconciled, bad, history, ran>>
        /\ pc = "delete" /\ again' = FALSE /\ Prune(marker)
        /\ inbox' \subseteq inbox /\ inbox \ {Current} \subseteq inbox'
        /\ IF again THEN todo' = todo \ {Current} /\ pc' = "recover" /\ exec' = exec
           ELSE /\ exec' = exec \ {Current} /\ pc' = (IF exec' = {} THEN "idle" ELSE "execute")
                /\ todo' = todo
    BY <1>4 DEF Delete
  <2>2. Answered' = Answered /\ InFlight' = InFlight BY <2>1 DEF Answered, InFlight
  <2>3. /\ local' \in [Tx -> [ver : Nat, ok : BOOLEAN]] /\ marker' \in [Tx -> Marks]
        /\ fresh' \subseteq fresh /\ fresh' \subseteq Kept'
        /\ \A r \in Tx : marker[r] # "valid" =>
              local'[r] = local[r] /\ (r \in fresh' <=> r \in fresh)
        /\ \A r \in Tx : \/ marker'[r] = marker[r]
                         \/ marker[r] = "invalid" /\ marker'[r] = "none" /\ r \in Kept
    BY <2>1, Dropped
  <2>4. TypeInv' BY <2>1, <2>3 DEF TypeInv, Steps
  <2>5. Control' BY <1>1, <1>2, <2>1 DEF Control, Sending
  <2>6. Answering' BY <2>1, <2>2, <2>3 DEF Answering
  <2>7. \A q \in todo' : marker'[q] = "none"
    <3> SUFFICES ASSUME NEW q \in todo' PROVE marker'[q] = "none" OBVIOUS
    <3>1. q \in todo /\ q # Current /\ q \in Tx BY <1>2, <2>1 DEF Control, TypeInv
    <3>2. marker[q] = "none" BY <3>1 DEF Finding
    <3> QED BY <2>3, <3>1, <3>2
  <2>8. \A q \in inbox : Clean(q) /\ q \in Answered => marker'[q] # "none" \/ q \in Kept'
    <3> SUFFICES ASSUME NEW q \in inbox, Clean(q), q \in Answered
                 PROVE  marker'[q] # "none" \/ q \in Kept'
      OBVIOUS
    <3>1. q \in Tx BY DEF TypeInv
    <3>2. marker[q] # "none" \/ q \in Kept BY <1>1, <2>1 DEF Finding
    <3>3. marker[q] # "valid" /\ q \in Kept => q \in Kept' BY <2>3, <3>1 DEF Kept
    <3> QED BY <2>3, <3>1, <3>2, <3>3
  <2>9. Finding' BY <2>1, <2>2, <2>7, <2>8 DEF Finding, Clean
  <2>10. Executing' BY <1>2, <2>1, <2>2 DEF Executing, Clean
  <2>11. Flying' BY <2>1, <2>2, <2>3 DEF Flying, Clean, Answering
  <2>12. Repeating' BY <2>1 DEF Repeating
  <2>13. DeletedIsAnswered' BY <1>2, <2>1, <2>2 DEF DeletedIsAnswered
  <2>14. AnswerSurvives' BY <2>1, <2>2, <2>3 DEF AnswerSurvives, Answering, Kept
  <2> QED BY <2>4, <2>5, <2>6, <2>9, <2>10, <2>11, <2>12, <2>13, <2>14
<1> QED BY <1>3, <1>4
-----------------------------------------------------------------------------
(***************************************************************************)
(* The theorems.                                                           *)
(***************************************************************************)
LEMMA StepInv == ASSUME DInv, [Next]_vars PROVE DInv'
<1>1. CASE UNCHANGED vars
  <2>1. Answered' = Answered /\ InFlight' = InFlight /\ Kept' = Kept /\ Current' = Current
    BY <1>1 DEF vars, mailbox, files, disk, memory, history, Answered, InFlight, Kept, Current
  <2> QED
    BY <1>1, <2>1 DEF vars, mailbox, files, disk, memory, history, DInv, TypeInv, Control,
       Answering, Finding, Executing, Flying, Repeating, Clean, DeletedIsAnswered, AnswerSurvives
<1>2. CASE Next
  <2>1. ASSUME NEW r \in Tx, Send(r) \/ Land(r) \/ Vanish(r) \/ GraceEnds(r) PROVE DInv'
    BY <2>1, OutsideInv
  <2>2. ASSUME NEW r \in Tx, DamageResult(r) \/ DamageMarker(r) PROVE DInv'
    BY <2>2, FaultsInv
  <2>3. ASSUME Crash \/ LoseState \/ Start PROVE DInv'
    BY <2>3, FaultsInv
  <2>4. ASSUME Watcher, ~Start PROVE DInv'
    BY <2>4, ReconcileInv, MaintainInv, PollInv, RecoverInv, ExecuteInv, UploadInv, RetireInv
       DEF Watcher
  <2> QED BY <1>2, <2>1, <2>2, <2>3, <2>4 DEF Next
<1> QED BY <1>1, <1>2

LEMMA Inductive == Spec => []DInv
<1>1. Init => DInv BY InitInv
<1>2. DInv /\ [Next]_vars => DInv' BY StepInv
<1> QED BY <1>1, <1>2, PTL DEF Spec

(* A request leaves the mailbox only when its result is there: both        *)
(* _publish_and_cleanup_result and _idle_acknowledgement_maintenance       *)
(* delete behind a publication marker, and a marker is never written       *)
(* before the result is visible.                                           *)
THEOREM DeletedAnswered == Spec => []DeletedIsAnswered
<1>1. DInv => DeletedIsAnswered BY DEF DInv
<1> QED BY <1>1, Inductive, PTL

(* No crash, failed upload or pruning loses the only copy of an answer     *)
(* that was made durable: a local result is kept until the mailbox has it. *)
THEOREM AnswersSurvive == Spec => []AnswerSurvives
<1>1. DInv => AnswerSurvives BY DEF DInv
<1> QED BY <1>1, Inductive, PTL

LEMMA OnlyRunRuns ==
    ASSUME DInv, Next, NEW r \in Tx, ran'[r] # ran[r]
    PROVE  Run /\ r = First(exec)
<1> USE DEF mailbox, files, disk, memory, history
<1>1. ASSUME NEW q \in Tx,
             Send(q) \/ Land(q) \/ Vanish(q) \/ GraceEnds(q) \/ DamageResult(q) \/ DamageMarker(q)
      PROVE  UNCHANGED ran
  BY <1>1 DEF Send, Land, Vanish, GraceEnds, DamageResult, DamageMarker
<1>2. ASSUME Crash \/ LoseState \/ Start \/ Reconcile \/ ReconcileFails \/ Maintain \/ Classify
             \/ Repair \/ RepairFails
      PROVE  UNCHANGED ran
  BY <1>2 DEF Crash, LoseState, Start, Reconcile, ReconcileFails, Maintain, Classify, Repair, RepairFails
<1>3. ASSUME NEW q \in Tx, \/ NoCopy(q) \/ RecoverFails(q) \/ Acknowledge(q) \/ Quarantine(q)
                           \/ WaitGrace(q) \/ Republish(q)
      PROVE  UNCHANGED ran
  BY <1>3 DEF NoCopy, RecoverFails, Acknowledge, Quarantine, WaitGrace, Republish
<1>4. ASSUME \/ Recovered \/ SkipDownload \/ Persist \/ PersistFails \/ Upload \/ UploadFails
             \/ UploadAmbiguous \/ Mark \/ Delete
      PROVE  UNCHANGED ran
  BY <1>4 DEF Recovered, SkipDownload, Persist, PersistFails, Upload, UploadFails, UploadAmbiguous,
     Mark, Delete
<1>5. Run BY <1>1, <1>2, <1>3, <1>4 DEF Next, Watcher
<1>6. ran' = [ran EXCEPT ![First(exec)] = ran[First(exec)] + 1] BY <1>5 DEF Run
<1>7. ran \in [Tx -> Nat] BY DEF DInv, TypeInv
<1> QED BY <1>5, <1>6, <1>7

(* process_pending_once executes only what reconcile_remote_results, the   *)
(* marker repair and the recovery of local results found no answer of.     *)
LEMMA AnsweredNotRun ==
    ASSUME DInv, Next, NEW r \in Answered, r \notin unread \cup blind
    PROVE  ran'[r] = ran[r]
<1> SUFFICES ASSUME ran'[r] # ran[r] PROVE FALSE OBVIOUS
<1>0. r \in Tx BY DEF Answered
<1>1. Run /\ r = First(exec) BY <1>0, OnlyRunRuns
<1>2. pc = "execute" /\ exec # {} /\ exec \subseteq Tx
  BY <1>1 DEF Run, DInv, Control, TypeInv
<1>3. r \in exec BY <1>1, <1>2, FirstIsIn
<1> QED BY <1>0, <1>2, <1>3 DEF DInv, Executing, Clean

LEMMA OnlyLandAndUploadWrite ==
    ASSUME Next, remote' # remote
    PROVE  Upload \/ \E q \in Tx : Land(q)
<1> USE DEF mailbox, files, disk, memory, history
<1>1. ASSUME NEW q \in Tx,
             Send(q) \/ Vanish(q) \/ GraceEnds(q) \/ DamageResult(q) \/ DamageMarker(q)
      PROVE  UNCHANGED remote
  BY <1>1 DEF Send, Vanish, GraceEnds, DamageResult, DamageMarker
<1>2. ASSUME Crash \/ LoseState \/ Start \/ Reconcile \/ ReconcileFails \/ Maintain \/ Classify
             \/ Repair \/ RepairFails
      PROVE  UNCHANGED remote
  BY <1>2 DEF Crash, LoseState, Start, Reconcile, ReconcileFails, Maintain, Classify, Repair, RepairFails
<1>3. ASSUME NEW q \in Tx, \/ NoCopy(q) \/ RecoverFails(q) \/ Acknowledge(q) \/ Quarantine(q)
                           \/ WaitGrace(q) \/ Republish(q)
      PROVE  UNCHANGED remote
  BY <1>3 DEF NoCopy, RecoverFails, Acknowledge, Quarantine, WaitGrace, Republish
<1>4. ASSUME \/ Recovered \/ SkipDownload \/ Run \/ Persist \/ PersistFails \/ UploadFails
             \/ UploadAmbiguous \/ Mark \/ Delete
      PROVE  UNCHANGED remote
  BY <1>4 DEF Recovered, SkipDownload, Run, Persist, PersistFails, UploadFails, UploadAmbiguous,
     Mark, Delete
<1> QED BY <1>1, <1>2, <1>3, <1>4 DEF Next, Watcher

(* A republication looks for a visible result first and waits until the    *)
(* first upload can no longer land.                                        *)
LEMMA AnswersFinal ==
    ASSUME DInv, Next, NEW r \in Answered, r \notin unread \cup blind
    PROVE  remote'[r] = remote[r]
<1> SUFFICES ASSUME remote' # remote PROVE remote'[r] = remote[r] OBVIOUS
<1>1. r \in Tx /\ Clean(r) BY DEF Answered, Clean
<1>2. ASSUME NEW q \in Tx, Land(q) PROVE remote'[r] = remote[r]
  <2>1. remote' = [remote EXCEPT ![q] = Append(remote[q], Head(flying[q]))] /\ flying[q] # <<>>
    BY <1>2 DEF Land
  <2>2. r # q BY <1>1, <2>1 DEF DInv, Flying
  <2> QED BY <1>1, <2>1, <2>2 DEF DInv, TypeInv
<1>3. ASSUME Upload PROVE remote'[r] = remote[r]
  <2>1. pc = "upload" BY <1>3 DEF Upload
  <2>2. IF again THEN Current \notin fresh /\ (Clean(Current) => Current \notin Answered)
        ELSE Current \in exec
    BY <2>1, CurrentIsIn DEF DInv, Repeating, Sending
  <2>3. r # Current BY <1>1, <2>1, <2>2 DEF DInv, Executing
  <2> QED BY <1>1, <1>3, <2>3, Placed DEF DInv
<1> QED BY <1>2, <1>3, OnlyLandAndUploadWrite

(* An answer a client can read stands, after crashes, pruning, damaged     *)
(* markers or the loss of the state directory: its request is not executed *)
(* again, and nothing is written over it or beside it.                     *)
THEOREM AnswersStand == Spec => AnswerStands
<1>1. ASSUME DInv, [Next]_vars
      PROVE  [\A r \in Answered : r \notin unread \cup blind =>
                ran'[r] = ran[r] /\ remote'[r] = remote[r]]_vars
  BY <1>1, AnsweredNotRun, AnswersFinal
<1> QED BY <1>1, Inductive, PTL DEF Spec, AnswerStands
=============================================================================
