------------------------ MODULE Installation_proofs ------------------------
(***************************************************************************)
(* Proofs about the two ways a bridge is replaced.  SelfUpdate, for any    *)
(* updates, whatever the commits they name, and any number of requests,    *)
(* deaths and acts of others; and Consolidation, for any labels, lock      *)
(* identities and registration files, and any number of requests, deaths   *)
(* and restarts of the Mac.                                                *)
(***************************************************************************)
EXTENDS SelfUpdate, Consolidation, SequenceTheorems, FiniteSetTheorems, TLAPS

-----------------------------------------------------------------------------
(* Ancestors. *)
ChangeNames == {"root", "base", "dev", "other"} \cup Changes
Commit == Seq(ChangeNames)

LEMMA PrefixPointwise ==
    ASSUME NEW s \in Commit, NEW t \in Commit
    PROVE  IsPrefix(s, t) <=> Len(s) <= Len(t) /\ \A i \in 1 .. Len(s) : s[i] = t[i]
<1>1. /\ Len(s) \in Nat /\ Len(t) \in Nat
      /\ s \in [1 .. Len(s) -> ChangeNames] /\ t \in [1 .. Len(t) -> ChangeNames]
  BY LenProperties DEF Commit
<1>2. SubSeq(s, 1, Len(s)) = [i \in 1 .. Len(s) |-> s[i]] BY <1>1
<1>3. SubSeq(t, 1, Len(s)) = [i \in 1 .. Len(s) |-> t[i]] BY <1>1
<1> QED BY <1>1, <1>2, <1>3 DEF IsPrefix

LEMMA AncestorReflexive == \A s \in Commit : IsPrefix(s, s)
<1> TAKE s \in Commit
<1>1. Len(s) \in Nat BY LenProperties DEF Commit
<1> QED BY <1>1, PrefixPointwise

LEMMA AncestorTransitive ==
    ASSUME NEW r \in Commit, NEW s \in Commit, NEW t \in Commit, IsPrefix(r, s), IsPrefix(s, t)
    PROVE  IsPrefix(r, t)
<1>1. Len(r) \in Nat /\ Len(s) \in Nat /\ Len(t) \in Nat BY LenProperties DEF Commit
<1>2. Len(r) <= Len(s) /\ \A i \in 1 .. Len(r) : r[i] = s[i] BY PrefixPointwise
<1>3. Len(s) <= Len(t) /\ \A i \in 1 .. Len(s) : s[i] = t[i] BY PrefixPointwise
<1>4. Len(r) <= Len(t) /\ \A i \in 1 .. Len(r) : r[i] = t[i] BY <1>1, <1>2, <1>3
<1> QED BY <1>4, PrefixPointwise

LEMMA AncestorOfAppend ==
    ASSUME NEW s \in Commit, NEW e \in ChangeNames
    PROVE  Append(s, e) \in Commit /\ IsPrefix(s, Append(s, e))
<1> DEFINE longer == Append(s, e)
<1>1. /\ longer \in Commit /\ Len(longer) = Len(s) + 1
      /\ \A i \in 1 .. Len(s) : longer[i] = s[i]
  BY AppendProperties DEF Commit
<1>2. Len(s) \in Nat BY LenProperties DEF Commit
<1>3. IsPrefix(s, longer)
  <2> HIDE DEF longer
  <2> QED BY <1>1, <1>2, PrefixPointwise
<1> QED BY <1>1, <1>3

LEMMA Targets == \A u \in Updates : CommitOf[u] \in Commit
<1>1. \A c \in Seq({"root", "base"} \cup Changes) : c \in Seq(ChangeNames)
  BY DEF ChangeNames
<1> QED BY <1>1, UpdatesAssumption DEF Commit

LEMMA PairIsSequence == ASSUME NEW S, NEW a \in S, NEW b \in S PROVE <<a, b>> \in Seq(S)
OBVIOUS

LEMMA BaseIsCommit == Base \in Commit
BY PairIsSequence DEF Base, Commit, ChangeNames

-----------------------------------------------------------------------------
(***************************************************************************)
(* The inductive invariant.  It follows the supervisor through four        *)
(* stretches of its run: before the switch, after it and before the        *)
(* verdict, on the way back, and after the verdict.                        *)
(***************************************************************************)
Forward == {"unlink", "restart", "wait"}
Back == {"unlinkBack", "restartBack", "waitBack"}
Pushed == {"promote", "merge", "merged", "repair", "repaired", "reset", "switch"}
Before == {"install", "remote", "push"} \cup Pushed
Landed == Pushed \cup Forward \cup Back \cup {"finish"}
Places == Before \cup Landed

IsRun ==
    /\ sup = [at |-> sup.at, update |-> sup.update, previous |-> sup.previous, head |-> sup.head]
    /\ sup.at \in Places /\ sup.update \in Updates /\ sup.previous \in Commit

TypeInv ==
    /\ origin \in Commit /\ active \in Commit
    /\ handoff \in Updates \cup {None}
    /\ sup = Idle \/ IsRun

\* What the supervisor may point at is on the remote's main.
PromotedInv ==
    /\ IsPrefix(active, origin)
    /\ sup.at \in Places => IsPrefix(sup.previous, origin)
    /\ sup.at \in Landed => IsPrefix(Target, origin)

\* What the pointer names, and whether a supervisor has seen it healthy.
VerifiedInv ==
    /\ sup.at \in Before => sup.previous = active
    /\ sup.at \in Forward => active = Target
    /\ sup.at \in Back => active = sup.previous
    /\ sup.at = "finish" => active \in verified
    /\ ~abandoned => /\ sup.at \in {"idle"} \cup Before => active \in verified
                     /\ sup.at \in Forward \cup Back => sup.previous \in verified

IInv == TypeInv /\ PromotedInv /\ VerifiedInv

LEMMA InitInv == Init => IInv
<1> SUFFICES ASSUME Init PROVE IInv OBVIOUS
<1>1. TypeInv BY BaseIsCommit DEF Init, TypeInv
<1>2. sup.at = "idle" BY DEF Init, Idle
<1>3. PromotedInv BY <1>2, BaseIsCommit, AncestorReflexive
  DEF Init, PromotedInv, Places, Before, Landed, Pushed, Forward, Back
<1>4. VerifiedInv BY <1>2 DEF Init, VerifiedInv, Before, Pushed, Forward, Back
<1> QED BY <1>1, <1>3, <1>4 DEF IInv

-----------------------------------------------------------------------------
(* The steps of a run. *)

\* The supervisor goes on; when it finds another branch moved it notes which.
GoesTo(p) == Goto(p) \/ sup' = [sup EXCEPT !.at = p, !.head = head]

\* A run that goes on keeps its update and the runtime it started from.
LEMMA GoOn ==
    ASSUME IsRun, NEW p \in Places, GoesTo(p)
    PROVE  /\ IsRun' /\ sup'.at = p
           /\ sup'.update = sup.update /\ sup'.previous = sup.previous
<1>1. \E h : sup' = [at |-> p, update |-> sup.update, previous |-> sup.previous, head |-> h]
  <2>1. CASE Goto(p) BY <2>1 DEF IsRun, Goto
  <2>2. CASE sup' = [sup EXCEPT !.at = p, !.head = head] BY <2>2 DEF IsRun
  <2> QED BY <2>1, <2>2 DEF GoesTo
<1>2. /\ sup'.at = p /\ sup'.update = sup.update /\ sup'.previous = sup.previous
      /\ sup' = [at |-> p, update |-> sup.update, previous |-> sup.previous, head |-> sup'.head]
  BY <1>1
<1> QED BY <1>1, <1>2 DEF IsRun

LEMMA AtPlace ==
    ASSUME TypeInv, NEW p \in Places, At(p)
    PROVE  IsRun /\ Target \in Commit /\ sup.previous \in Commit
<1>1. sup # Idle BY DEF At, Idle, Places, Before, Landed, Pushed, Forward, Back
<1> QED BY <1>1, Targets DEF TypeInv, IsRun, Target

\* A step that leaves the pointer and the verdicts alone, from one place before the
\* switch to another, keeps the invariant when it reaches a pushed place rightly.
LEMMA BeforeStep ==
    ASSUME IInv, NEW p \in Before, NEW q \in Before, At(p), GoesTo(q),
           origin' \in Commit, IsPrefix(origin, origin'),
           q \in Pushed => p \in Pushed \/ IsPrefix(Target, origin'),
           UNCHANGED <<active, verified, abandoned, handoff>>
    PROVE  IInv'
<1>1. IsRun /\ Target \in Commit /\ sup.previous \in Commit
  BY AtPlace DEF IInv, Places
<1>2. IsRun' /\ sup'.at = q /\ sup'.update = sup.update /\ sup'.previous = sup.previous
  BY <1>1, GoOn DEF Places
<1>3. TypeInv' BY <1>2 DEF IInv, TypeInv
<1>4. PromotedInv'
  <2>1. IsPrefix(active, origin') BY AncestorTransitive DEF IInv, TypeInv, PromotedInv
  <2>2. IsPrefix(sup.previous, origin')
    BY <1>1, AncestorTransitive DEF IInv, TypeInv, PromotedInv, At, Places
  <2>3. q \in Landed => IsPrefix(Target, origin')
    <3>1. SUFFICES ASSUME q \in Pushed PROVE IsPrefix(Target, origin')
      BY DEF Landed, Before, Pushed, Forward, Back
    <3>2. CASE p \in Pushed
      <4>1. IsPrefix(Target, origin) BY <3>2 DEF IInv, PromotedInv, At, Landed
      <4> QED BY <4>1, <1>1, AncestorTransitive DEF IInv, TypeInv
    <3> QED BY <3>1, <3>2
  <2>4. Target' = Target BY <1>2 DEF Target
  <2> QED BY <1>2, <2>1, <2>2, <2>3, <2>4 DEF PromotedInv
<1>5. VerifiedInv'
  <2>1. sup.previous = active /\ (~abandoned => active \in verified)
    BY DEF IInv, VerifiedInv, At
  <2>2. sup'.at \notin Back \cup Forward \cup {"finish"}
    BY <1>2 DEF Before, Pushed, Forward, Back
  <2> QED BY <1>2, <2>1, <2>2 DEF VerifiedInv
<1> QED BY <1>3, <1>4, <1>5 DEF IInv

\* A run that gives up before the switch.
LEMMA BeforeRaise ==
    ASSUME IInv, NEW p \in Before, At(p), Raise,
           origin' \in Commit, IsPrefix(origin, origin'),
           UNCHANGED <<active, verified, abandoned, handoff>>
    PROVE  IInv'
<1>1. sup' = Idle /\ sup'.at = "idle" BY DEF Raise, Idle
<1>2. TypeInv' BY <1>1 DEF IInv, TypeInv
<1>3. IsPrefix(active', origin') BY AncestorTransitive DEF IInv, TypeInv, PromotedInv
<1>4. PromotedInv' BY <1>1, <1>3
  DEF PromotedInv, Places, Landed, Before, Pushed, Forward, Back
<1>5. VerifiedInv'
  <2>1. ~abandoned => active \in verified BY DEF IInv, VerifiedInv, At
  <2> QED BY <1>1, <2>1 DEF VerifiedInv, Before, Pushed, Forward, Back
<1> QED BY <1>2, <1>4, <1>5 DEF IInv

\* A step of the watcher, the developer or others.
LEMMA OutsideStep ==
    ASSUME IInv, origin' \in Commit, IsPrefix(origin, origin'),
           handoff' \in Updates \cup {None},
           UNCHANGED <<sup, active, verified, abandoned>>
    PROVE  IInv'
<1>1. TypeInv' BY DEF IInv, TypeInv, IsRun
<1>2. PromotedInv'
  <2>1. IsPrefix(active, origin') BY AncestorTransitive DEF IInv, TypeInv, PromotedInv
  <2>2. ASSUME sup.at \in Places
        PROVE  /\ IsPrefix(sup.previous, origin')
               /\ sup.at \in Landed => IsPrefix(Target, origin')
    <3>1. Target \in Commit /\ sup.previous \in Commit
      BY <2>2, AtPlace DEF IInv, At
    <3>2. IsPrefix(sup.previous, origin')
      BY <2>2, <3>1, AncestorTransitive DEF IInv, TypeInv, PromotedInv
    <3>3. ASSUME sup.at \in Landed PROVE IsPrefix(Target, origin')
      BY <3>1, <3>3, AncestorTransitive DEF IInv, TypeInv, PromotedInv
    <3> QED BY <3>2, <3>3
  <2> QED BY <2>1, <2>2 DEF PromotedInv, Target, Places
<1>3. VerifiedInv' BY DEF IInv, VerifiedInv, Target
<1> QED BY <1>1, <1>2, <1>3 DEF IInv

-----------------------------------------------------------------------------
(* The actions. *)
LEMMA ActionInv == ASSUME IInv, [Next]_vars PROVE IInv'
<1> USE DEF files, repository, outside, bounds, GoesTo, Places, Before, Landed, Pushed, Forward, Back
<1>0. IsPrefix(origin, origin) /\ origin \in Commit
  BY AncestorReflexive DEF IInv, TypeInv
<1>s. ASSUME UNCHANGED <<origin, handoff, sup, active, verified, abandoned>> PROVE IInv'
  <2>1. handoff' \in Updates \cup {None} BY <1>s DEF IInv, TypeInv
  <2> QED BY <1>s, <1>0, <2>1, OutsideStep
<1>1. CASE Launch BY <1>1, <1>s DEF Launch
<1>2. CASE Mark BY <1>2, <1>s DEF Mark
<1>3. CASE Exit BY <1>3, <1>s DEF Exit
<1>4. ASSUME NEW u \in Updates, Request(u) PROVE IInv'
  <2>1. /\ handoff' \in Updates \cup {None} /\ origin' = origin
        /\ UNCHANGED <<sup, active, verified, abandoned>>
    BY <1>4 DEF Request
  <2> QED BY <1>0, <2>1, OutsideStep
<1>5. ASSUME NEW u \in Updates, Offer(u) PROVE IInv'
  BY <1>5, <1>s DEF Offer, Acts
<1>6. CASE NotLaunched BY <1>6, <1>s DEF NotLaunched
<1>7. CASE Start
  <2>1. CASE UNCHANGED sup BY <1>7, <2>1, <1>s DEF Start
  <2>2. ASSUME At("idle"), handoff # None,
               sup' = [at |-> "install", update |-> handoff, previous |-> active, head |-> Tip]
        PROVE  IInv'
    <3>1. /\ sup'.at = "install" /\ sup'.update = handoff /\ sup'.previous = active
          /\ sup'.head = Tip
      BY <2>2
    <3>2. UNCHANGED <<origin, active, verified, abandoned, handoff>> BY <1>7 DEF Start
    <3>3. IsRun' BY <2>2, <3>1, <3>2 DEF IsRun, IInv, TypeInv
    <3>4. TypeInv' BY <3>2, <3>3 DEF IInv, TypeInv
    <3>5. PromotedInv' BY <3>1, <3>2 DEF IInv, PromotedInv
    <3>6. VerifiedInv' BY <2>2, <3>1, <3>2 DEF IInv, VerifiedInv, At
    <3> QED BY <3>4, <3>5, <3>6 DEF IInv
  <2> QED BY <1>7, <2>1, <2>2 DEF Start
<1>8. CASE Install
  <2>1. At("install") /\ UNCHANGED <<origin, active, verified, abandoned, handoff>>
    BY <1>8 DEF Install
  <2>2. CASE Goto("remote") BY <1>0, <2>1, <2>2, BeforeStep
  <2>3. CASE Raise BY <1>0, <2>1, <2>3, BeforeRaise
  <2> QED BY <1>8, <2>2, <2>3 DEF Install
<1>9. CASE ReadRemote
  <2>1. At("remote") /\ UNCHANGED <<origin, active, verified, abandoned, handoff>>
    BY <1>9 DEF ReadRemote
  <2>2. CASE Raise BY <1>0, <2>1, <2>2, BeforeRaise
  <2>3. CASE origin = Target /\ Goto("promote")
    <3>1. IsPrefix(Target, origin') BY <2>1, <2>3, <1>0
    <3> QED BY <1>0, <2>1, <2>3, <3>1, BeforeStep
  <2>4. CASE Goto("push") BY <1>0, <2>1, <2>4, BeforeStep
  <2> QED BY <1>9, <2>2, <2>3, <2>4 DEF ReadRemote
<1>10. CASE Push
  <2>1. At("push") /\ UNCHANGED <<active, verified, abandoned, handoff>>
    BY <1>10 DEF Push
  <2>2. Target \in Commit BY <2>1, AtPlace DEF IInv
  <2>3. CASE Raise /\ UNCHANGED origin BY <1>0, <2>1, <2>3, BeforeRaise
  <2>4. CASE IsPrefix(origin, Target) /\ origin' = Target
    <3>1. origin' \in Commit /\ IsPrefix(origin, origin') BY <2>2, <2>4
    <3>2. CASE Raise BY <2>1, <3>1, <3>2, BeforeRaise
    <3>3. CASE Goto("promote")
      <4>1. IsPrefix(Target, origin') BY <2>2, <2>4, AncestorReflexive
      <4> QED BY <2>1, <3>1, <3>3, <4>1, BeforeStep
    <3> QED BY <1>10, <2>3, <2>4, <3>2, <3>3 DEF Push
  <2> QED BY <1>10, <2>3, <2>4 DEF Push
<1>11. CASE Promote
  <2>1. At("promote") /\ UNCHANGED <<origin, active, verified, abandoned, handoff>>
    BY <1>11 DEF Promote
  <2>2. CASE Goto("switch") BY <1>0, <2>1, <2>2, BeforeStep
  <2>3. CASE Goto("merge") BY <1>0, <2>1, <2>3, BeforeStep
  <2>4. CASE Raise BY <1>0, <2>1, <2>4, BeforeRaise
  <2> QED BY <1>11, <2>2, <2>3, <2>4 DEF Promote
<1>12. CASE Merge
  <2>1. At("merge") /\ UNCHANGED <<origin, active, verified, abandoned, handoff>>
    BY <1>12 DEF Merge
  <2>2. CASE Goto("merged") BY <1>0, <2>1, <2>2, BeforeStep
  <2>3. CASE Raise BY <1>0, <2>1, <2>3, BeforeRaise
  <2> QED BY <1>12, <2>2, <2>3 DEF Merge
<1>13. CASE Merged
  <2>1. At("merged") /\ UNCHANGED <<origin, active, verified, abandoned, handoff>>
    BY <1>13 DEF Merged
  <2>2. GoesTo("switch") \/ GoesTo("repair") \/ Raise
    BY <1>13 DEF Merged, Goto, Raise
  <2>3. CASE GoesTo("switch") BY <1>0, <2>1, <2>3, BeforeStep
  <2>4. CASE GoesTo("repair") BY <1>0, <2>1, <2>4, BeforeStep
  <2>5. CASE Raise BY <1>0, <2>1, <2>5, BeforeRaise
  <2> QED BY <2>2, <2>3, <2>4, <2>5
<1>14. CASE Repair
  <2>1. At("repair") /\ UNCHANGED <<origin, active, verified, abandoned, handoff>>
    BY <1>14 DEF Repair
  <2>2. CASE Goto("repaired") BY <1>0, <2>1, <2>2, BeforeStep
  <2>3. CASE Raise BY <1>0, <2>1, <2>3, BeforeRaise
  <2> QED BY <1>14, <2>2, <2>3 DEF Repair
<1>15. CASE Repaired
  <2>1. At("repaired") /\ UNCHANGED <<origin, active, verified, abandoned, handoff>>
    BY <1>15 DEF Repaired
  <2>2. CASE Goto("reset") BY <1>0, <2>1, <2>2, BeforeStep
  <2>3. CASE Raise BY <1>0, <2>1, <2>3, BeforeRaise
  <2> QED BY <1>15, <2>2, <2>3 DEF Repaired
<1>16. CASE Reset
  <2>1. /\ At("reset") /\ Raise
        /\ UNCHANGED <<origin, active, verified, abandoned, handoff>>
    BY <1>16 DEF Reset
  <2> QED BY <1>0, <2>1, BeforeRaise
<1>17. CASE Switch
  <2>1. /\ At("switch") /\ GoesTo("unlink") /\ active' = Target
        /\ UNCHANGED <<origin, verified, abandoned, handoff>>
    BY <1>17 DEF Switch, Point
  <2>2. IsRun /\ Target \in Commit BY <2>1, AtPlace DEF IInv
  <2>3. /\ IsRun' /\ sup'.at = "unlink" /\ sup'.update = sup.update
        /\ sup'.previous = sup.previous
    BY <2>1, <2>2, GoOn
  <2>4. TypeInv' BY <2>1, <2>2, <2>3 DEF IInv, TypeInv
  <2>5. PromotedInv' BY <2>1, <2>3 DEF IInv, PromotedInv, Target, At
  <2>6. VerifiedInv' BY <2>1, <2>3 DEF IInv, VerifiedInv, At, Target
  <2> QED BY <2>4, <2>5, <2>6 DEF IInv
<1>18. ASSUME NEW p \in Places, NEW q \in Places, At(p), Goto(q),
              p \in Forward <=> q \in Forward, p \in Back <=> q \in Back,
              p \in Forward \cup Back,
              UNCHANGED <<origin, active, verified, abandoned, handoff>>
       PROVE  IInv'
  <2>1. IsRun BY <1>18, AtPlace DEF IInv
  <2>2. /\ IsRun' /\ sup'.at = q /\ sup'.update = sup.update /\ sup'.previous = sup.previous
    BY <1>18, <2>1, GoOn
  <2>3. TypeInv' BY <1>18, <2>2 DEF IInv, TypeInv
  <2>4. PromotedInv' BY <1>18, <2>2 DEF IInv, PromotedInv, Target, At
  <2>5. VerifiedInv' BY <1>18, <2>2 DEF IInv, VerifiedInv, At, Target
  <2> QED BY <2>3, <2>4, <2>5 DEF IInv
<1>19. CASE UnlinkHealth("unlink", "restart")
  <2>1. /\ At("unlink") /\ Goto("restart")
        /\ UNCHANGED <<origin, active, verified, abandoned, handoff>>
    BY <1>19 DEF UnlinkHealth
  <2>2. /\ "unlink" \in Forward /\ "restart" \in Forward
        /\ "unlink" \notin Back /\ "restart" \notin Back
    OBVIOUS
  <2> QED BY <1>18, <2>1, <2>2
<1>20. CASE UnlinkHealth("unlinkBack", "restartBack")
  <2>1. /\ At("unlinkBack") /\ Goto("restartBack")
        /\ UNCHANGED <<origin, active, verified, abandoned, handoff>>
    BY <1>20 DEF UnlinkHealth
  <2>2. /\ "unlinkBack" \in Back /\ "restartBack" \in Back
        /\ "unlinkBack" \notin Forward /\ "restartBack" \notin Forward
    OBVIOUS
  <2> QED BY <1>18, <2>1, <2>2
<1>21. CASE Restart("restart", "wait")
  <2>1. /\ At("restart") /\ Goto("wait")
        /\ UNCHANGED <<origin, active, verified, abandoned, handoff>>
    BY <1>21 DEF Restart
  <2>2. /\ "restart" \in Forward /\ "wait" \in Forward
        /\ "restart" \notin Back /\ "wait" \notin Back
    OBVIOUS
  <2> QED BY <1>18, <2>1, <2>2
<1>22. CASE Restart("restartBack", "waitBack")
  <2>1. /\ At("restartBack") /\ Goto("waitBack")
        /\ UNCHANGED <<origin, active, verified, abandoned, handoff>>
    BY <1>22 DEF Restart
  <2>2. /\ "restartBack" \in Back /\ "waitBack" \in Back
        /\ "restartBack" \notin Forward /\ "waitBack" \notin Forward
    OBVIOUS
  <2> QED BY <1>18, <2>1, <2>2
<1>23. CASE Verify
  <2>1. /\ At("wait") /\ Goto("finish") /\ verified' = verified \cup {Target}
        /\ UNCHANGED <<origin, active, handoff>>
    BY <1>23 DEF Verify
  <2>2. IsRun BY <2>1, AtPlace DEF IInv
  <2>3. /\ IsRun' /\ sup'.at = "finish" /\ sup'.update = sup.update
        /\ sup'.previous = sup.previous
    BY <2>1, <2>2, GoOn
  <2>4. active = Target BY <2>1 DEF IInv, VerifiedInv, At
  <2>5. TypeInv' BY <2>1, <2>3 DEF IInv, TypeInv
  <2>6. PromotedInv' BY <2>1, <2>3 DEF IInv, PromotedInv, Target, At
  <2>7. VerifiedInv' BY <2>1, <2>3, <2>4 DEF VerifiedInv
  <2> QED BY <2>5, <2>6, <2>7 DEF IInv
<1>24. CASE RollBack
  <2>1. /\ At("wait") /\ Goto("unlinkBack") /\ active' = sup.previous
        /\ UNCHANGED <<origin, verified, abandoned, handoff>>
    BY <1>24 DEF RollBack, Point
  <2>2. IsRun BY <2>1, AtPlace DEF IInv
  <2>3. /\ IsRun' /\ sup'.at = "unlinkBack" /\ sup'.update = sup.update
        /\ sup'.previous = sup.previous
    BY <2>1, <2>2, GoOn
  <2>4. TypeInv' BY <2>1, <2>2, <2>3 DEF IInv, TypeInv, IsRun
  <2>5. PromotedInv' BY <2>1, <2>3 DEF IInv, PromotedInv, Target, At
  <2>6. VerifiedInv' BY <2>1, <2>3 DEF IInv, VerifiedInv, At
  <2> QED BY <2>4, <2>5, <2>6 DEF IInv
<1>25. ASSUME Raise, UNCHANGED <<origin, active, verified>>,
              handoff' \in Updates \cup {None},
              ~abandoned' => active \in verified
       PROVE  IInv'
  <2>1. sup' = Idle /\ sup'.at = "idle" BY <1>25 DEF Raise, Idle
  <2>2. TypeInv' BY <1>25, <2>1 DEF IInv, TypeInv
  <2>3. PromotedInv' BY <1>25, <2>1 DEF IInv, PromotedInv
  <2>4. VerifiedInv' BY <1>25, <2>1 DEF VerifiedInv
  <2> QED BY <2>2, <2>3, <2>4 DEF IInv
<1>26. CASE RestartFails
  <2>1. /\ Raise /\ abandoned' = TRUE /\ UNCHANGED <<origin, active, verified, handoff>>
    BY <1>26 DEF RestartFails
  <2>2. handoff' \in Updates \cup {None} BY <2>1 DEF IInv, TypeInv
  <2> QED BY <1>25, <2>1, <2>2
<1>27. CASE RolledBack
  <2>1. /\ At("waitBack") /\ Raise
        /\ UNCHANGED <<origin, active, verified, abandoned, handoff>>
    BY <1>27 DEF RolledBack
  <2>2. handoff' \in Updates \cup {None} BY <2>1 DEF IInv, TypeInv
  <2>3. ~abandoned => active \in verified BY <2>1 DEF IInv, VerifiedInv, At
  <2> QED BY <1>25, <2>1, <2>2, <2>3
<1>28. CASE Finish
  <2>1. /\ At("finish") /\ Raise /\ handoff' = None
        /\ UNCHANGED <<origin, active, verified, abandoned>>
    BY <1>28 DEF Finish
  <2>2. active \in verified BY <2>1 DEF IInv, VerifiedInv, At
  <2> QED BY <1>25, <2>1, <2>2
<1>29. CASE Crash
  <2>1. /\ ~At("idle") /\ Raise /\ abandoned' = (abandoned \/ Unverified)
        /\ UNCHANGED <<origin, active, verified, handoff>>
    BY <1>29 DEF Crash
  <2>2. handoff' \in Updates \cup {None} BY <2>1 DEF IInv, TypeInv
  <2>3. sup.at \in Places BY <2>1 DEF IInv, TypeInv, IsRun, At, Idle
  <2>4. ASSUME ~abandoned, ~Unverified PROVE active \in verified
    BY <2>3, <2>4 DEF IInv, VerifiedInv, Unverified
  <2> QED BY <1>25, <2>1, <2>2, <2>4
<1>30. CASE DevEdit BY <1>30, <1>s DEF DevEdit, Acts
<1>31. CASE DevCommit BY <1>31, <1>s DEF DevCommit, Acts
<1>32. CASE DevSwitch BY <1>32, <1>s DEF DevSwitch, Acts
<1>33. CASE OthersPush
  <2>1. /\ origin' = Append(origin, "other")
        /\ UNCHANGED <<handoff, sup, active, verified, abandoned>>
    BY <1>33 DEF OthersPush, Acts
  <2>2. "other" \in ChangeNames BY DEF ChangeNames
  <2>3. origin' \in Commit /\ IsPrefix(origin, origin') BY <1>0, <2>1, <2>2, AncestorOfAppend
  <2>4. handoff' \in Updates \cup {None} BY <2>1 DEF IInv, TypeInv
  <2> QED BY <2>1, <2>3, <2>4, OutsideStep
<1>34. CASE UNCHANGED vars BY <1>34, <1>s DEF vars
<1> QED
  BY <1>1, <1>2, <1>3, <1>4, <1>5, <1>6, <1>7, <1>8, <1>9, <1>10, <1>11, <1>12, <1>13,
     <1>14, <1>15, <1>16, <1>17, <1>19, <1>20, <1>21, <1>22, <1>23, <1>24, <1>26, <1>27,
     <1>28, <1>29, <1>30, <1>31, <1>32, <1>33, <1>34
  DEF Next, Supervisor

THEOREM Inductive == Spec => []IInv
<1>1. Init => IInv BY InitInv
<1>2. IInv /\ [Next]_vars => IInv' BY ActionInv
<1> QED BY <1>1, <1>2, PTL DEF Spec

\* The runtime the pointer names is an ancestor of the remote's main, whatever others
\* push, whichever answer of git push is lost and wherever the supervisor dies.
THEOREM PromotedBeforeActive == Spec => []ActiveIsPromoted
<1>1. IInv => ActiveIsPromoted BY DEF IInv, PromotedInv, ActiveIsPromoted
<1> QED BY <1>1, Inductive, PTL

\* When no supervisor works and none was lost between its switch and its verdict, the
\* pointer names a runtime that a supervisor saw healthy.
THEOREM VerifiedWhenIdle == Spec => []ActiveIsVerified
<1>1. IInv => ActiveIsVerified BY DEF IInv, VerifiedInv, ActiveIsVerified, At
<1> QED BY <1>1, Inductive, PTL
-----------------------------------------------------------------------------
(***************************************************************************)
(* What the supervisor reads in the health marker.  It is removed after    *)
(* the pointer was written, so only a watcher that starts later writes it  *)
(* again, or one that was starting already.  Such a one either started     *)
(* after the pointer was written or runs another runtime: a supervisor is  *)
(* only launched by a watcher that is up, and its restart ends whichever   *)
(* watcher was starting when it switched.                                  *)
(***************************************************************************)
Processes == [at : {"starting", "up", "draining", "down"}, runtime : Commit, fresh : BOOLEAN]
Markers == [runtime : Commit, fresh : BOOLEAN]

\* Started after the pointer was last written, or not of the runtime it names.
Telling(x) == x.fresh \/ x.runtime # active

ProcessOK ==
    /\ watcher \in Processes /\ (health # <<>> => health \in Markers)
    /\ owed => watcher.at \in {"up", "draining"}
    /\ watcher.fresh => watcher.runtime = active
StartingInv ==
    watcher.at = "starting" =>
        /\ sup.at \in Before \cup {"wait"} => watcher.fresh
        /\ sup.at \in Forward \cup Back => Telling(watcher)
MarkerInv ==
    sup.at \in {"restart", "wait", "restartBack", "waitBack"} /\ health # <<>> => Telling(health)
FreshInv == ProcessOK /\ StartingInv /\ MarkerInv

Journals == [target : Updates \cup {None},
             status : {None, "success", "rolled-back", "rollback-health-failed"}]

LEMMA JournalStep ==
    ASSUME IInv, journal \in Journals, [Next]_vars
    PROVE  journal' \in Journals
<1>1. CASE Install
  <2>1. sup.update \in Updates
    BY <1>1, AtPlace DEF Install, IInv, IsRun, Places, Before
  <2> QED BY <1>1, <2>1 DEF Install, Journals
<1>2. CASE Verify BY <1>2 DEF Verify, Journals
<1>3. CASE RolledBack
  <2>1. \E s \in {"rolled-back", "rollback-health-failed"} : journal' = [journal EXCEPT !.status = s]
    BY <1>3 DEF RolledBack
  <2> QED BY <2>1 DEF Journals
<1>4. CASE UNCHANGED journal BY <1>4
<1>5. ASSUME Launch \/ Mark \/ Exit \/ NotLaunched \/ \E u \in Updates : Request(u) \/ Offer(u)
      PROVE  UNCHANGED journal
  BY <1>5 DEF Launch, Mark, Exit, NotLaunched, Request, Offer, Acts, files
<1>6. ASSUME \/ Start \/ ReadRemote \/ Push \/ Promote \/ Merge \/ Merged \/ Repair \/ Repaired
             \/ Reset \/ Switch \/ RollBack \/ RestartFails \/ Finish
             \/ UnlinkHealth("unlink", "restart") \/ UnlinkHealth("unlinkBack", "restartBack")
             \/ Restart("restart", "wait") \/ Restart("restartBack", "waitBack")
      PROVE  UNCHANGED journal
  BY <1>6 DEF Start, ReadRemote, Push, Promote, Merge, Merged, Repair, Repaired, Reset, Switch,
              RollBack, RestartFails, Finish, UnlinkHealth, Restart, files
<1>7. ASSUME Crash \/ DevEdit \/ DevCommit \/ DevSwitch \/ OthersPush \/ UNCHANGED vars
      PROVE  UNCHANGED journal
  BY <1>7 DEF Crash, DevEdit, DevCommit, DevSwitch, OthersPush, Acts, files, vars
<1> QED BY <1>1, <1>2, <1>3, <1>4, <1>5, <1>6, <1>7 DEF Next, Supervisor

LEMMA InitFresh == Init => FreshInv
<1> SUFFICES ASSUME Init PROVE FreshInv OBVIOUS
<1>1. ProcessOK BY BaseIsCommit DEF Init, ProcessOK, Processes, Markers
<1> QED BY <1>1 DEF Init, Idle, FreshInv, StartingInv, MarkerInv

\* A step that leaves the processes alone, before the switch or to the end of a run.
LEMMA ProcessesAlone ==
    ASSUME FreshInv, UNCHANGED <<owed, active, health, watcher>>,
           \/ sup'.at \in {"idle", "finish"} \/ sup'.at = sup.at
           \/ sup.at \in Before /\ sup'.at \in Before
    PROVE  FreshInv'
  BY DEF FreshInv, ProcessOK, StartingInv, MarkerInv, Telling, Before, Pushed, Forward, Back

\* The pointer is written: what says nothing of the old runtime says nothing of the new.
LEMMA Pointed ==
    ASSUME IInv, FreshInv, NEW commit \in Commit, Point(commit), UNCHANGED owed
    PROVE  /\ ProcessOK'
           /\ watcher'.at = watcher.at /\ watcher'.runtime = watcher.runtime
           /\ watcher.fresh => Telling(watcher)'
<1>1. watcher \in Processes /\ active \in Commit BY DEF FreshInv, ProcessOK, IInv, TypeInv
<1>2. /\ active' = commit
      /\ watcher' = [watcher EXCEPT !.fresh = watcher.fresh /\ commit = active]
  BY DEF Point
<1>3. /\ watcher' \in Processes /\ watcher'.at = watcher.at /\ watcher'.runtime = watcher.runtime
      /\ watcher'.fresh = (watcher.fresh /\ commit = active)
  BY <1>1, <1>2 DEF Processes
<1>4. health' # <<>> => health' \in Markers
  <2>1. CASE health = <<>> BY <2>1 DEF Point
  <2>2. CASE health # <<>>
    <3>1. health \in Markers BY <2>2 DEF FreshInv, ProcessOK
    <3>2. health' = [health EXCEPT !.fresh = health.fresh /\ commit = active] BY <2>2 DEF Point
    <3>3. (health.fresh /\ commit = active) \in BOOLEAN BY <3>1 DEF Markers
    <3> QED BY <3>1, <3>2, <3>3 DEF Markers
  <2> QED BY <2>1, <2>2
<1>5. watcher.fresh => watcher.runtime = active BY DEF FreshInv, ProcessOK
<1>6. ProcessOK' BY <1>2, <1>3, <1>4, <1>5 DEF FreshInv, ProcessOK
<1> QED BY <1>2, <1>3, <1>5, <1>6 DEF Telling

\* The steps of the watcher.
LEMMA WatcherFresh ==
    ASSUME IInv, FreshInv,
           Launch \/ Mark \/ Exit \/ NotLaunched \/ \E u \in Updates : Request(u)
    PROVE  FreshInv'
<1> USE DEF FreshInv, files
<1>1. watcher \in Processes /\ active \in Commit BY DEF ProcessOK, IInv, TypeInv
<1>2. CASE Launch
  <2>1. /\ watcher' \in Processes /\ watcher'.at = "starting"
        /\ watcher'.runtime = active /\ watcher'.fresh
    BY <1>1, <1>2 DEF Launch, Processes
  <2>2. UNCHANGED <<owed, active, health, sup>> /\ ~owed BY <1>2 DEF Launch, ProcessOK
  <2> QED BY <2>1, <2>2 DEF ProcessOK, StartingInv, MarkerInv, Telling
<1>3. CASE Mark
  <2>1. watcher.at = "starting" /\ UNCHANGED <<owed, active, sup>> /\ ~owed
    BY <1>3 DEF Mark, ProcessOK
  <2>2. /\ watcher' \in Processes /\ watcher'.at \in {"down", "up"}
        /\ watcher'.runtime = watcher.runtime /\ watcher'.fresh = watcher.fresh
    BY <1>1, <1>3 DEF Mark, Processes
  <2>3. /\ health' # <<>> => health' \in Markers
        /\ MarkerInv'
    <3>1. CASE UNCHANGED health BY <2>1, <3>1 DEF ProcessOK, MarkerInv, Telling
    <3>2. CASE health' = [runtime |-> watcher.runtime, fresh |-> watcher.fresh]
      <4>1. health' \in Markers BY <1>1, <3>2 DEF Markers, Processes
      <4>2. health'.runtime = watcher.runtime /\ health'.fresh = watcher.fresh BY <3>2
      <4>3. sup.at \in {"restart", "wait", "restartBack", "waitBack"} => Telling(watcher)
        BY <2>1 DEF StartingInv, Forward, Back
      <4> QED BY <2>1, <4>1, <4>2, <4>3 DEF MarkerInv, Telling
    <3> QED BY <1>3, <3>1, <3>2 DEF Mark
  <2> QED BY <2>1, <2>2, <2>3 DEF ProcessOK, StartingInv
<1>4. CASE Exit
  <2>1. /\ watcher' \in Processes /\ watcher'.at = "down"
        /\ watcher'.runtime = watcher.runtime /\ watcher'.fresh = watcher.fresh
    BY <1>1, <1>4 DEF Exit, Processes
  <2>2. UNCHANGED <<active, health, sup>> /\ ~owed' BY <1>4 DEF Exit
  <2> QED BY <2>1, <2>2 DEF ProcessOK, StartingInv, MarkerInv, Telling
<1>5. CASE NotLaunched
  BY <1>5 DEF NotLaunched, ProcessOK, StartingInv, MarkerInv, Telling
<1>6. CASE \E u \in Updates : Request(u)
  BY <1>6 DEF Request, ProcessOK, StartingInv, MarkerInv, Telling
<1> QED BY <1>2, <1>3, <1>4, <1>5, <1>6

\* The supervisor is launched, writes the pointer, removes the marker and restarts the
\* watcher.
LEMMA SupervisorFresh ==
    ASSUME IInv, FreshInv,
           \/ Start \/ Switch \/ RollBack
           \/ UnlinkHealth("unlink", "restart") \/ UnlinkHealth("unlinkBack", "restartBack")
           \/ Restart("restart", "wait") \/ Restart("restartBack", "waitBack")
    PROVE  FreshInv'
<1> USE DEF FreshInv, files
<1>1. watcher \in Processes BY DEF ProcessOK
<1>r. ASSUME NEW p \in Places, NEW q \in Places, At(p), Goto(q) PROVE sup.at = p /\ sup'.at = q
  BY <1>r, AtPlace, GoOn DEF IInv, At, GoesTo
<1>p. /\ {"switch", "unlink", "restart", "wait", "unlinkBack", "restartBack", "waitBack"}
             \subseteq Places
      /\ {"unlink", "restart", "wait"} \cap (Before \cup Back) = {}
      /\ {"unlinkBack", "restartBack", "waitBack"} \cap (Before \cup Forward) = {}
      /\ "switch" \in Before
  BY DEF Places, Landed, Before, Pushed, Forward, Back
<1>2. CASE Start
  <2>1. owed /\ owed' = FALSE /\ UNCHANGED <<watcher, active, health>> BY <1>2 DEF Start
  <2>2. watcher.at # "starting" BY <2>1 DEF ProcessOK
  <2>3. sup'.at \in {sup.at, "install"} BY <1>2 DEF Start
  <2> QED BY <2>1, <2>2, <2>3 DEF ProcessOK, StartingInv, MarkerInv, Telling
<1>3. CASE Switch
  <2>1. At("switch") /\ Goto("unlink") /\ Point(Target) /\ UNCHANGED owed BY <1>3 DEF Switch
  <2>2. sup.at = "switch" /\ sup'.at = "unlink" BY <1>p, <1>r, <2>1
  <2>3. Target \in Commit BY <1>p, <2>1, AtPlace DEF IInv
  <2>4. watcher.at = "starting" => watcher.fresh BY <1>p, <2>2 DEF StartingInv
  <2> QED BY <1>p, <2>1, <2>2, <2>3, <2>4, Pointed DEF StartingInv, MarkerInv
<1>4. CASE RollBack
  <2>1. At("wait") /\ Goto("unlinkBack") /\ Point(sup.previous) /\ UNCHANGED owed
    BY <1>4 DEF RollBack
  <2>2. sup.at = "wait" /\ sup'.at = "unlinkBack" BY <1>p, <1>r, <2>1
  <2>3. sup.previous \in Commit BY <1>p, <2>1, AtPlace DEF IInv
  <2>4. watcher.at = "starting" => watcher.fresh BY <2>2 DEF StartingInv
  <2> QED BY <1>p, <2>1, <2>2, <2>3, <2>4, Pointed DEF StartingInv, MarkerInv
<1>5. ASSUME NEW p \in Places, NEW q \in Places, UnlinkHealth(p, q),
             p \in Forward \cup Back, q \in (Forward \cup Back) \ (Before \cup {"wait"})
      PROVE  FreshInv'
  <2>1. sup.at = p /\ sup'.at = q BY <1>5, <1>r DEF UnlinkHealth
  <2>2. health' = <<>> /\ UNCHANGED <<owed, active, watcher>> BY <1>5 DEF UnlinkHealth
  <2> QED BY <1>5, <2>1, <2>2 DEF ProcessOK, StartingInv, MarkerInv, Telling
<1>6. ASSUME NEW p \in {"restart", "restartBack"}, NEW q \in {"wait", "waitBack"}, Restart(p, q)
      PROVE  FreshInv'
  <2>1. sup.at = p /\ sup'.at = q BY <1>6, <1>p, <1>r DEF Restart
  <2>2. UNCHANGED <<owed, active, health>> BY <1>6 DEF Restart
  <2>3. /\ watcher' \in Processes
        /\ watcher'.runtime = watcher.runtime /\ watcher'.fresh = watcher.fresh
        /\ watcher'.at # "starting"
        /\ watcher.at \in {"up", "draining"} => watcher'.at = "draining"
    BY <1>1, <1>6 DEF Restart, Processes
  <2>4. ProcessOK' /\ StartingInv' BY <2>2, <2>3 DEF ProcessOK, StartingInv
  <2>5. MarkerInv' BY <2>1, <2>2 DEF MarkerInv, Telling
  <2> QED BY <2>4, <2>5
<1>7. CASE UnlinkHealth("unlink", "restart") BY <1>5, <1>7, <1>p DEF Forward, Back
<1>8. CASE UnlinkHealth("unlinkBack", "restartBack") BY <1>5, <1>8, <1>p DEF Forward, Back
<1> QED BY <1>2, <1>3, <1>4, <1>6, <1>7, <1>8

LEMMA StepFresh == IInv /\ FreshInv /\ [Next]_vars => FreshInv'
<1> SUFFICES ASSUME IInv, FreshInv, [Next]_vars PROVE FreshInv' OBVIOUS
<1>1. CASE Launch \/ Mark \/ Exit \/ NotLaunched \/ \E u \in Updates : Request(u)
  BY <1>1, WatcherFresh
<1>2. CASE \/ Start \/ Switch \/ RollBack
           \/ UnlinkHealth("unlink", "restart") \/ UnlinkHealth("unlinkBack", "restartBack")
           \/ Restart("restart", "wait") \/ Restart("restartBack", "waitBack")
  BY <1>2, SupervisorFresh
<1>3. CASE \/ Install \/ ReadRemote \/ Push \/ Promote \/ Merge \/ Merged \/ Repair \/ Repaired
           \/ Reset \/ Verify \/ RestartFails \/ RolledBack \/ Finish \/ Crash
  <2>1. UNCHANGED <<owed, active, health, watcher>>
    BY <1>3 DEF Install, ReadRemote, Push, Promote, Merge, Merged, Repair, Repaired, Reset,
                Verify, RestartFails, RolledBack, Finish, Crash, files
  <2>2. CASE Raise BY <2>1, <2>2, ProcessesAlone DEF Raise, Idle
  <2>3. ASSUME NEW p \in Before, NEW q \in Before, At(p), GoesTo(q) PROVE FreshInv'
    <3>1. sup.at = p /\ sup'.at = q BY <2>3, AtPlace, GoOn DEF IInv, At, Places
    <3> QED BY <2>1, <2>3, <3>1, ProcessesAlone
  <2>4. CASE Verify
    <3>1. At("wait") /\ Goto("finish") BY <2>4 DEF Verify
    <3>2. "wait" \in Places /\ "finish" \in Places BY DEF Places, Landed, Forward
    <3>3. sup'.at = "finish" BY <3>1, <3>2, AtPlace, GoOn DEF IInv, GoesTo
    <3> QED BY <2>1, <3>3, ProcessesAlone
  <2>5. CASE Install \/ ReadRemote \/ Push \/ Promote
    <3>1. Raise \/ \E p, q \in Before : At(p) /\ GoesTo(q)
      BY <2>5 DEF Install, ReadRemote, Push, Promote, GoesTo, Before, Pushed
    <3> QED BY <2>2, <2>3, <3>1
  <2>6. CASE Merge \/ Merged \/ Repair \/ Repaired
    <3>1. Raise \/ \E p, q \in Before : At(p) /\ GoesTo(q)
      BY <2>6 DEF Merge, Merged, Repair, Repaired, GoesTo, Goto, Raise, Before, Pushed
    <3> QED BY <2>2, <2>3, <3>1
  <2> QED BY <1>3, <2>2, <2>4, <2>5, <2>6 DEF Reset, RestartFails, RolledBack, Finish, Crash
<1>4. CASE \/ DevEdit \/ DevCommit \/ DevSwitch \/ OthersPush \/ (\E u \in Updates : Offer(u))
           \/ UNCHANGED vars
  <2>1. UNCHANGED <<owed, active, health, watcher, sup>>
    BY <1>4 DEF DevEdit, DevCommit, DevSwitch, OthersPush, Offer, Acts, files, vars
  <2> QED BY <2>1, ProcessesAlone
<1> QED BY <1>1, <1>2, <1>3, <1>4 DEF Next, Supervisor

\* A verdict of the supervisor is about the runtime that runs: a watcher started after
\* the pointer was written has reported the runtime it names healthy.
THEOREM VerdictsObserved == Spec => VerdictIsObserved
<1> DEFINE Inv == IInv /\ FreshInv /\ journal \in Journals
<1>1. Init => Inv
  <2>1. Init => journal \in Journals BY DEF Init, Journals
  <2> QED BY <2>1, InitInv, InitFresh
<1>2. Inv /\ [Next]_vars => Inv' BY ActionInv, StepFresh, JournalStep
<1>3. ASSUME Inv
      PROVE  [(Verify \/ (RolledBack /\ journal'.status = "rolled-back")) =>
                 /\ health # <<>> /\ health.fresh
                 /\ health.runtime = active]_vars
  <2>1. ASSUME Verify PROVE health # <<>> /\ health.fresh /\ health.runtime = active
    <3>1. At("wait") /\ Healthy(Target) BY <2>1 DEF Verify
    <3>2. active = Target BY <1>3, <3>1 DEF IInv, VerifiedInv, Forward, At
    <3> QED BY <1>3, <3>1, <3>2 DEF FreshInv, MarkerInv, Telling, Healthy, At
  <2>2. ASSUME RolledBack, journal'.status = "rolled-back"
        PROVE  health # <<>> /\ health.fresh /\ health.runtime = active
    <3>1. At("waitBack") BY <2>2 DEF RolledBack
    <3>2. Healthy(sup.previous)
      <4> DEFINE status == IF Healthy(sup.previous) THEN "rolled-back"
                           ELSE "rollback-health-failed"
      <4>1. journal' = [journal EXCEPT !.status = status] BY <2>2 DEF RolledBack
      <4> HIDE DEF status
      <4>2. journal'.status = status BY <1>3, <4>1 DEF Journals
      <4> QED BY <2>2, <4>2 DEF status
    <3>3. active = sup.previous BY <1>3, <3>1 DEF IInv, VerifiedInv, Back, At
    <3> QED BY <1>3, <3>1, <3>2, <3>3 DEF FreshInv, MarkerInv, Telling, Healthy, At
  <2> QED BY <2>1, <2>2
<1> QED BY <1>1, <1>2, <1>3, PTL DEF Spec, VerdictIsObserved

-----------------------------------------------------------------------------
(***************************************************************************)
(* Consolidation, to the end of the module.  First, sequences of actions:  *)
(* what comes before what, and that nothing comes twice.                   *)
(***************************************************************************)
Precedes(x, y, s) == \A i, j \in DOMAIN s : s[i] = x /\ s[j] = y => i < j
Distinct(s) == \A i, j \in DOMAIN s : s[i] = s[j] => i = j

LEMMA InSequence ==
    ASSUME NEW S, NEW s \in Seq(S)
    PROVE  ToSet(s) = {s[i] : i \in 1 .. Len(s)} /\ ToSet(s) \subseteq S
BY LenProperties DEF ToSet

LEMMA TakenFirst ==
    ASSUME NEW S, NEW s \in Seq(S), s # <<>>
    PROVE  /\ Head(s) \in S /\ Tail(s) \in Seq(S) /\ Head(s) \in ToSet(s)
           /\ ToSet(s) = {Head(s)} \cup ToSet(Tail(s))
           /\ \A x, y : Precedes(x, y, s) => Precedes(x, y, Tail(s))
           /\ \A x : Precedes(x, Head(s), s) => x \notin ToSet(s)
           /\ Distinct(s) => Distinct(Tail(s)) /\ Head(s) \notin ToSet(Tail(s))
<1> DEFINE t == Tail(s)
<1>1. /\ Head(s) \in S /\ t \in Seq(S) /\ Len(t) = Len(s) - 1
      /\ \A i \in 1 .. Len(t) : t[i] = s[i + 1]
  BY HeadTailProperties
<1>2. Len(s) \in Nat /\ DOMAIN s = 1 .. Len(s) /\ Len(s) # 0 BY LenProperties, EmptySeq
<1>3. Len(t) \in Nat /\ DOMAIN t = 1 .. Len(t) BY <1>1, LenProperties
<1>4. Head(s) = s[1] OBVIOUS
<1> HIDE DEF t
<1>5. 1 \in DOMAIN s /\ \A i \in DOMAIN t : i + 1 \in DOMAIN s BY <1>1, <1>2, <1>3
<1>6. \A j \in DOMAIN s : j = 1 \/ (j - 1 \in DOMAIN t /\ s[j] = t[j - 1]) BY <1>1, <1>2, <1>3
<1>7. ToSet(s) = {Head(s)} \cup ToSet(t)
  <2>1. ToSet(s) \subseteq {Head(s)} \cup ToSet(t) BY <1>4, <1>6 DEF ToSet
  <2>2. {Head(s)} \cup ToSet(t) \subseteq ToSet(s) BY <1>1, <1>3, <1>4, <1>5 DEF ToSet
  <2> QED BY <2>1, <2>2
<1>8. ASSUME NEW x, NEW y, Precedes(x, y, s) PROVE Precedes(x, y, t)
  <2> SUFFICES ASSUME NEW i \in DOMAIN t, NEW j \in DOMAIN t, t[i] = x, t[j] = y PROVE i < j
    BY DEF Precedes
  <2>1. i + 1 \in DOMAIN s /\ j + 1 \in DOMAIN s /\ s[i + 1] = x /\ s[j + 1] = y
    BY <1>1, <1>3, <1>5
  <2>2. i + 1 < j + 1 BY <1>8, <2>1 DEF Precedes
  <2> QED BY <2>2, <1>3
<1>9. ASSUME NEW x, Precedes(x, Head(s), s) PROVE x \notin ToSet(s)
  <2>1. \A i \in DOMAIN s : s[i] = x => i < 1 BY <1>9, <1>4, <1>5 DEF Precedes
  <2> QED BY <2>1, <1>2 DEF ToSet
<1>10. ASSUME Distinct(s) PROVE Distinct(t) /\ Head(s) \notin ToSet(t)
  <2>1. ASSUME NEW i \in DOMAIN t, NEW j \in DOMAIN t, t[i] = t[j] PROVE i = j
    <3>1. s[i + 1] = s[j + 1] BY <1>1, <1>3, <2>1
    <3>2. i + 1 = j + 1 BY <1>10, <1>5, <3>1 DEF Distinct
    <3> QED BY <3>2, <1>3
  <2>2. ASSUME NEW i \in DOMAIN t, t[i] = Head(s) PROVE FALSE
    <3>1. s[i + 1] = s[1] BY <1>1, <1>3, <1>4, <2>2
    <3>2. i + 1 = 1 BY <1>10, <1>5, <3>1 DEF Distinct
    <3> QED BY <3>2, <1>3
  <2> QED BY <2>1, <2>2 DEF Distinct, ToSet
<1> QED BY <1>1, <1>7, <1>8, <1>9, <1>10 DEF t

LEMMA Appended ==
    ASSUME NEW S, NEW s \in Seq(S), NEW e \in S
    PROVE  /\ Append(s, e) \in Seq(S) /\ ToSet(Append(s, e)) = ToSet(s) \cup {e}
           /\ \A x, y : Precedes(x, y, s) /\ x # y /\ (e = x => y \notin ToSet(s))
                        => Precedes(x, y, Append(s, e))
<1> DEFINE t == Append(s, e)
<1>1. /\ t \in Seq(S) /\ Len(t) = Len(s) + 1 /\ \A i \in 1 .. Len(s) : t[i] = s[i]
      /\ t[Len(s) + 1] = e
  BY AppendProperties
<1>2. Len(s) \in Nat /\ DOMAIN s = 1 .. Len(s) BY LenProperties
<1> HIDE DEF t
<1>3. DOMAIN t = 1 .. Len(s) + 1 BY <1>1, LenProperties
<1>4. \A i \in DOMAIN t : (i \in DOMAIN s /\ t[i] = s[i]) \/ (i = Len(s) + 1 /\ t[i] = e)
  BY <1>1, <1>2, <1>3
<1>5. ToSet(t) = ToSet(s) \cup {e}
  <2>1. ToSet(t) \subseteq ToSet(s) \cup {e} BY <1>4 DEF ToSet
  <2>2. ToSet(s) \subseteq ToSet(t) BY <1>1, <1>2, <1>3 DEF ToSet
  <2>3. e \in ToSet(t) BY <1>1, <1>2, <1>3 DEF ToSet
  <2> QED BY <2>1, <2>2, <2>3
<1>6. ASSUME NEW x, NEW y, Precedes(x, y, s), x # y, e = x => y \notin ToSet(s),
             NEW i \in DOMAIN t, NEW j \in DOMAIN t, t[i] = x, t[j] = y
      PROVE  i < j
  <2>1. CASE i \in DOMAIN s /\ j \in DOMAIN s BY <2>1, <1>1, <1>2, <1>6 DEF Precedes
  <2>2. CASE i \in DOMAIN s /\ j = Len(s) + 1 BY <2>2, <1>2
  <2>3. CASE i = Len(s) + 1 /\ j \in DOMAIN s
    <3>1. e = x /\ y = s[j] BY <2>3, <1>1, <1>2, <1>6
    <3> QED BY <3>1, <2>3, <1>6 DEF ToSet
  <2>4. CASE i = Len(s) + 1 /\ j = Len(s) + 1 BY <2>4, <1>6
  <2> QED BY <1>4, <2>1, <2>2, <2>3, <2>4
<1> QED BY <1>1, <1>5, <1>6 DEF t, Precedes

LEMMA TurnedRound ==
    ASSUME NEW S, NEW s \in Seq(S)
    PROVE  /\ Reverse(s) \in Seq(S) /\ ToSet(Reverse(s)) = ToSet(s)
           /\ \A x, y : Precedes(x, y, s) => Precedes(y, x, Reverse(s))
<1> DEFINE t == Reverse(s)
<1>1. Len(s) \in Nat /\ DOMAIN s = 1 .. Len(s) /\ \A i \in 1 .. Len(s) : s[i] \in S
  BY LenProperties
<1>2. t = [i \in 1 .. Len(s) |-> s[(Len(s) - i) + 1]] BY DEF Reverse
<1>3. \A i \in 1 .. Len(s) : (Len(s) - i) + 1 \in 1 .. Len(s) BY <1>1
<1>4. t \in Seq(S) BY <1>1, <1>2, <1>3, IsASeq
<1> HIDE DEF t
<1>5. DOMAIN t = 1 .. Len(s) /\ \A i \in DOMAIN t : t[i] = s[(Len(s) - i) + 1] BY <1>2
<1>6. \A i \in DOMAIN s : s[i] = t[(Len(s) - i) + 1] BY <1>1, <1>3, <1>5
<1>7. ToSet(t) = ToSet(s) BY <1>1, <1>3, <1>5, <1>6 DEF ToSet
<1>8. ASSUME NEW x, NEW y, Precedes(x, y, s), NEW i \in DOMAIN t, NEW j \in DOMAIN t,
             t[i] = y, t[j] = x
      PROVE  i < j
  <2>1. (Len(s) - j) + 1 < (Len(s) - i) + 1 BY <1>1, <1>3, <1>5, <1>8 DEF Precedes
  <2> QED BY <2>1, <1>1, <1>5
<1> QED BY <1>4, <1>7, <1>8 DEF t, Precedes

LEMMA Joined ==
    ASSUME NEW S, NEW s \in Seq(S), NEW t \in Seq(S)
    PROVE  /\ s \o t \in Seq(S) /\ ToSet(s \o t) = ToSet(s) \cup ToSet(t)
           /\ Distinct(s) /\ Distinct(t) /\ ToSet(s) \cap ToSet(t) = {} => Distinct(s \o t)
           /\ \A x, y : /\ Precedes(x, y, s) /\ Precedes(x, y, t)
                        /\ ~(x \in ToSet(t) /\ y \in ToSet(s))
                        => Precedes(x, y, s \o t)
<1> DEFINE u == s \o t
<1>1. /\ u \in Seq(S) /\ Len(u) = Len(s) + Len(t)
      /\ \A i \in 1 .. Len(s) + Len(t) : u[i] = IF i <= Len(s) THEN s[i] ELSE t[i - Len(s)]
  BY ConcatProperties
<1>2. /\ Len(s) \in Nat /\ DOMAIN s = 1 .. Len(s)
      /\ Len(t) \in Nat /\ DOMAIN t = 1 .. Len(t)
  BY LenProperties
<1>3. DOMAIN u = 1 .. Len(s) + Len(t) BY <1>1, LenProperties
<1> HIDE DEF u
<1>4. ASSUME NEW i \in DOMAIN u
      PROVE  \/ i \in DOMAIN s /\ u[i] = s[i]
             \/ i - Len(s) \in DOMAIN t /\ u[i] = t[i - Len(s)] /\ i > Len(s)
  BY <1>1, <1>2, <1>3
<1>5. ToSet(u) = ToSet(s) \cup ToSet(t)
  <2>1. ToSet(u) \subseteq ToSet(s) \cup ToSet(t) BY <1>4 DEF ToSet
  <2>2. ToSet(s) \subseteq ToSet(u) BY <1>1, <1>2, <1>3 DEF ToSet
  <2>3. ASSUME NEW j \in DOMAIN t PROVE t[j] \in ToSet(u)
    <3>1. j + Len(s) \in DOMAIN u /\ u[j + Len(s)] = t[j] BY <1>1, <1>2, <1>3
    <3> QED BY <3>1 DEF ToSet
  <2>4. ToSet(t) \subseteq ToSet(u) BY <2>3 DEF ToSet
  <2> QED BY <2>1, <2>2, <2>4
<1>6. ASSUME Distinct(s), Distinct(t), ToSet(s) \cap ToSet(t) = {},
             NEW i \in DOMAIN u, NEW j \in DOMAIN u, u[i] = u[j]
      PROVE  i = j
  <2>1. CASE i \in DOMAIN s /\ u[i] = s[i] /\ j \in DOMAIN s /\ u[j] = s[j]
    BY <2>1, <1>6 DEF Distinct
  <2>2. CASE /\ i - Len(s) \in DOMAIN t /\ u[i] = t[i - Len(s)]
            /\ j - Len(s) \in DOMAIN t /\ u[j] = t[j - Len(s)]
    <3>1. i - Len(s) = j - Len(s) BY <2>2, <1>6 DEF Distinct
    <3> QED BY <3>1, <1>2, <1>3
  <2>3. \A m \in DOMAIN s, n \in DOMAIN t : s[m] # t[n] BY <1>6 DEF ToSet
  <2> QED BY <2>1, <2>2, <2>3, <1>4, <1>6
<1>7. ASSUME NEW x, NEW y, Precedes(x, y, s), Precedes(x, y, t),
             ~(x \in ToSet(t) /\ y \in ToSet(s)),
             NEW i \in DOMAIN u, NEW j \in DOMAIN u, u[i] = x, u[j] = y
      PROVE  i < j
  <2>1. CASE i \in DOMAIN s /\ u[i] = s[i] /\ j \in DOMAIN s /\ u[j] = s[j]
    BY <2>1, <1>7 DEF Precedes
  <2>2. CASE i \in DOMAIN s /\ u[i] = s[i] /\ j > Len(s) BY <2>2, <1>2, <1>3
  <2>3. CASE i - Len(s) \in DOMAIN t /\ u[i] = t[i - Len(s)] /\ j \in DOMAIN s /\ u[j] = s[j]
    BY <2>3, <1>7 DEF ToSet
  <2>4. CASE /\ i - Len(s) \in DOMAIN t /\ u[i] = t[i - Len(s)]
            /\ j - Len(s) \in DOMAIN t /\ u[j] = t[j - Len(s)]
    <3>1. i - Len(s) < j - Len(s) BY <2>4, <1>7 DEF Precedes
    <3> QED BY <3>1, <1>2, <1>3
  <2> QED BY <1>4, <2>1, <2>2, <2>3, <2>4
<1> QED BY <1>1, <1>5, <1>6, <1>7 DEF u, Distinct, Precedes

\* The registration files are archived in some order, each once.
LEMMA Enumerated ==
    ASSUME NEW S, IsFiniteSet(S)
    PROVE  SetToSeq(S) \in Seq(S) /\ ToSet(SetToSeq(S)) = S /\ Distinct(SetToSeq(S))
<1> DEFINE n == Cardinality(S)
           f == SetToSeq(S)
<1>1. n \in Nat /\ ExistsBijection(1 .. n, S) BY FS_CardinalityType
<1>2. PICK g \in Bijection(1 .. n, S) : TRUE BY <1>1 DEF ExistsBijection
<1>3. g \in [1 .. n -> S] /\ IsInjective(g)
  BY <1>2 DEF Bijection, Injection, IsInjective
<1>4. f \in [1 .. n -> S] /\ IsInjective(f) BY <1>3 DEF SetToSeq
<1> HIDE DEF f
<1>5. f \in Injection(1 .. n, S) BY <1>4 DEF Injection, IsInjective
<1>6. IsFiniteSet(1 .. n) /\ Cardinality(1 .. n) = n BY <1>1, FS_Interval
<1> HIDE DEF n
<1>7. f \in Surjection(1 .. n, S) BY <1>5, <1>6, FS_Injection DEF n
<1>8. ToSet(f) = S BY <1>7, <1>4 DEF Surjection, ToSet
<1>9. f \in Seq(S) BY <1>1, <1>4 DEF n
<1>10. Distinct(f) BY <1>4 DEF IsInjective, Distinct
<1> QED BY <1>8, <1>9, <1>10 DEF f

-----------------------------------------------------------------------------
(***************************************************************************)
(* Types.  A script is at rest, stops services, or works through a         *)
(* sequence of actions, forward or back.                                   *)
(***************************************************************************)
Kinds == {Absent, "plist", "dir", "link", "new", "newdir"}
Actions ==
    [kind : {"archive"}, path : Files] \cup [kind : {"create", "remove", "mkdir"}, path : Paths]
    \cup [kind : {"rename"}, path : Paths, to : Paths]
StopPlaces == {"stop", "bootout", "unload", "stopped"}
FilePlaces == {"step", "effect", "enable", "bootstrap", "verify", "complete", "undo"}
StopScripts == [at : StopPlaces, up : SUBSET Labels, loaded : SUBSET Labels,
                label : Labels \cup {Absent}, todo : SUBSET Labels]
FileScripts == [at : FilePlaces, todo : Seq(Actions)]
RunDirectories == [before : [Paths -> Kinds], actions : Seq(Actions)]

USE DEF MailboxPaths, RunDirectories

ScriptTyped ==
    /\ script = NoScript \/ script \in StopScripts \/ script \in FileScripts
    /\ script.at \in {"step", "effect"} => script.todo # <<>>

RunTyped ==
    \/ run = Nothing /\ script = NoScript
    \/ run \in RunDirectories /\ run # Nothing

MigrationTyped == ConsolidationTypeOK /\ ScriptTyped /\ RunTyped

LEMMA Shapes ==
    ASSUME ScriptTyped
    PROVE  /\ script.at = "idle" <=> script = NoScript
           /\ script.at \in StopPlaces <=> script \in StopScripts
           /\ script.at \in FilePlaces <=> script \in FileScripts
           /\ script.at \in {"idle"} \cup StopPlaces \cup FilePlaces
BY DEF ScriptTyped, NoScript, StopScripts, FileScripts, StopPlaces, FilePlaces

\* A script goes on to another place of its kind.
LEMMA Advances ==
    ASSUME NEW p
    PROVE  /\ script \in StopScripts /\ p \in StopPlaces
              => [script EXCEPT !.at = p] \in StopScripts /\ [script EXCEPT !.at = p].at = p
                 /\ [script EXCEPT !.at = p].todo = script.todo
           /\ script \in FileScripts /\ p \in FilePlaces
              => [script EXCEPT !.at = p] \in FileScripts /\ [script EXCEPT !.at = p].at = p
                 /\ [script EXCEPT !.at = p].todo = script.todo
BY DEF StopScripts, FileScripts

LEMMA Displacing ==
    /\ CanonicalSteps \in Seq(Actions) /\ LegacySteps \in Seq(Actions)
    /\ <<[kind |-> "create", path |-> "canonical"]>> \in Seq(Actions)
    /\ <<[kind |-> "mkdir", path |-> "legacy"], [kind |-> "create", path |-> "shim"],
         [kind |-> "create", path |-> KeeperFile]>> \in Seq(Actions)
<1> DEFINE act(k, p) == [kind |-> k, path |-> p]
           move(p, q) == [kind |-> "rename", path |-> p, to |-> q]
<1>1. /\ act("remove", "canonical") \in Actions /\ act("create", "canonical") \in Actions
      /\ act("mkdir", "legacy") \in Actions /\ act("create", "shim") \in Actions
      /\ act("create", KeeperFile) \in Actions
  BY LabelsAssumption DEF Actions, Paths
<1>2. move("canonical", "aside") \in Actions /\ move("legacy", "legacyAside") \in Actions
  BY DEF Actions, Paths
<1>3. ASSUME NEW S, NEW a \in S, NEW b \in S, NEW c \in S
      PROVE  <<>> \in Seq(S) /\ <<a>> \in Seq(S) /\ <<a, b, c>> \in Seq(S)
  OBVIOUS
<1> HIDE DEF act, move
<1>4. <<>> \in Seq(Actions) /\ (\A a \in Actions : <<a>> \in Seq(Actions))
      /\ \A a, b, c \in Actions : <<a, b, c>> \in Seq(Actions)
  BY <1>1, <1>3
<1>5. CanonicalSteps \in Seq(Actions)
  BY <1>1, <1>2, <1>4 DEF CanonicalSteps, act, move
<1>6. LegacySteps \in Seq(Actions)
  BY <1>2, <1>4 DEF LegacySteps, move
<1> QED BY <1>1, <1>4, <1>5, <1>6 DEF act

LEMMA StepsTyped == Steps \in Seq(Actions) /\ Steps # <<>>
<1> DEFINE one == <<[kind |-> "create", path |-> "canonical"]>>
           three == <<[kind |-> "mkdir", path |-> "legacy"], [kind |-> "create", path |-> "shim"],
                      [kind |-> "create", path |-> KeeperFile]>>
<1>1. ArchiveSteps \in Seq(Actions)
  <2> DEFINE A == {[kind |-> "archive", path |-> f] : f \in Files}
  <2>1. IsFiniteSet(A)
    <3> DEFINE g == [f \in Files |-> [kind |-> "archive", path |-> f]]
    <3>1. g \in Surjection(Files, A) BY DEF Surjection
    <3> HIDE DEF g, A
    <3> QED BY <3>1, LabelsAssumption, FS_Surjection
  <2>2. A \subseteq Actions BY DEF Actions
  <2>3. SetToSeq(A) \in Seq(A) BY <2>1, Enumerated
  <2> HIDE DEF A
  <2>4. SetToSeq(A) \in Seq(Actions) BY <2>2, <2>3, SeqMonotonic
  <2> QED BY <2>4 DEF ArchiveSteps, A
<1>2. CanonicalSteps \in Seq(Actions) /\ LegacySteps \in Seq(Actions)
      /\ one \in Seq(Actions) /\ three \in Seq(Actions)
  BY Displacing
<1>3. Steps = (((ArchiveSteps \o CanonicalSteps) \o one) \o LegacySteps) \o three
  BY DEF Steps
<1>4. Len(three) = 3 OBVIOUS
<1> HIDE DEF one, three
<1>5. ArchiveSteps \o CanonicalSteps \in Seq(Actions) BY <1>1, <1>2, ConcatProperties
<1>6. (ArchiveSteps \o CanonicalSteps) \o one \in Seq(Actions) BY <1>2, <1>5, ConcatProperties
<1>7. ((ArchiveSteps \o CanonicalSteps) \o one) \o LegacySteps \in Seq(Actions)
  BY <1>2, <1>6, ConcatProperties
<1>8. Steps \in Seq(Actions)
      /\ Len(Steps) = Len(((ArchiveSteps \o CanonicalSteps) \o one) \o LegacySteps) + Len(three)
  BY <1>2, <1>3, <1>7, ConcatProperties
<1>9. Len(Steps) # 0 BY <1>4, <1>7, <1>8, LenProperties
<1> QED BY <1>8, <1>9, EmptySeq

\* What an action does, and what its reversal does, to the files.
LEMMA FilesTyped ==
    ASSUME fs \in [Paths -> Kinds], NEW a \in Actions
    PROVE  Applied(a) \in [Paths -> Kinds] /\ Reversed(a) \in [Paths -> Kinds]
<1>1. a.path \in Paths /\ a.kind \in {"archive", "create", "remove", "mkdir", "rename"}
      /\ (a.kind = "rename" => a.to \in Paths)
  BY DEF Actions, Paths
<1>2. fs[a.path] \in Kinds /\ (a.kind = "rename" => fs[a.to] \in Kinds) BY <1>1
<1>3. CASE a.kind \in {"archive", "remove"} BY <1>1, <1>2, <1>3 DEF Applied, Reversed, Kinds
<1>4. CASE a.kind = "create" BY <1>1, <1>2, <1>4 DEF Applied, Reversed, Kinds
<1>5. CASE a.kind = "mkdir" BY <1>1, <1>2, <1>5 DEF Applied, Reversed, Kinds
<1>6. CASE a.kind = "rename" BY <1>1, <1>2, <1>6 DEF Applied, Reversed, Kinds
<1> QED BY <1>1, <1>3, <1>4, <1>5, <1>6

LEMMA InitTyped == ConsolidationInit => MigrationTyped
<1> SUFFICES ASSUME ConsolidationInit PROVE MigrationTyped OBVIOUS
<1>1. fs \in [Paths -> Kinds] BY DEF ConsolidationInit, Kinds
<1>2. job \in [Labels -> Programs] /\ proc \in [Labels -> Programs]
  BY DEF ConsolidationInit, Programs
<1>3. ConsolidationTypeOK BY <1>1, <1>2 DEF ConsolidationInit, ConsolidationTypeOK, Kinds, Up
<1>4. ScriptTyped /\ RunTyped BY DEF ConsolidationInit, ScriptTyped, RunTyped, NoScript
<1> QED BY <1>3, <1>4 DEF MigrationTyped

\* The steps of launchd and the daemons leave the script alone.
DaemonStep(l) == Spawn(l) \/ Admit(l) \/ Proceed(l) \/ Drained(l) \/ Die(l)

LEMMA Ends ==
    ASSUME ConsolidationTypeOK, NEW l \in Labels, End(l)
    PROVE  /\ proc' \in [Labels -> Programs] /\ draining' \subseteq Up' /\ seen' \subseteq Up'
           /\ work' \in [Labels -> {Absent, "running", "approval", "orphan", "unfinished"}]
           /\ Up' = Up \ {l}
<1>1. Up' = Up \ {l} BY DEF ConsolidationTypeOK, End, Up, Programs
<1> QED BY <1>1 DEF ConsolidationTypeOK, End, Programs, Absent

LEMMA DaemonTyped ==
    ASSUME MigrationTyped, NEW l \in Labels, DaemonStep(l)
    PROVE  /\ MigrationTyped' /\ UNCHANGED <<fs, launchd, script, run, released>>
<1> USE DEF MigrationTyped
<1>1. UNCHANGED <<fs, launchd, script, run, released>>
  BY DEF DaemonStep, Spawn, Admit, Proceed, Drained, Die
<1>2. ScriptTyped' /\ RunTyped' BY <1>1 DEF ScriptTyped, RunTyped
<1>3. ConsolidationTypeOK'
  <2> DEFINE stages == {Absent, "running", "approval", "orphan", "unfinished"}
  <2> SUFFICES /\ proc' \in [Labels -> Programs] /\ work' \in [Labels -> stages]
               /\ draining' \subseteq Up' /\ seen' \subseteq Up'
    BY <1>1 DEF ConsolidationTypeOK, launchd
  <2>1. CASE Spawn(l)
    <3>1. Up' = Up \cup {l} BY <2>1 DEF Spawn, Up, ConsolidationTypeOK
    <3>2. work' \in [Labels -> stages] BY <2>1 DEF Spawn, ConsolidationTypeOK
    <3> QED BY <2>1, <3>1, <3>2 DEF Spawn, ConsolidationTypeOK
  <2>2. CASE Admit(l)
    <3>1. Up' = Up BY <2>2 DEF Admit, Up
    <3>2. work' \in [Labels -> stages] BY <2>2 DEF Admit, ConsolidationTypeOK
    <3> QED BY <2>2, <3>1, <3>2 DEF Admit, ConsolidationTypeOK
  <2>3. CASE Proceed(l)
    <3>1. Up' = Up BY <2>3 DEF Proceed, Up
    <3>2. work' \in [Labels -> stages] BY <2>3 DEF Proceed, ConsolidationTypeOK
    <3> QED BY <2>3, <3>1, <3>2 DEF Proceed, ConsolidationTypeOK
  <2>4. CASE Drained(l) BY <2>4, Ends DEF Drained
  <2>5. CASE Die(l) BY <2>5, Ends DEF Die
  <2> QED BY <2>1, <2>2, <2>3, <2>4, <2>5 DEF DaemonStep
<1> QED BY <1>1, <1>2, <1>3

LEMMA RebootTyped == MigrationTyped /\ Reboot => MigrationTyped'
<1> SUFFICES ASSUME MigrationTyped, Reboot PROVE MigrationTyped' OBVIOUS
<1> USE DEF MigrationTyped
<1>1. ConsolidationTypeOK' BY DEF Reboot, ConsolidationTypeOK, Programs
<1>2. ScriptTyped' /\ RunTyped' BY DEF Reboot, ScriptTyped, RunTyped, NoScript
<1> QED BY <1>1, <1>2

\* A script that ends, and one that goes on, leave the rest typed.
LEMMA ScriptStep ==
    ASSUME MigrationTyped, UNCHANGED <<proc, draining, work, seen>>,
           fs' \in [Paths -> Kinds], job' \in [Labels -> Programs], disabled' \subseteq Labels,
           released' \in BOOLEAN,
           run' = run \/ (run' \in RunDirectories /\ run' # Nothing),
           script' = NoScript
             \/ ((script' \in StopScripts \/ script' \in FileScripts) /\ run' # Nothing),
           script'.at \in {"step", "effect"} => script'.todo # <<>>
    PROVE  MigrationTyped'
<1> USE DEF MigrationTyped
<1>1. ConsolidationTypeOK' BY DEF ConsolidationTypeOK, Up, Kinds
<1>2. ScriptTyped' BY DEF ScriptTyped
<1>3. RunTyped' BY DEF RunTyped
<1> QED BY <1>1, <1>2, <1>3

LEMMA Holds ==
    ASSUME MigrationTyped, Hold, UNCHANGED <<fs, launchd, proc, draining, work, seen, run>>,
           released' = released
    PROVE  MigrationTyped'
BY DEF MigrationTyped, ConsolidationTypeOK, ScriptTyped, RunTyped, Up, Hold, NoScript, launchd

LEMMA HasRun ==
    ASSUME MigrationTyped, ~ScriptAt("idle")
    PROVE  /\ run # Nothing /\ run \in RunDirectories
           /\ run.actions \in Seq(Actions)
BY DEF MigrationTyped, RunTyped, ScriptAt, NoScript

LEMMA MigrateTyped ==
    ASSUME MigrationTyped, Migrate \/ StandDown \/ Rollback \/ Undo \/ Restored \/ ScriptDies
    PROVE  MigrationTyped'
<1> DEFINE Basics == /\ fs \in [Paths -> Kinds] /\ job \in [Labels -> Programs]
                     /\ disabled \subseteq Labels /\ released \in BOOLEAN
<1>1. Basics BY DEF MigrationTyped, ConsolidationTypeOK, Kinds
<1>2. ScriptTyped BY DEF MigrationTyped
<1>3. CASE Begin
  <2>1. script' \in StopScripts
    BY <1>3, LabelsAssumption DEF Begin, StopScripts, StopPlaces, Up, Loaded
  <2>2. run' \in RunDirectories /\ run' # Nothing
    <3>1. <<>> \in Seq(Actions) OBVIOUS
    <3>2. run' = [before |-> fs, actions |-> <<>>] BY <1>3 DEF Begin
    <3> QED BY <3>1, <3>2, <1>1 DEF Nothing
  <2>3. script'.at = "stop" BY <1>3 DEF Begin
  <2>4. ConsolidationTypeOK'
    BY <1>3 DEF Begin, MigrationTyped, ConsolidationTypeOK, launchd, Up
  <2>5. ScriptTyped' /\ RunTyped' BY <2>1, <2>2, <2>3 DEF ScriptTyped, RunTyped
  <2> QED BY <2>4, <2>5 DEF MigrationTyped
<1>4. CASE Disable
  <2>1. PICK l \in script.todo :
          /\ disabled' = IF l = Keeper THEN disabled ELSE disabled \cup {l}
          /\ script' = [script EXCEPT !.at = "bootout", !.label = l, !.todo = @ \ {l}]
    BY <1>4 DEF Disable
  <2>2. script \in StopScripts BY <1>2, <1>4, Shapes DEF Disable, ScriptAt, StopPlaces
  <2>3. script' \in StopScripts /\ script'.at = "bootout" /\ l \in Labels
    BY <2>1, <2>2 DEF StopScripts, StopPlaces
  <2>4. run' # Nothing BY <1>4, HasRun DEF Disable, ScriptAt
  <2> QED BY <1>1, <1>4, <2>1, <2>3, <2>4, ScriptStep DEF Disable, daemons
<1>5. CASE Bootout
  <2>1. script \in StopScripts BY <1>2, <1>5, Shapes DEF Bootout, ScriptAt, StopPlaces
  <2>2. script' \in StopScripts /\ script'.at = "unload"
    BY <2>1, <1>5, Advances DEF Bootout, ScriptGoes, StopPlaces
  <2>3. run' = run /\ run # Nothing BY <1>5, HasRun DEF Bootout, ScriptAt
  <2>4. job' \in [Labels -> Programs] BY <1>1, <1>5 DEF Bootout, Programs
  <2>5. draining' \subseteq Up
    BY <1>5, <2>1 DEF Bootout, MigrationTyped, ConsolidationTypeOK, Up, StopScripts, Programs,
       Absent
  <2>6. ConsolidationTypeOK'
    BY <1>5, <2>4, <2>5 DEF Bootout, MigrationTyped, ConsolidationTypeOK, Up
  <2>7. ScriptTyped' /\ RunTyped'
    BY <2>2, <2>3 DEF ScriptTyped, RunTyped, MigrationTyped
  <2> QED BY <2>6, <2>7 DEF MigrationTyped
<1>6. CASE Stopped
  <2>1. CASE Hold BY <1>6, <2>1, Holds DEF Stopped, daemons
  <2>2. CASE ScriptGoes(IF script.todo = {} THEN "stopped" ELSE "stop")
    <3>1. script \in StopScripts BY <1>2, <1>6, Shapes DEF Stopped, ScriptAt, StopPlaces
    <3>2. script' \in StopScripts /\ script'.at \in {"stop", "stopped"}
      BY <2>2, <3>1, Advances DEF ScriptGoes, StopPlaces
    <3>3. run' = run /\ run # Nothing BY <1>6, HasRun DEF Stopped, ScriptAt
    <3> QED BY <1>1, <1>6, <3>2, <3>3, ScriptStep DEF Stopped, daemons, launchd
  <2> QED BY <1>6, <2>1, <2>2 DEF Stopped
<1>7. CASE AfterStop
  <2>1. CASE Hold BY <1>7, <2>1, Holds DEF AfterStop, daemons
  <2>2. CASE script' = [at |-> "step", todo |-> Steps]
    <3>1. script' \in FileScripts /\ script'.at = "step" /\ script'.todo # <<>>
      BY <2>2, StepsTyped DEF FileScripts, FilePlaces
    <3>2. run' = run /\ run # Nothing BY <1>7, HasRun DEF AfterStop, ScriptAt
    <3> QED BY <1>1, <1>7, <3>1, <3>2, ScriptStep DEF AfterStop, daemons, launchd
  <2> QED BY <1>7, <2>1, <2>2 DEF AfterStop
<1>8. ASSUME ScriptAt("step") \/ ScriptAt("effect"), Recorded \/ Effected,
             UNCHANGED <<launchd, daemons, released>>,
             script' \in FileScripts, script'.at \in {"step", "effect"} => script'.todo # <<>>
      PROVE  MigrationTyped'
  <2>1. script \in FileScripts /\ script.todo # <<>>
    BY <1>2, <1>8, Shapes DEF ScriptAt, FilePlaces, ScriptTyped
  <2>2. Head(script.todo) \in Actions
    <3>1. script.todo \in Seq(Actions) BY <2>1 DEF FileScripts
    <3> QED BY <2>1, <3>1, HeadTailProperties
  <2>3. /\ run # Nothing /\ run \in RunDirectories
        /\ run.actions \in Seq(Actions)
    BY <1>8, HasRun DEF ScriptAt
  <2>4. fs' \in [Paths -> Kinds] BY <1>1, <1>8, <2>2, FilesTyped DEF Recorded, Effected
  <2>5. run' \in RunDirectories /\ run' # Nothing
    <3>1. CASE Effected BY <3>1, <2>3 DEF Effected
    <3>2. CASE Recorded
      <4>1. Append(run.actions, Head(script.todo)) \in Seq(Actions)
        BY <2>2, <2>3, AppendProperties
      <4>2. run' = [run EXCEPT !.actions = Append(run.actions, Head(script.todo))]
        BY <3>2 DEF Recorded
      <4>3. PICK a \in Seq(Actions) : a = Append(run.actions, Head(script.todo)) BY <4>1
      <4>4. run' = [before |-> run.before, actions |-> a] /\ run.before \in [Paths -> Kinds]
        BY <4>2, <4>3, <2>3
      <4> QED BY <4>4 DEF Nothing
    <3> QED BY <1>8, <3>1, <3>2
  <2> QED BY <1>1, <1>8, <2>4, <2>5, ScriptStep DEF launchd, daemons
<1>9. CASE StepFirst
  <2>1. script \in FileScripts /\ script.todo # <<>>
    BY <1>2, <1>9, Shapes DEF StepFirst, ScriptAt, FilePlaces, ScriptTyped
  <2>2. script' \in FileScripts /\ script'.todo # <<>>
    BY <1>9, <2>1, Advances DEF StepFirst, ScriptGoes, FilePlaces
  <2> QED BY <1>9, <2>2, <1>8 DEF StepFirst
<1>10. CASE StepSecond
  <2>1. script \in FileScripts /\ script.todo # <<>>
    BY <1>2, <1>10, Shapes DEF StepSecond, ScriptAt, FilePlaces, ScriptTyped
  <2>2. script.todo \in Seq(Actions) BY <2>1 DEF FileScripts
  <2>3. /\ Tail(script.todo) \in Seq(Actions)
        /\ Len(script.todo) # 1 => Tail(script.todo) # <<>>
    <3> DEFINE n == Len(script.todo)
               t == Tail(script.todo)
    <3>1. t \in Seq(Actions) /\ Len(t) = n - 1
      BY <2>1, <2>2, HeadTailProperties
    <3>2. n \in Nat BY <2>2, LenProperties
    <3>3. Len(<<>>) = 0 OBVIOUS
    <3> HIDE DEF n, t
    <3>4. ASSUME t = <<>> PROVE n = 1
      <4>1. n - 1 = 0 BY <3>1, <3>3, <3>4
      <4> QED BY <4>1, <3>2
    <3> QED BY <3>1, <3>4 DEF n, t
  <2>4. script' = [at |-> IF Len(script.todo) = 1 THEN "enable" ELSE "step",
                   todo |-> Tail(script.todo)]
    BY <1>10 DEF StepSecond
  <2>5. script' \in FileScripts /\ (script'.at \in {"step", "effect"} => script'.todo # <<>>)
    BY <2>3, <2>4 DEF FileScripts, FilePlaces
  <2> QED BY <1>10, <2>5, <1>8 DEF StepSecond
<1>11. CASE Enable
  <2>1. script \in FileScripts BY <1>2, <1>11, Shapes DEF Enable, ScriptAt, FilePlaces
  <2>2. script' \in FileScripts /\ script'.at = "bootstrap"
    BY <1>11, <2>1, Advances DEF Enable, ScriptGoes, FilePlaces
  <2>3. run' = run /\ run # Nothing BY <1>11, HasRun DEF Enable, ScriptAt
  <2> QED BY <1>1, <1>11, <2>2, <2>3, ScriptStep DEF Enable, daemons
<1>12. CASE Bootstrap
  <2>1. script \in FileScripts BY <1>2, <1>12, Shapes DEF Bootstrap, ScriptAt, FilePlaces
  <2>2. script' = NoScript \/ (script' \in FileScripts /\ script'.at = "verify")
    BY <1>12, <2>1, Advances DEF Bootstrap, ScriptGoes, FilePlaces, Hold
  <2>3. run' = run /\ run # Nothing BY <1>12, HasRun DEF Bootstrap, ScriptAt
  <2>4. job' \in [Labels -> Programs] BY <1>1, <1>12 DEF Bootstrap, Programs
  <2>5. script'.at \notin {"step", "effect"} BY <2>2 DEF NoScript
  <2> QED BY <1>1, <1>12, <2>2, <2>3, <2>4, <2>5, ScriptStep DEF Bootstrap, daemons
<1>13. CASE VerifyOwner
  <2>1. CASE Hold BY <1>13, <2>1, Holds DEF VerifyOwner, daemons
  <2>2. CASE ScriptGoes("complete")
    <3>1. script \in FileScripts BY <1>2, <1>13, Shapes DEF VerifyOwner, ScriptAt, FilePlaces
    <3>2. script' \in FileScripts /\ script'.at = "complete"
      BY <2>2, <3>1, Advances DEF ScriptGoes, FilePlaces
    <3>3. run' = run /\ run # Nothing BY <1>13, HasRun DEF VerifyOwner, ScriptAt
    <3> QED BY <1>1, <1>13, <3>2, <3>3, ScriptStep DEF VerifyOwner, daemons, launchd
  <2> QED BY <1>13, <2>1, <2>2 DEF VerifyOwner
<1>14. CASE Complete BY <1>14, Holds DEF Complete, daemons
<1>15. CASE StandDown
  <2>1. ConsolidationTypeOK'
    BY <1>15 DEF StandDown, MigrationTyped, ConsolidationTypeOK, Up, Programs
  <2>2. ScriptTyped' /\ RunTyped' BY <1>15 DEF StandDown, MigrationTyped, ScriptTyped, RunTyped
  <2> QED BY <2>1, <2>2 DEF MigrationTyped
<1>16. CASE Rollback
  <2>1. /\ run # Nothing /\ run \in RunDirectories
        /\ run.actions \in Seq(Actions)
    BY <1>16 DEF Rollback, RollbackAllowed, MigrationTyped, RunTyped
  <2>2. Reverse(run.actions) \in Seq(Actions) BY <2>1, TurnedRound
  <2>3. script' \in FileScripts /\ script'.at = "undo"
    BY <1>16, <2>2 DEF Rollback, FileScripts, FilePlaces
  <2> QED BY <1>1, <1>16, <2>1, <2>3, ScriptStep DEF Rollback, daemons, launchd
<1>17. CASE Undo
  <2>1. script \in FileScripts BY <1>2, <1>17, Shapes DEF Undo, ScriptAt, FilePlaces
  <2>2. script.todo \in Seq(Actions) BY <2>1 DEF FileScripts
  <2>3. Head(script.todo) \in Actions /\ Tail(script.todo) \in Seq(Actions)
    BY <1>17, <2>2, HeadTailProperties DEF Undo
  <2>4. fs' \in [Paths -> Kinds] BY <1>1, <1>17, <2>3, FilesTyped DEF Undo
  <2>5. script' = NoScript \/ script' = [script EXCEPT !.todo = Tail(script.todo)]
    BY <1>17 DEF Undo, Hold
  <2>6. script' = NoScript \/ (script' \in FileScripts /\ script'.at = "undo")
    BY <1>17, <2>1, <2>3, <2>5 DEF FileScripts, Undo, ScriptAt
  <2>7. script'.at \notin {"step", "effect"} BY <2>6 DEF NoScript
  <2>8. run' = run /\ run # Nothing BY <1>17, HasRun DEF Undo, ScriptAt
  <2> QED BY <1>1, <1>17, <2>4, <2>6, <2>7, <2>8, ScriptStep DEF Undo, daemons, launchd
<1>18. CASE Restored BY <1>18, Holds DEF Restored, daemons
<1>19. CASE ScriptDies BY <1>19, Holds DEF ScriptDies, daemons
<1> QED BY <1>3, <1>4, <1>5, <1>6, <1>7, <1>9, <1>10, <1>11, <1>12, <1>13, <1>14, <1>15,
           <1>16, <1>17, <1>18, <1>19 DEF Migrate

LEMMA TypedStep == MigrationTyped /\ [ConsolidationNext]_consolidationVars => MigrationTyped'
<1> SUFFICES ASSUME MigrationTyped, [ConsolidationNext]_consolidationVars PROVE MigrationTyped'
  OBVIOUS
<1>1. CASE \E l \in Labels : DaemonStep(l) BY <1>1, DaemonTyped
<1>2. CASE Reboot BY <1>2, RebootTyped
<1>3. CASE Migrate \/ StandDown \/ Rollback \/ Undo \/ Restored \/ ScriptDies
  BY <1>3, MigrateTyped
<1>4. CASE UNCHANGED consolidationVars
  BY <1>4 DEF consolidationVars, MigrationTyped, ConsolidationTypeOK, ScriptTyped, RunTyped, Up
<1> QED BY <1>1, <1>2, <1>3, <1>4 DEF ConsolidationNext, DaemonStep

\* The state of the machines, the files and the script has its type.
THEOREM ConsolidationTyped == ConsolidationSpec => []ConsolidationTypeOK
<1>1. MigrationTyped => ConsolidationTypeOK BY DEF MigrationTyped
<1> QED BY <1>1, InitTyped, TypedStep, PTL DEF ConsolidationSpec

-----------------------------------------------------------------------------
(* Installing in quiet. *)
LEMMA DaemonQuiet ==
    ASSUME MigrationTyped, InstallsInQuiet, NEW l \in Labels, DaemonStep(l), Installing
    PROVE  /\ Up' = {} /\ Loaded' = {}
           /\ \A m \in Production : work'[m] \in {Absent, "approval"}
<1>1. /\ proc[l] = Absent /\ job[l] = Absent /\ draining = {} /\ Up = {} /\ Loaded = {}
      /\ \A m \in Production : work[m] \in {Absent, "approval"}
  BY DEF InstallsInQuiet, Up, Loaded, MigrationTyped, ConsolidationTypeOK
<1>2. Proceed(l) BY <1>1 DEF DaemonStep, Spawn, Admit, Drained, Die
<1>3. Up' = {} /\ Loaded' = {} BY <1>1, <1>2 DEF Proceed, Up, Loaded, launchd
<1>4. \A m \in Labels \ {l} : work'[m] = work[m]
  BY <1>2 DEF Proceed, MigrationTyped, ConsolidationTypeOK
<1>5. l \in Production => work'[l] \in {Absent, "approval"}
  BY <1>1, <1>2 DEF Proceed, MigrationTyped, ConsolidationTypeOK, Absent
<1> QED BY <1>1, <1>3, <1>4, <1>5, LabelsAssumption

LEMMA QuietStep ==
    MigrationTyped /\ InstallsInQuiet /\ [ConsolidationNext]_consolidationVars => InstallsInQuiet'
<1> SUFFICES ASSUME MigrationTyped, InstallsInQuiet, [ConsolidationNext]_consolidationVars,
                    Installing'
             PROVE  /\ Up' = {} /\ Loaded' = {}
                    /\ \A l \in Production : work'[l] \in {Absent, "approval"}
  BY DEF InstallsInQuiet
<1> DEFINE Quiet == /\ Up = {} /\ Loaded = {}
                    /\ \A l \in Production : work[l] \in {Absent, "approval"}
<1>1. Installing => Quiet BY DEF InstallsInQuiet
<1>2. CASE \E l \in Labels : DaemonStep(l)
  <2>1. PICK l \in Labels : DaemonStep(l) BY <1>2
  <2>2. Installing BY <2>1, DaemonTyped DEF Installing
  <2> QED BY <2>1, <2>2, DaemonQuiet
<1>3. CASE UNCHANGED <<job, proc, work>> /\ Quiet BY <1>3 DEF Up, Loaded
<1>4. ASSUME Hold PROVE FALSE BY <1>4 DEF Hold, NoScript, Installing
<1>5. ASSUME NEW p, ScriptGoes(p), script \in StopScripts \/ script \in FileScripts,
             p \notin {"step", "effect", "enable", "bootstrap"}
      PROVE  FALSE
  BY <1>5 DEF ScriptGoes, StopScripts, FileScripts, Installing
<1>6. /\ ScriptTyped /\ \A p \in StopPlaces : ScriptAt(p) => script \in StopScripts
      /\ \A p \in FilePlaces : ScriptAt(p) => script \in FileScripts
  BY Shapes DEF MigrationTyped, ScriptAt
<1>7. CASE Begin BY <1>7 DEF Begin, Installing
<1>8. CASE Disable BY <1>8, <1>6 DEF Disable, Installing, StopScripts, StopPlaces
<1>9. CASE Bootout BY <1>9, <1>6, <1>5 DEF Bootout, StopPlaces
<1>10. CASE Stopped BY <1>10, <1>6, <1>5, <1>4 DEF Stopped, StopPlaces
<1>11. CASE AfterStop
  <2>1. Up = {} /\ Loaded = {} /\ ~LiveWork BY <1>11, <1>4 DEF AfterStop
  <2>2. Quiet BY <2>1, LabelsAssumption DEF LiveWork, MigrationTyped, ConsolidationTypeOK, Up
  <2> QED BY <1>3, <1>11, <2>2 DEF AfterStop, launchd, daemons
<1>12. CASE StepFirst \/ StepSecond
  BY <1>1, <1>3, <1>12 DEF StepFirst, StepSecond, Installing, ScriptAt, launchd, daemons
<1>13. CASE Enable BY <1>1, <1>3, <1>13 DEF Enable, Installing, ScriptAt, daemons
<1>14. CASE Bootstrap BY <1>14, <1>6, <1>5, <1>4 DEF Bootstrap, FilePlaces
<1>15. CASE VerifyOwner BY <1>15, <1>6, <1>5, <1>4 DEF VerifyOwner, FilePlaces
<1>16. CASE Complete \/ Restored \/ ScriptDies
  BY <1>16, <1>4 DEF Complete, Restored, ScriptDies
<1>17. CASE Reboot BY <1>17 DEF Reboot, Installing, NoScript
<1>18. CASE StandDown BY <1>18 DEF StandDown, Installing, ScriptAt
<1>19. CASE Rollback BY <1>19 DEF Rollback, Installing
<1>20. CASE Undo
  <2>1. script'.at = "undo"
    BY <1>20, <1>4, <1>6 DEF Undo, ScriptAt, FileScripts, FilePlaces
  <2> QED BY <2>1 DEF Installing
<1>21. CASE UNCHANGED consolidationVars
  BY <1>1, <1>3, <1>21 DEF consolidationVars, Installing
<1> QED BY <1>2, <1>7, <1>8, <1>9, <1>10, <1>11, <1>12, <1>13, <1>14, <1>15, <1>16, <1>17,
           <1>18, <1>19, <1>20, <1>21 DEF ConsolidationNext, DaemonStep, Migrate

LEMMA QuietInvariant == ConsolidationSpec => [](MigrationTyped /\ InstallsInQuiet)
<1>1. ConsolidationInit => InstallsInQuiet
  BY DEF ConsolidationInit, InstallsInQuiet, Installing, NoScript
<1> QED BY <1>1, InitTyped, TypedStep, QuietStep, PTL DEF ConsolidationSpec

\* Registrations are retired and the release is installed only while no daemon runs
\* or can be started, whatever launchd, requests, deaths and restarts do meanwhile.
THEOREM InstalledInQuiet == ConsolidationSpec => []InstallsInQuiet
BY QuietInvariant, PTL

-----------------------------------------------------------------------------
(***************************************************************************)
(* The order of the stops.  As soon as a label that had a process is       *)
(* stopped, whoever had none is unloaded.                                  *)
(***************************************************************************)
StopOrder ==
    script.at \in {"stop", "bootout", "unload"} =>
        /\ \A l \in Labels \ script.todo :
             job[l] = Absent \/ (~ScriptAt("stop") /\ l = script.label)
        /\ \/ script.up \subseteq script.todo
           \/ /\ script.todo \subseteq script.up
              /\ ~ScriptAt("stop") => script.label \in script.up

LEMMA PopsInOrder ==
    ASSUME NEW l \in script.todo, IsNext(l), l \in script.up
    PROVE  script.todo \subseteq script.up
BY DEF IsNext, Rank

LEMMA StopOrderStep ==
    MigrationTyped /\ StopOrder /\ [ConsolidationNext]_consolidationVars => StopOrder'
<1> SUFFICES ASSUME MigrationTyped, StopOrder, [ConsolidationNext]_consolidationVars,
                    script'.at \in {"stop", "bootout", "unload"}
             PROVE  StopOrder'
  BY DEF StopOrder
<1>1. /\ ScriptTyped /\ \A p \in StopPlaces : ScriptAt(p) => script \in StopScripts
      /\ \A p \in FilePlaces : ScriptAt(p) => script \in FileScripts
  BY Shapes DEF MigrationTyped, ScriptAt
<1>2. CASE UNCHANGED <<script, job>> BY <1>2 DEF StopOrder, ScriptAt
<1>3. CASE \E l \in Labels : DaemonStep(l) BY <1>2, <1>3, DaemonTyped DEF launchd
<1>4. ASSUME Hold PROVE FALSE BY <1>4 DEF Hold, NoScript
<1>5. ASSUME NEW p, ScriptGoes(p), script \in FileScripts, p \notin {"stop", "bootout", "unload"}
      PROVE  FALSE
  BY <1>5 DEF ScriptGoes, FileScripts
<1>6. CASE Begin
  <2>1. Up \subseteq Loaded BY <1>6 DEF Begin, LiveWork, Up, Loaded
  <2>2. /\ script'.at = "stop" /\ script'.up = Up
        /\ Loaded \subseteq script'.todo /\ job' = job
    BY <1>6 DEF Begin, launchd
  <2>3. \A l \in Labels \ script'.todo : job'[l] = Absent BY <2>2 DEF Loaded
  <2> QED BY <2>1, <2>2, <2>3 DEF StopOrder, ScriptAt
<1>7. CASE Disable
  <2>1. PICK l \in script.todo :
          IsNext(l) /\ script' = [script EXCEPT !.at = "bootout", !.label = l, !.todo = @ \ {l}]
    BY <1>7 DEF Disable
  <2>2. script \in StopScripts /\ script.at = "stop" /\ job' = job
    BY <1>1, <1>7 DEF Disable, StopPlaces, ScriptAt
  <2>3. /\ script'.at = "bootout" /\ script'.label = l /\ script'.todo = script.todo \ {l}
        /\ script'.up = script.up
    BY <2>1, <2>2 DEF StopScripts
  <2>4. \A m \in Labels \ script'.todo : job'[m] = Absent \/ m = l
    BY <2>2, <2>3 DEF StopOrder, ScriptAt
  <2>5. \/ script.up \subseteq script'.todo
        \/ script'.todo \subseteq script.up /\ l \in script.up
    BY <2>1, <2>2, <2>3, PopsInOrder DEF StopOrder, ScriptAt
  <2> QED BY <2>3, <2>4, <2>5 DEF StopOrder, ScriptAt
<1>8. CASE Bootout
  <2>1. script \in StopScripts /\ script.at = "bootout"
    BY <1>1, <1>8 DEF Bootout, StopPlaces, ScriptAt
  <2>2. script' = [script EXCEPT !.at = "unload"] BY <1>8 DEF Bootout, ScriptGoes
  <2>3. /\ script'.at = "unload" /\ script'.label = script.label /\ script'.todo = script.todo
        /\ script'.up = script.up
    BY <2>1, <2>2 DEF StopScripts
  <2>4. \A m \in Labels : job'[m] = job[m] \/ job'[m] = Absent
    BY <1>8 DEF Bootout, MigrationTyped, ConsolidationTypeOK
  <2> QED BY <2>1, <2>3, <2>4 DEF StopOrder, ScriptAt
<1>9. CASE Stopped
  <2>1. script \in StopScripts /\ script.at = "unload" /\ job' = job /\ job[script.label] = Absent
    BY <1>1, <1>4, <1>9 DEF Stopped, StopPlaces, ScriptAt, launchd
  <2>2. script' = [script EXCEPT !.at = IF script.todo = {} THEN "stopped" ELSE "stop"]
    BY <1>4, <1>9 DEF Stopped, ScriptGoes
  <2>3. script'.at = "stop" /\ script'.todo = script.todo /\ script'.up = script.up
    BY <2>1, <2>2 DEF StopScripts
  <2> QED BY <2>1, <2>3 DEF StopOrder, ScriptAt
<1>10. CASE AfterStop BY <1>10, <1>4 DEF AfterStop
<1>11. CASE StepFirst BY <1>11, <1>1, <1>5 DEF StepFirst, FilePlaces
<1>12. CASE StepSecond BY <1>12 DEF StepSecond
<1>13. CASE Enable \/ Bootstrap \/ VerifyOwner
  BY <1>13, <1>1, <1>5, <1>4 DEF Enable, Bootstrap, VerifyOwner, FilePlaces
<1>14. CASE Complete \/ Restored \/ ScriptDies
  BY <1>14, <1>4 DEF Complete, Restored, ScriptDies
<1>15. CASE Reboot BY <1>15 DEF Reboot, NoScript
<1>16. CASE StandDown BY <1>16 DEF StandDown, ScriptAt
<1>17. CASE Rollback BY <1>17 DEF Rollback
<1>18. CASE Undo
  <2>1. script'.at = "undo" BY <1>18, <1>4, <1>1 DEF Undo, ScriptAt, FileScripts, FilePlaces
  <2> QED BY <2>1
<1>19. CASE UNCHANGED consolidationVars BY <1>2, <1>19 DEF consolidationVars
<1> QED BY <1>3, <1>6, <1>7, <1>8, <1>9, <1>10, <1>11, <1>12, <1>13, <1>14, <1>15, <1>16, <1>17,
           <1>18, <1>19 DEF ConsolidationNext, DaemonStep, Migrate

LEMMA OnlySpawnStarts ==
    ASSUME MigrationTyped, [ConsolidationNext]_consolidationVars,
           NEW l \in Labels, proc[l] = Absent, proc'[l] # Absent
    PROVE  job[l] # Absent
<1>1. CASE \E m \in Labels : DaemonStep(m)
  <2>1. PICK m \in Labels : DaemonStep(m) BY <1>1
  <2>2. Spawn(m) /\ m = l
    BY <2>1 DEF DaemonStep, Spawn, Admit, Proceed, Drained, Die, End, MigrationTyped,
                ConsolidationTypeOK
  <2> QED BY <2>2 DEF Spawn
<1>2. CASE Reboot BY <1>2 DEF Reboot
<1>3. CASE proc' = proc BY <1>3
<1>4. CASE Migrate \/ StandDown \/ Rollback \/ Undo \/ Restored \/ ScriptDies
  BY <1>3, <1>4 DEF Migrate, Begin, Disable, Bootout, Stopped, AfterStop, StepFirst, StepSecond,
     Enable, Bootstrap, VerifyOwner, Complete, StandDown, Rollback, Undo, Restored, ScriptDies,
     daemons
<1>5. CASE UNCHANGED consolidationVars BY <1>3, <1>5 DEF consolidationVars
<1> QED BY <1>1, <1>2, <1>4, <1>5 DEF ConsolidationNext, DaemonStep

\* While services are stopped, a label that had no process at the census gets none
\* once the first one that had is being stopped.
THEOREM ClaimantsKeptOut == ConsolidationSpec => NoClaimantTakesOver
<1>1. ConsolidationInit => StopOrder BY DEF ConsolidationInit, StopOrder, NoScript
<1>2. MigrationTyped /\ StopOrder /\ [ConsolidationNext]_consolidationVars
      => [\A l \in Labels :
            (script.at \in {"stop", "bootout", "unload"} /\ l \notin script.up
                /\ proc[l] = Absent /\ proc'[l] # Absent)
            => script.up \subseteq script.todo]_consolidationVars
  <2> SUFFICES ASSUME MigrationTyped, StopOrder, [ConsolidationNext]_consolidationVars,
                      NEW l \in Labels, script.at \in {"stop", "bootout", "unload"},
                      l \notin script.up, proc[l] = Absent, proc'[l] # Absent
               PROVE  script.up \subseteq script.todo
    OBVIOUS
  <2>1. job[l] # Absent BY OnlySpawnStarts
  <2> QED BY <2>1 DEF StopOrder, ScriptAt
<1> QED BY <1>1, <1>2, InitTyped, TypedStep, StopOrderStep, PTL
  DEF ConsolidationSpec, NoClaimantTakesOver

-----------------------------------------------------------------------------
(***************************************************************************)
(* The plan of an installation over the files b, and what must be done     *)
(* before what.                                                            *)
(***************************************************************************)
Archive(f) == [kind |-> "archive", path |-> f]
Create(p) == [kind |-> "create", path |-> p]
MakeLegacy == [kind |-> "mkdir", path |-> "legacy"]
Displaced(b) ==
    (IF b["canonical"] = "link" THEN {[kind |-> "remove", path |-> "canonical"]} ELSE {})
    \cup (IF b["canonical"] = "dir"
          THEN {[kind |-> "rename", path |-> "canonical", to |-> "aside"]} ELSE {})
LegacyMoved(b) ==
    IF b["legacy"] = Absent THEN {}
    ELSE {[kind |-> "rename", path |-> "legacy", to |-> "legacyAside"]}
Archives == {Archive(f) : f \in Files}
LastSteps == {MakeLegacy, Create("shim"), Create(KeeperFile)}
Plan(b) == Archives \cup Displaced(b) \cup {Create("canonical")} \cup LegacyMoved(b) \cup LastSteps

Needs(b, x, y) ==
    \/ x = Archive(KeeperFile) /\ y = Create(KeeperFile)
    \/ x \in Displaced(b) /\ y = Create("canonical")
    \/ x \in LegacyMoved(b) /\ y = MakeLegacy

\* The files before any installation.
Original(b) ==
    /\ \A f \in Files : b[f] = "plist"
    /\ b["canonical"] \in {Absent, "dir", "link"} /\ b["legacy"] \in {Absent, "dir"}
    /\ b["aside"] = Absent /\ b["legacyAside"] = Absent /\ b["shim"] = Absent

LEMMA ActionKinds ==
    ASSUME NEW b
    PROVE  /\ \A f : Archive(f).kind = "archive" /\ Archive(f).path = f
           /\ \A p : Create(p).kind = "create" /\ Create(p).path = p
           /\ MakeLegacy.kind = "mkdir" /\ MakeLegacy.path = "legacy"
           /\ \A x \in Displaced(b) : x.kind \in {"remove", "rename"} /\ x.path = "canonical"
           /\ \A x \in LegacyMoved(b) : x.kind = "rename" /\ x.path = "legacy"
BY DEF Archive, Create, MakeLegacy, Displaced, LegacyMoved

LEMMA NeedsPlan ==
    ASSUME NEW b, NEW x, NEW y, Needs(b, x, y)
    PROVE  x \in Plan(b) /\ y \in Plan(b) /\ x # y /\ x.kind \notin {"mkdir", "create"}
BY ActionKinds, LabelsAssumption DEF Needs, Plan, Archives, LastSteps

LEMMA ShortSequences ==
    /\ ToSet(<<>>) = {} /\ Distinct(<<>>)
    /\ \A a : ToSet(<<a>>) = {a} /\ Distinct(<<a>>)
    /\ \A a, c, d : ToSet(<<a, c, d>>) = {a, c, d}
                    /\ (a # c /\ a # d /\ c # d => Distinct(<<a, c, d>>))
<1>1. ToSet(<<>>) = {} /\ Distinct(<<>>) BY DEF ToSet, Distinct
<1>2. ASSUME NEW a PROVE ToSet(<<a>>) = {a} /\ Distinct(<<a>>)
  <2>1. DOMAIN <<a>> = {1} /\ <<a>>[1] = a OBVIOUS
  <2> QED BY <2>1 DEF ToSet, Distinct
<1>3. ASSUME NEW a, NEW c, NEW d
      PROVE  ToSet(<<a, c, d>>) = {a, c, d}
             /\ (a # c /\ a # d /\ c # d => Distinct(<<a, c, d>>))
  <2> DEFINE s == <<a, c, d>>
  <2>1. DOMAIN s = {1, 2, 3} /\ s[1] = a /\ s[2] = c /\ s[3] = d OBVIOUS
  <2> HIDE DEF s
  <2>2. ToSet(s) = {a, c, d} BY <2>1 DEF ToSet
  <2>3. a # c /\ a # d /\ c # d => Distinct(s) BY <2>1 DEF Distinct
  <2> QED BY <2>2, <2>3 DEF s
<1> QED BY <1>1, <1>2, <1>3

LEMMA AbsentPrecedes ==
    \A x, y, s : x \notin ToSet(s) \/ y \notin ToSet(s) => Precedes(x, y, s)
BY DEF Precedes, ToSet

\* The steps are the plan, each action once, in an order that respects the needs.
LEMMA StepsOrdered ==
    ASSUME Original(fs)
    PROVE  /\ Steps \in Seq(Actions) /\ ToSet(Steps) = Plan(fs) /\ Distinct(Steps)
           /\ \A x, y : Needs(fs, x, y) => Precedes(x, y, Steps)
<1> DEFINE one == <<Create("canonical")>>
           three == <<MakeLegacy, Create("shim"), Create(KeeperFile)>>
           s1 == ArchiveSteps \o CanonicalSteps
           s2 == s1 \o one
           s3 == s2 \o LegacySteps
           Good(s, S) == s \in Seq(Actions) /\ ToSet(s) = S /\ Distinct(s)
           Kept(s) == \A x, y : Needs(fs, x, y) => Precedes(x, y, s)
<1>1. Good(ArchiveSteps, Archives)
  <2>1. IsFiniteSet(Archives)
    <3> DEFINE g == [f \in Files |-> Archive(f)]
    <3>1. g \in Surjection(Files, Archives) BY DEF Surjection, Archives
    <3> HIDE DEF g
    <3> QED BY <3>1, LabelsAssumption, FS_Surjection
  <2>2. ArchiveSteps = SetToSeq(Archives) BY DEF ArchiveSteps, Archives, Archive
  <2>3. Archives \subseteq Actions BY DEF Actions, Archives, Archive
  <2> QED BY <2>1, <2>2, <2>3, Enumerated, SeqMonotonic
<1>2. Good(CanonicalSteps, Displaced(fs))
  <2>1. CASE fs["canonical"] = "link"
    <3>1. CanonicalSteps = <<[kind |-> "remove", path |-> "canonical"]>>
      BY <2>1 DEF CanonicalSteps
    <3>2. Displaced(fs) = {[kind |-> "remove", path |-> "canonical"]} BY <2>1 DEF Displaced
    <3> QED BY <3>1, <3>2, Displacing, ShortSequences
  <2>2. CASE fs["canonical"] = "dir"
    <3>1. CanonicalSteps = <<[kind |-> "rename", path |-> "canonical", to |-> "aside"]>>
      BY <2>2 DEF CanonicalSteps
    <3>2. Displaced(fs) = {[kind |-> "rename", path |-> "canonical", to |-> "aside"]}
      BY <2>2 DEF Displaced
    <3> QED BY <3>1, <3>2, Displacing, ShortSequences
  <2>3. CASE fs["canonical"] = Absent
    <3>1. CanonicalSteps = <<>> /\ Displaced(fs) = {}
      BY <2>3 DEF CanonicalSteps, Displaced, Absent
    <3> QED BY <3>1, Displacing, ShortSequences
  <2> QED BY <2>1, <2>2, <2>3 DEF Original
<1>3. Good(one, {Create("canonical")}) BY Displacing, ShortSequences DEF Create
<1>4. Good(LegacySteps, LegacyMoved(fs))
  <2>1. CASE fs["legacy"] = Absent
    BY <2>1, Displacing, ShortSequences DEF LegacySteps, LegacyMoved
  <2>2. CASE fs["legacy"] # Absent
    BY <2>2, Displacing, ShortSequences DEF LegacySteps, LegacyMoved
  <2> QED BY <2>1, <2>2
<1>5. Good(three, LastSteps)
  <2>1. MakeLegacy # Create("shim") /\ MakeLegacy # Create(KeeperFile)
        /\ Create("shim") # Create(KeeperFile)
    BY ActionKinds, LabelsAssumption
  <2>2. ToSet(three) = LastSteps /\ Distinct(three) BY <2>1, ShortSequences DEF LastSteps
  <2>3. three \in Seq(Actions) BY Displacing DEF MakeLegacy, Create
  <2> QED BY <2>2, <2>3
<1>6. Steps = s3 \o three BY DEF Steps, MakeLegacy, Create
<1> HIDE DEF one, three
<1>7. ASSUME NEW s, NEW S, NEW t, NEW T, Good(s, S), Good(t, T), Kept(s), S \cap T = {},
             \A x, y : Needs(fs, x, y) => (x \notin T \/ y \notin T) /\ (x \notin T \/ y \notin S)
      PROVE  Good(s \o t, S \cup T) /\ Kept(s \o t)
  <2>1. Good(s \o t, S \cup T) BY <1>7, Joined
  <2>2. ASSUME NEW x, NEW y, Needs(fs, x, y) PROVE Precedes(x, y, s \o t)
    <3>1. Precedes(x, y, s) /\ Precedes(x, y, t) BY <1>7, <2>2, AbsentPrecedes
    <3>2. ~(x \in ToSet(t) /\ y \in ToSet(s)) BY <1>7, <2>2
    <3>3. s \in Seq(Actions) /\ t \in Seq(Actions) BY <1>7
    <3> QED BY <3>1, <3>2, <3>3, Joined
  <2> QED BY <2>1, <2>2
<1>8. ASSUME NEW x, NEW y, Needs(fs, x, y)
      PROVE  /\ x \in Archives \cup Displaced(fs) \cup LegacyMoved(fs)
             /\ y \in {Create("canonical"), Create(KeeperFile), MakeLegacy}
             /\ x \in Displaced(fs) => y = Create("canonical")
             /\ x \in LegacyMoved(fs) => y = MakeLegacy
             /\ y.kind \in {"create", "mkdir"} /\ x.kind \notin {"create", "mkdir"}
  BY <1>8, LabelsAssumption, ActionKinds DEF Needs, Archives
<1>9. Kept(ArchiveSteps) BY <1>1, <1>8, AbsentPrecedes, ActionKinds DEF Archives
<1>10. /\ Archives \cap Displaced(fs) = {}
       /\ (Archives \cup Displaced(fs)) \cap {Create("canonical")} = {}
       /\ (Archives \cup Displaced(fs) \cup {Create("canonical")}) \cap LegacyMoved(fs) = {}
       /\ (Archives \cup Displaced(fs) \cup {Create("canonical")} \cup LegacyMoved(fs))
            \cap LastSteps = {}
  BY ActionKinds, LabelsAssumption DEF Archives, LastSteps
<1>11. Good(s1, Archives \cup Displaced(fs)) /\ Kept(s1)
  <2>1. \A x, y : Needs(fs, x, y) => /\ x \notin Displaced(fs) \/ y \notin Displaced(fs)
                                     /\ x \notin Displaced(fs) \/ y \notin Archives
    BY <1>8, ActionKinds DEF Archives
  <2> HIDE DEF Good, Kept
  <2> QED BY <1>1, <1>2, <1>7, <1>9, <1>10, <2>1
<1> DEFINE S2 == Archives \cup Displaced(fs) \cup {Create("canonical")}
<1>12. Good(s2, S2) /\ Kept(s2)
  <2>1. \A x, y : Needs(fs, x, y) => x \notin {Create("canonical")}
    BY <1>8, ActionKinds
  <2> HIDE DEF Good, Kept, s1
  <2> QED BY <1>3, <1>7, <1>10, <1>11, <2>1
<1>13. Good(s3, S2 \cup LegacyMoved(fs)) /\ Kept(s3)
  <2>1. \A x, y : Needs(fs, x, y) => /\ x \notin LegacyMoved(fs) \/ y \notin LegacyMoved(fs)
                                     /\ x \notin LegacyMoved(fs) \/ y \notin S2
    BY <1>8, ActionKinds DEF Archives
  <2> HIDE DEF Good, Kept, s2
  <2> QED BY <1>4, <1>7, <1>10, <1>12, <2>1
<1>14. Good(Steps, S2 \cup LegacyMoved(fs) \cup LastSteps) /\ Kept(Steps)
  <2>1. \A x, y : Needs(fs, x, y) => x \notin LastSteps
    BY <1>8, ActionKinds DEF LastSteps
  <2> HIDE DEF Good, Kept, s3
  <2> QED BY <1>5, <1>6, <1>7, <1>10, <1>13, <2>1
<1> QED BY <1>14 DEF Plan

-----------------------------------------------------------------------------
(***************************************************************************)
(* The files f against the files b before the migration: whatever differs, *)
(* the actions P that a rollback has still to reverse account for.         *)
(***************************************************************************)
FileAccounted(f, P) ==
    \A g \in Files : /\ f[g] \in {"plist", Absent, "new"}
                     /\ f[g] # "plist" => Archive(g) \in P
                     /\ f[g] = "new" => g = KeeperFile /\ Create(g) \in P
CanonicalAccounted(f, b, P) ==
    /\ f["canonical"] \in {b["canonical"], Absent, "new"}
    /\ f["canonical"] # b["canonical"] => Displaced(b) \subseteq P
    /\ f["canonical"] = "new" => Create("canonical") \in P
    /\ f["aside"] = IF b["canonical"] = "dir" /\ f["canonical"] # "dir" THEN "dir" ELSE Absent
LegacyAccounted(f, b, P) ==
    /\ f["legacy"] \in {b["legacy"], Absent, "newdir"}
    /\ f["legacy"] # b["legacy"] => LegacyMoved(b) \subseteq P
    /\ f["legacyAside"] = IF b["legacy"] = "dir" /\ f["legacy"] # "dir" THEN "dir" ELSE Absent
ShimAccounted(f, P) ==
    f["shim"] \in {Absent, "new"} /\ (f["shim"] = "new" => Create("shim") \in P)
Accounted(f, b, P) ==
    FileAccounted(f, P) /\ CanonicalAccounted(f, b, P) /\ LegacyAccounted(f, b, P)
    /\ ShimAccounted(f, P)

\* What the steps T that are left have not yet changed, and what the others have.
Ahead(f, b, T) ==
    /\ \A g \in Files : Archive(g) \in T \/ f[g] \in {Absent, "new"}
    /\ \A x \in Displaced(b) : x \in T <=> f["canonical"] = b["canonical"]
    /\ \A x \in LegacyMoved(b) : x \in T <=> f["legacy"] = b["legacy"]

LEMMA AccountedMore ==
    ASSUME NEW f, NEW b, NEW P, NEW Q, Accounted(f, b, P), P \subseteq Q
    PROVE  Accounted(f, b, Q)
BY DEF Accounted, FileAccounted, CanonicalAccounted, LegacyAccounted, ShimAccounted

LEMMA NothingToAccountFor == ASSUME Original(fs), NEW P PROVE Accounted(fs, fs, P)
BY LabelsAssumption DEF Original, Accounted, FileAccounted, CanonicalAccounted, LegacyAccounted,
   ShimAccounted, Absent

LEMMA AllReversed ==
    ASSUME NEW f, NEW b, Original(b), Accounted(f, b, {}), NEW p \in Paths
    PROVE  f[p] = b[p] \/ (b[p] = Absent /\ f[p] = "newdir")
<1>1. CASE p \in Files BY <1>1 DEF Original, Accounted, FileAccounted
<1>2. CASE p \in {"canonical", "aside"}
  BY <1>2 DEF Original, Accounted, CanonicalAccounted, Displaced, Absent
<1>3. CASE p \in {"legacy", "legacyAside"}
  BY <1>3 DEF Original, Accounted, LegacyAccounted, LegacyMoved, Absent
<1>4. CASE p = "shim" BY <1>4 DEF Original, Accounted, ShimAccounted
<1> QED BY <1>1, <1>2, <1>3, <1>4 DEF Paths

LEMMA PlanCases ==
    ASSUME NEW b, NEW a \in Plan(b)
    PROVE  \/ \E g \in Files : a = Archive(g)
           \/ b["canonical"] = "link" /\ a = [kind |-> "remove", path |-> "canonical"]
           \/ b["canonical"] = "dir"
              /\ a = [kind |-> "rename", path |-> "canonical", to |-> "aside"]
           \/ a = Create("canonical")
           \/ b["legacy"] # Absent
              /\ a = [kind |-> "rename", path |-> "legacy", to |-> "legacyAside"]
           \/ a = MakeLegacy \/ a = Create("shim") \/ a = Create(KeeperFile)
BY DEF Plan, Archives, Displaced, LegacyMoved, LastSteps

LEMMA DisplacedIs ==
    ASSUME NEW b, Original(b)
    PROVE  /\ b["canonical"] = "link" =>
                Displaced(b) = {[kind |-> "remove", path |-> "canonical"]}
           /\ b["canonical"] = "dir" =>
                Displaced(b) = {[kind |-> "rename", path |-> "canonical", to |-> "aside"]}
           /\ b["canonical"] = Absent => Displaced(b) = {}
BY DEF Displaced, Absent

\* An action of the plan takes effect.
LEMMA Installs ==
    ASSUME fs \in [Paths -> Kinds], NEW b, Original(b), NEW a \in Plan(b), NEW P,
           Accounted(fs, b, P), a \in P \/ a = MakeLegacy,
           NEW T, Ahead(fs, b, T), a \in T, \A x : Needs(b, x, a) => x \in P /\ x \notin T
    PROVE  Accounted(Applied(a), b, P) /\ Ahead(Applied(a), b, T \ {a})
<1> USE DEF Accounted
<1> DEFINE f == Applied(a)
<1>0. /\ Files \subseteq Paths /\ MailboxPaths \subseteq Paths
      /\ Files \cap MailboxPaths = {} /\ KeeperFile \in Files
  BY LabelsAssumption DEF Paths
<1>1. ASSUME NEW g \in Files, a = Archive(g) PROVE Accounted(f, b, P) /\ Ahead(f, b, T \ {a})
  <2>1. f = [fs EXCEPT ![g] = Absent] BY <1>1 DEF Applied, Archive
  <2>2. /\ f[g] = Absent /\ \A p \in Paths \ {g} : f[p] = fs[p] BY <1>0, <2>1
  <2> HIDE DEF f
  <2>3. FileAccounted(f, P) BY <1>0, <1>1, <2>2, ActionKinds DEF FileAccounted, Absent
  <2>4. CanonicalAccounted(f, b, P) /\ LegacyAccounted(f, b, P) /\ ShimAccounted(f, P)
    BY <1>0, <2>2 DEF CanonicalAccounted, LegacyAccounted, ShimAccounted
  <2>5. Ahead(f, b, T \ {a}) BY <1>0, <1>1, <2>2, ActionKinds DEF Ahead
  <2> QED BY <2>3, <2>4, <2>5
<1>2. ASSUME b["canonical"] = "link", a = [kind |-> "remove", path |-> "canonical"]
      PROVE  Accounted(f, b, P) /\ Ahead(f, b, T \ {a})
  <2>1. f = [fs EXCEPT !["canonical"] = Absent] BY <1>2 DEF Applied
  <2>2. /\ f["canonical"] = Absent /\ \A p \in Paths \ {"canonical"} : f[p] = fs[p] BY <1>0, <2>1
  <2>3. Displaced(b) = {a} BY <1>2, DisplacedIs
  <2> HIDE DEF f
  <2>4. CanonicalAccounted(f, b, P)
    BY <1>0, <1>2, <2>2, <2>3 DEF CanonicalAccounted, MakeLegacy, Absent
  <2>5. FileAccounted(f, P) /\ LegacyAccounted(f, b, P) /\ ShimAccounted(f, P)
    BY <1>0, <2>2 DEF FileAccounted, LegacyAccounted, ShimAccounted
  <2>6. Ahead(f, b, T \ {a}) BY <1>0, <1>2, <2>2, <2>3, ActionKinds DEF Ahead, Absent
  <2> QED BY <2>4, <2>5, <2>6
<1>3. ASSUME b["canonical"] = "dir", a = [kind |-> "rename", path |-> "canonical", to |-> "aside"]
      PROVE  Accounted(f, b, P) /\ Ahead(f, b, T \ {a})
  <2>1. f = [[fs EXCEPT !["aside"] = fs["canonical"]] EXCEPT !["canonical"] = Absent]
    BY <1>3 DEF Applied
  <2>2. /\ f["canonical"] = Absent /\ f["aside"] = fs["canonical"]
        /\ \A p \in Paths \ {"canonical", "aside"} : f[p] = fs[p]
    BY <1>0, <2>1
  <2>3. Displaced(b) = {a} BY <1>3, DisplacedIs
  <2> HIDE DEF f
  <2>4. fs["canonical"] = "dir" BY <1>3, <2>3 DEF Ahead
  <2>5. CanonicalAccounted(f, b, P)
    BY <1>0, <1>3, <2>2, <2>3, <2>4 DEF CanonicalAccounted, MakeLegacy, Absent
  <2>6. FileAccounted(f, P) /\ LegacyAccounted(f, b, P) /\ ShimAccounted(f, P)
    BY <1>0, <2>2 DEF FileAccounted, LegacyAccounted, ShimAccounted
  <2>7. Ahead(f, b, T \ {a}) BY <1>0, <1>3, <2>2, <2>3, ActionKinds DEF Ahead, Absent
  <2> QED BY <2>5, <2>6, <2>7
<1>4. ASSUME a = Create("canonical") PROVE Accounted(f, b, P) /\ Ahead(f, b, T \ {a})
  <2>1. f = [fs EXCEPT !["canonical"] = "new"] BY <1>4 DEF Applied, Create
  <2>2. /\ f["canonical"] = "new" /\ \A p \in Paths \ {"canonical"} : f[p] = fs[p] BY <1>0, <2>1
  <2>3. \A x \in Displaced(b) : x \in P /\ x \notin T BY <1>4 DEF Needs
  <2> HIDE DEF f
  <2>4. b["canonical"] = "dir" => fs["canonical"] # "dir" BY <2>3, DisplacedIs DEF Ahead
  <2>5. a # MakeLegacy BY <1>4, ActionKinds
  <2>6. CanonicalAccounted(f, b, P)
    BY <1>0, <1>4, <2>2, <2>3, <2>4, <2>5 DEF CanonicalAccounted
  <2>7. FileAccounted(f, P) /\ LegacyAccounted(f, b, P) /\ ShimAccounted(f, P)
    BY <1>0, <2>2 DEF FileAccounted, LegacyAccounted, ShimAccounted
  <2>8. b["canonical"] # "new" BY DEF Original, Absent
  <2>9. Ahead(f, b, T \ {a}) BY <1>0, <1>4, <2>2, <2>3, <2>8, ActionKinds DEF Ahead
  <2> QED BY <2>6, <2>7, <2>9
<1>5. ASSUME b["legacy"] # Absent,
             a = [kind |-> "rename", path |-> "legacy", to |-> "legacyAside"]
      PROVE  Accounted(f, b, P) /\ Ahead(f, b, T \ {a})
  <2>1. f = [[fs EXCEPT !["legacyAside"] = fs["legacy"]] EXCEPT !["legacy"] = Absent]
    BY <1>5 DEF Applied
  <2>2. /\ f["legacy"] = Absent /\ f["legacyAside"] = fs["legacy"]
        /\ \A p \in Paths \ {"legacy", "legacyAside"} : f[p] = fs[p]
    BY <1>0, <2>1
  <2>3. LegacyMoved(b) = {a} /\ b["legacy"] = "dir" BY <1>5 DEF LegacyMoved, Original
  <2> HIDE DEF f
  <2>4. fs["legacy"] = "dir" BY <1>5, <2>3 DEF Ahead
  <2>5. LegacyAccounted(f, b, P)
    BY <1>0, <1>5, <2>2, <2>3, <2>4 DEF LegacyAccounted, MakeLegacy, Absent
  <2>6. FileAccounted(f, P) /\ CanonicalAccounted(f, b, P) /\ ShimAccounted(f, P)
    BY <1>0, <2>2 DEF FileAccounted, CanonicalAccounted, ShimAccounted
  <2>7. Ahead(f, b, T \ {a}) BY <1>0, <1>5, <2>2, <2>3, ActionKinds DEF Ahead, Absent
  <2> QED BY <2>5, <2>6, <2>7
<1>6. ASSUME a = MakeLegacy PROVE Accounted(f, b, P) /\ Ahead(f, b, T \ {a})
  <2>1. f = [fs EXCEPT !["legacy"] = "newdir"] BY <1>6 DEF Applied, MakeLegacy
  <2>2. /\ f["legacy"] = "newdir" /\ \A p \in Paths \ {"legacy"} : f[p] = fs[p] BY <1>0, <2>1
  <2>3. \A x \in LegacyMoved(b) : x \in P /\ x \notin T BY <1>6 DEF Needs
  <2> HIDE DEF f
  <2>4. b["legacy"] = "dir" => fs["legacy"] # "dir" BY <2>3 DEF Ahead, LegacyMoved, Absent
  <2>5. LegacyAccounted(f, b, P) BY <1>0, <2>2, <2>3, <2>4 DEF LegacyAccounted
  <2>6. FileAccounted(f, P) /\ CanonicalAccounted(f, b, P) /\ ShimAccounted(f, P)
    BY <1>0, <2>2 DEF FileAccounted, CanonicalAccounted, ShimAccounted
  <2>7. b["legacy"] # "newdir" BY DEF Original, Absent
  <2>8. Ahead(f, b, T \ {a}) BY <1>0, <1>6, <2>2, <2>3, <2>7, ActionKinds DEF Ahead
  <2> QED BY <2>5, <2>6, <2>8
<1>7. ASSUME a = Create("shim") PROVE Accounted(f, b, P) /\ Ahead(f, b, T \ {a})
  <2>1. f = [fs EXCEPT !["shim"] = "new"] BY <1>7 DEF Applied, Create
  <2>2. /\ f["shim"] = "new" /\ \A p \in Paths \ {"shim"} : f[p] = fs[p] BY <1>0, <2>1
  <2>3. a # MakeLegacy BY <1>7, ActionKinds
  <2> HIDE DEF f
  <2>4. FileAccounted(f, P) /\ CanonicalAccounted(f, b, P) /\ LegacyAccounted(f, b, P)
    BY <1>0, <2>2 DEF FileAccounted, CanonicalAccounted, LegacyAccounted
  <2>5. ShimAccounted(f, P) BY <1>7, <2>2, <2>3 DEF ShimAccounted
  <2>6. Ahead(f, b, T \ {a}) BY <1>0, <1>7, <2>2, ActionKinds DEF Ahead
  <2> QED BY <2>4, <2>5, <2>6
<1>8. ASSUME a = Create(KeeperFile) PROVE Accounted(f, b, P) /\ Ahead(f, b, T \ {a})
  <2>1. f = [fs EXCEPT ![KeeperFile] = "new"] BY <1>8 DEF Applied, Create
  <2>2. /\ f[KeeperFile] = "new" /\ \A p \in Paths \ {KeeperFile} : f[p] = fs[p] BY <1>0, <2>1
  <2>3. a # MakeLegacy BY <1>8, ActionKinds
  <2>4. Archive(KeeperFile) \in P BY <1>8 DEF Needs
  <2> HIDE DEF f
  <2>5. FileAccounted(f, P) BY <1>0, <1>8, <2>2, <2>3, <2>4 DEF FileAccounted
  <2>6. CanonicalAccounted(f, b, P) /\ LegacyAccounted(f, b, P) /\ ShimAccounted(f, P)
    BY <1>0, <2>2 DEF CanonicalAccounted, LegacyAccounted, ShimAccounted
  <2>7. Ahead(f, b, T \ {a}) BY <1>0, <1>8, <2>2, ActionKinds DEF Ahead
  <2> QED BY <2>5, <2>6, <2>7
<1> QED BY <1>1, <1>2, <1>3, <1>4, <1>5, <1>6, <1>7, <1>8, PlanCases

\* An action of the plan is reversed, and Q is what is left to reverse.
LEMMA Reverses ==
    ASSUME fs \in [Paths -> Kinds], NEW b, Original(b), NEW a \in Plan(b), NEW P, NEW Q,
           Accounted(fs, b, P), P \subseteq Q \cup {a}, Reversible(a),
           \A x : Needs(b, x, a) => x \in Q,
           \A y : Needs(b, a, y) => y \notin P
    PROVE  Accounted(Reversed(a), b, Q)
<1> USE DEF Accounted
<1> DEFINE f == Reversed(a)
<1>0. /\ Files \subseteq Paths /\ MailboxPaths \subseteq Paths
      /\ Files \cap MailboxPaths = {} /\ KeeperFile \in Files
  BY LabelsAssumption DEF Paths
<1>1. ASSUME NEW g \in Files, a = Archive(g) PROVE Accounted(f, b, Q)
  <2>1. f = [fs EXCEPT ![g] = IF fs[g] = Absent THEN "plist" ELSE fs[g]]
    BY <1>1 DEF Reversed, Archive
  <2>2. /\ f[g] = (IF fs[g] = Absent THEN "plist" ELSE fs[g])
        /\ \A p \in Paths \ {g} : f[p] = fs[p]
    BY <1>0, <2>1
  <2>3. fs[g] # "new"
    <3>1. CASE g = KeeperFile BY <1>1, <3>1 DEF Needs, FileAccounted
    <3>2. CASE g # KeeperFile BY <3>2 DEF FileAccounted
    <3> QED BY <3>1, <3>2
  <2> HIDE DEF f
  <2>4. f[g] = "plist" BY <1>1, <2>2, <2>3 DEF FileAccounted
  <2>5. FileAccounted(f, Q) BY <1>0, <1>1, <2>2, <2>4, ActionKinds DEF FileAccounted, Absent
  <2>6. CanonicalAccounted(f, b, Q)
    BY <1>0, <1>1, <2>2, ActionKinds DEF CanonicalAccounted
  <2>7. LegacyAccounted(f, b, Q) /\ ShimAccounted(f, Q)
    BY <1>0, <1>1, <2>2, ActionKinds DEF LegacyAccounted, ShimAccounted
  <2> QED BY <2>5, <2>6, <2>7
<1>2. ASSUME b["canonical"] = "link", a = [kind |-> "remove", path |-> "canonical"]
      PROVE  Accounted(f, b, Q)
  <2>1. f = [fs EXCEPT !["canonical"] = "link"] BY <1>2 DEF Reversed
  <2>2. /\ f["canonical"] = "link" /\ \A p \in Paths \ {"canonical"} : f[p] = fs[p] BY <1>0, <2>1
  <2> HIDE DEF f
  <2>3. CanonicalAccounted(f, b, Q) BY <1>0, <1>2, <2>2 DEF CanonicalAccounted
  <2>4. FileAccounted(f, Q) BY <1>0, <1>2, <2>2, ActionKinds DEF FileAccounted
  <2>5. LegacyAccounted(f, b, Q) /\ ShimAccounted(f, Q)
    BY <1>0, <1>2, <2>2, ActionKinds DEF LegacyAccounted, ShimAccounted
  <2> QED BY <2>3, <2>4, <2>5
<1>3. ASSUME b["canonical"] = "dir", a = [kind |-> "rename", path |-> "canonical", to |-> "aside"]
      PROVE  Accounted(f, b, Q)
  <2>1. f = [[fs EXCEPT !["canonical"] = fs["aside"]] EXCEPT !["aside"] = Absent]
    BY <1>3 DEF Reversed
  <2>2. /\ f["canonical"] = fs["aside"] /\ f["aside"] = Absent
        /\ \A p \in Paths \ {"canonical", "aside"} : f[p] = fs[p]
    BY <1>0, <2>1
  <2>3. fs["aside"] # Absent BY <1>3 DEF Reversible
  <2> HIDE DEF f
  <2>4. fs["aside"] = "dir" BY <2>3 DEF CanonicalAccounted
  <2>5. CanonicalAccounted(f, b, Q) BY <1>0, <1>3, <2>2, <2>4 DEF CanonicalAccounted
  <2>6. FileAccounted(f, Q) BY <1>0, <1>3, <2>2, ActionKinds DEF FileAccounted
  <2>7. LegacyAccounted(f, b, Q) /\ ShimAccounted(f, Q)
    BY <1>0, <1>3, <2>2, ActionKinds DEF LegacyAccounted, LegacyMoved, ShimAccounted
  <2> QED BY <2>5, <2>6, <2>7
<1>4. ASSUME a = Create("canonical") PROVE Accounted(f, b, Q)
  <2>1. f = [fs EXCEPT !["canonical"] = IF fs["canonical"] \in {"dir", "newdir"}
                                       THEN fs["canonical"] ELSE Absent]
    BY <1>4 DEF Reversed, Create
  <2>2. /\ f["canonical"] = (IF fs["canonical"] \in {"dir", "newdir"}
                             THEN fs["canonical"] ELSE Absent)
        /\ \A p \in Paths \ {"canonical"} : f[p] = fs[p]
    BY <1>0, <2>1
  <2>3. Displaced(b) \subseteq Q BY <1>4 DEF Needs
  <2> HIDE DEF f
  <2>4. CanonicalAccounted(f, b, Q)
    BY <1>0, <2>2, <2>3 DEF CanonicalAccounted, Original, Absent
  <2>5. FileAccounted(f, Q) BY <1>0, <1>4, <2>2, LabelsAssumption, ActionKinds DEF FileAccounted
  <2>6. LegacyAccounted(f, b, Q) /\ ShimAccounted(f, Q)
    BY <1>0, <1>4, <2>2, ActionKinds DEF LegacyAccounted, ShimAccounted
  <2> QED BY <2>4, <2>5, <2>6
<1>5. ASSUME b["legacy"] # Absent,
             a = [kind |-> "rename", path |-> "legacy", to |-> "legacyAside"]
      PROVE  Accounted(f, b, Q)
  <2>1. f = [[fs EXCEPT !["legacy"] = fs["legacyAside"]] EXCEPT !["legacyAside"] = Absent]
    BY <1>5 DEF Reversed
  <2>2. /\ f["legacy"] = fs["legacyAside"] /\ f["legacyAside"] = Absent
        /\ \A p \in Paths \ {"legacy", "legacyAside"} : f[p] = fs[p]
    BY <1>0, <2>1
  <2>3. fs["legacyAside"] # Absent BY <1>5 DEF Reversible
  <2> HIDE DEF f
  <2>4. fs["legacyAside"] = "dir" /\ b["legacy"] = "dir" BY <2>3 DEF LegacyAccounted
  <2>5. LegacyAccounted(f, b, Q) BY <1>0, <1>5, <2>2, <2>4 DEF LegacyAccounted
  <2>6. FileAccounted(f, Q) BY <1>0, <1>5, <2>2, ActionKinds DEF FileAccounted
  <2>7. CanonicalAccounted(f, b, Q) /\ ShimAccounted(f, Q)
    BY <1>0, <1>5, <2>2, ActionKinds DEF CanonicalAccounted, ShimAccounted
  <2> QED BY <2>5, <2>6, <2>7
<1>6. ASSUME a = MakeLegacy PROVE Accounted(f, b, Q)
  <2>1. f = [fs EXCEPT !["legacy"] = Absent] BY <1>6 DEF Reversed, MakeLegacy
  <2>2. /\ f["legacy"] = Absent /\ \A p \in Paths \ {"legacy"} : f[p] = fs[p] BY <1>0, <2>1
  <2>3. fs["legacy"] = "newdir" BY <1>6 DEF Reversible, MakeLegacy
  <2> HIDE DEF f
  <2>4. LegacyMoved(b) \subseteq Q BY <1>6 DEF Needs
  <2>5. LegacyAccounted(f, b, Q)
    BY <1>0, <2>2, <2>3, <2>4 DEF LegacyAccounted, Original, Absent
  <2>6. FileAccounted(f, Q) BY <1>0, <1>6, <2>2, ActionKinds DEF FileAccounted
  <2>7. CanonicalAccounted(f, b, Q) /\ ShimAccounted(f, Q)
    BY <1>0, <1>6, <2>2, ActionKinds DEF CanonicalAccounted, ShimAccounted
  <2> QED BY <2>5, <2>6, <2>7
<1>7. ASSUME a = Create("shim") PROVE Accounted(f, b, Q)
  <2>1. f = [fs EXCEPT !["shim"] = IF fs["shim"] \in {"dir", "newdir"}
                                   THEN fs["shim"] ELSE Absent]
    BY <1>7 DEF Reversed, Create
  <2>2. f["shim"] = Absent /\ \A p \in Paths \ {"shim"} : f[p] = fs[p]
    BY <1>0, <2>1 DEF ShimAccounted, Absent
  <2> HIDE DEF f
  <2>3. ShimAccounted(f, Q) BY <2>2 DEF ShimAccounted, Absent
  <2>4. FileAccounted(f, Q) BY <1>0, <1>7, <2>2, ActionKinds DEF FileAccounted
  <2>5. CanonicalAccounted(f, b, Q) /\ LegacyAccounted(f, b, Q)
    BY <1>0, <1>7, <2>2, ActionKinds DEF CanonicalAccounted, LegacyAccounted
  <2> QED BY <2>3, <2>4, <2>5
<1>8. ASSUME a = Create(KeeperFile) PROVE Accounted(f, b, Q)
  <2>1. f = [fs EXCEPT ![KeeperFile] = IF fs[KeeperFile] \in {"dir", "newdir"}
                                       THEN fs[KeeperFile] ELSE Absent]
    BY <1>8 DEF Reversed, Create
  <2>2. f[KeeperFile] = Absent /\ \A p \in Paths \ {KeeperFile} : f[p] = fs[p]
    BY <1>0, <2>1 DEF FileAccounted, Absent
  <2>3. Archive(KeeperFile) \in Q BY <1>8 DEF Needs
  <2> HIDE DEF f
  <2>4. FileAccounted(f, Q) BY <1>0, <1>8, <2>2, <2>3, ActionKinds DEF FileAccounted, Absent
  <2>5. CanonicalAccounted(f, b, Q) BY <1>0, <1>8, <2>2, ActionKinds DEF CanonicalAccounted
  <2>6. LegacyAccounted(f, b, Q) /\ ShimAccounted(f, Q)
    BY <1>0, <1>8, <2>2, ActionKinds DEF LegacyAccounted, ShimAccounted
  <2> QED BY <2>4, <2>5, <2>6
<1> QED BY <1>1, <1>2, <1>3, <1>4, <1>5, <1>6, <1>7, <1>8, PlanCases

-----------------------------------------------------------------------------
(***************************************************************************)
(* The run directory, the steps that are left and the reversals that are   *)
(* left.  A step is recorded by "effect", except the directory, which is   *)
(* made by then.                                                           *)
(***************************************************************************)
Done == ToSet(run.actions)
Left == ToSet(script.todo)
Pending == IF script.at = "undo" THEN Left ELSE Done

RunInv ==
    IF run = Nothing THEN Original(fs)
    ELSE /\ Original(run.before) /\ Done \subseteq Plan(run.before)
         /\ \A x, y : Needs(run.before, x, y) =>
              (y \in Done => x \in Done) /\ Precedes(x, y, run.actions)

StepsInv ==
    script.at \in {"step", "effect"} =>
        /\ Left \subseteq Plan(run.before) /\ Plan(run.before) \subseteq Left \cup Done
        /\ Distinct(script.todo)
        /\ \A x, y : Needs(run.before, x, y) => Precedes(x, y, script.todo)
        /\ script.at = "step" => Left \cap Done = {} /\ Ahead(fs, run.before, Left)
        /\ script.at = "effect" =>
             /\ Left \cap Done \subseteq {Head(script.todo)}
             /\ IF Head(script.todo) = MakeLegacy
                THEN Left \cap Done = {} /\ Ahead(fs, run.before, Left \ {MakeLegacy})
                ELSE Head(script.todo) \in Done /\ Ahead(fs, run.before, Left)

UndoInv ==
    script.at = "undo" =>
        /\ Left \subseteq Done
        /\ \A x, y : Needs(run.before, x, y) =>
             (y \in Left => x \in Left) /\ Precedes(y, x, script.todo)

FilesInv ==
    /\ script.at \in StopPlaces => fs = run.before /\ run.actions = <<>>
    /\ run # Nothing => Accounted(fs, run.before, Pending)

PlanInv == RunInv /\ StepsInv /\ UndoInv /\ FilesInv

\* A step that leaves the files and the run directory alone and ends at no step or
\* reversal, and one that leaves the script alone as well.
LEMMA PlanRests ==
    ASSUME PlanInv, UNCHANGED <<fs, run>>,
           \/ script' = script
           \/ /\ script'.at \notin {"step", "effect", "undo"}
              /\ script'.at \in StopPlaces => script.at \in StopPlaces
    PROVE  PlanInv'
<1> USE DEF PlanInv
<1>1. CASE script' = script
  BY <1>1 DEF RunInv, StepsInv, UndoInv, FilesInv, Done, Left, Pending
<1>2. CASE /\ script'.at \notin {"step", "effect", "undo"}
           /\ script'.at \in StopPlaces => script.at \in StopPlaces
  <2>1. RunInv' BY DEF RunInv, Done
  <2>2. StepsInv' /\ UndoInv' BY <1>2 DEF StepsInv, UndoInv
  <2>3. ASSUME run # Nothing PROVE Accounted(fs, run.before, Done)
    <3>1. Accounted(fs, run.before, Pending) /\ Pending \subseteq Done
      BY <2>3 DEF FilesInv, UndoInv, Pending
    <3> QED BY <3>1, AccountedMore
  <2>4. FilesInv' BY <1>2, <2>3 DEF FilesInv, Pending, Done
  <2> QED BY <2>1, <2>2, <2>4
<1> QED BY <1>1, <1>2

LEMMA PlanInit == ConsolidationInit => PlanInv
<1> SUFFICES ASSUME ConsolidationInit PROVE PlanInv OBVIOUS
<1>1. script.at = "idle" /\ run = Nothing BY DEF ConsolidationInit, NoScript
<1>2. PICK c \in {Absent, "dir", "link"}, g \in {Absent, "dir"} :
        fs = [p \in Paths |-> CASE p \in Files -> "plist"
                                [] p = "canonical" -> c
                                [] p = "legacy" -> g
                                [] OTHER -> Absent]
  BY DEF ConsolidationInit
<1>3. /\ Files \subseteq Paths /\ MailboxPaths \subseteq Paths
      /\ Files \cap MailboxPaths = {}
  BY LabelsAssumption DEF Paths
<1>4. \A f \in Files : fs[f] = "plist" BY <1>2, <1>3
<1>5. /\ fs["canonical"] = c /\ fs["legacy"] = g
      /\ fs["aside"] = Absent /\ fs["legacyAside"] = Absent /\ fs["shim"] = Absent
  BY <1>2, <1>3
<1>6. Original(fs) BY <1>4, <1>5 DEF Original
<1> QED BY <1>1, <1>6 DEF PlanInv, RunInv, StepsInv, UndoInv, FilesInv, StopPlaces

LEMMA PlanBegins == ASSUME MigrationTyped, PlanInv, Begin PROVE PlanInv'
<1>1. /\ Original(fs) /\ fs' = fs /\ script'.at = "stop"
      /\ run'.before = fs /\ run'.actions = <<>> /\ run' # Nothing
  BY DEF Begin, PlanInv, RunInv, Nothing
<1>2. ToSet(<<>>) = {} /\ \A x, y : Precedes(x, y, <<>>)
  BY ShortSequences, AbsentPrecedes
<1>3. RunInv' BY <1>1, <1>2 DEF RunInv, Done
<1>4. StepsInv' /\ UndoInv' BY <1>1 DEF StepsInv, UndoInv
<1>5. FilesInv' BY <1>1, NothingToAccountFor DEF FilesInv
<1> QED BY <1>3, <1>4, <1>5 DEF PlanInv

LEMMA AheadAtFirst == ASSUME Original(fs) PROVE Ahead(fs, fs, Plan(fs))
BY DEF Ahead, Plan, Archives

LEMMA PlanStarts ==
    ASSUME MigrationTyped, PlanInv, script.at = "stopped",
           script' = [at |-> "step", todo |-> Steps],
           UNCHANGED <<fs, run>>
    PROVE  PlanInv'
<1>1. run # Nothing BY HasRun DEF ScriptAt
<1>2. fs = run.before /\ run.actions = <<>> /\ Original(fs)
  BY <1>1 DEF PlanInv, FilesInv, RunInv, StopPlaces
<1>3. script'.at = "step" /\ script'.todo = Steps OBVIOUS
<1>4. /\ ToSet(Steps) = Plan(fs) /\ Distinct(Steps)
      /\ \A x, y : Needs(fs, x, y) => Precedes(x, y, Steps)
  BY <1>2, StepsOrdered
<1>5. Done = {} BY <1>2, ShortSequences DEF Done
<1>6. RunInv' BY DEF PlanInv, RunInv, Done
<1>7. Done' = {} /\ Left' = Plan(fs) BY <1>3, <1>4, <1>5 DEF Done, Left
<1>8. StepsInv' BY <1>2, <1>3, <1>4, <1>7, AheadAtFirst DEF StepsInv
<1>9. UndoInv' BY <1>3 DEF UndoInv
<1>10. FilesInv' BY <1>2, <1>3, NothingToAccountFor DEF FilesInv, StopPlaces
<1> QED BY <1>6, <1>8, <1>9, <1>10 DEF PlanInv

\* The next step is recorded.
LEMMA PlanRecords ==
    ASSUME MigrationTyped, PlanInv, script.at \in {"step", "effect"}, Recorded,
           script.at = "effect" => Head(script.todo) = MakeLegacy,
           script'.at # "undo", script'.at \notin StopPlaces
    PROVE  RunInv' /\ UndoInv' /\ FilesInv' /\ Done' = Done \cup {Head(script.todo)}
           /\ run'.before = run.before
<1> DEFINE a == Head(script.todo)
           b == run.before
<1>1. script \in FileScripts /\ script.todo \in Seq(Actions) /\ script.todo # <<>>
  BY Shapes DEF MigrationTyped, ScriptTyped, FilePlaces, FileScripts
<1>2. /\ run # Nothing /\ run \in RunDirectories
      /\ run.actions \in Seq(Actions)
  BY HasRun DEF ScriptAt
<1>3. a \in Actions /\ a \in Left /\ \A x : Precedes(x, a, script.todo) => x \notin Left
  BY <1>1, TakenFirst DEF Left
<1>4. fs' = fs /\ run' = [run EXCEPT !.actions = Append(run.actions, a)] BY DEF Recorded
<1> HIDE DEF a
<1>5. /\ Append(run.actions, a) \in Seq(Actions) /\ ToSet(Append(run.actions, a)) = Done \cup {a}
      /\ \A x, y : Precedes(x, y, run.actions) /\ x # y /\ (a = x => y \notin Done)
                   => Precedes(x, y, Append(run.actions, a))
  BY <1>2, <1>3, Appended DEF Done
<1>6. PICK s : s = Append(run.actions, a) OBVIOUS
<1>7. run' = [before |-> b, actions |-> s] BY <1>2, <1>4, <1>6
<1>8. run'.before = b /\ run'.actions = s /\ run' # Nothing BY <1>7 DEF Nothing
<1>9. Done' = Done \cup {a} BY <1>5, <1>6, <1>8 DEF Done
<1>10. /\ Original(b) /\ Done \subseteq Plan(b)
       /\ \A x, y : Needs(b, x, y) => (y \in Done => x \in Done) /\ Precedes(x, y, run.actions)
  BY <1>2 DEF PlanInv, RunInv
<1>11. /\ Left \subseteq Plan(b) /\ Plan(b) \subseteq Left \cup Done
       /\ \A x, y : Needs(b, x, y) => Precedes(x, y, script.todo)
  BY DEF PlanInv, StepsInv
<1>12. ASSUME NEW x, NEW y, Needs(b, x, y)
       PROVE  (y \in Done \cup {a} => x \in Done \cup {a}) /\ Precedes(x, y, s)
  <2>1. x \in Plan(b) /\ x # y /\ x.kind # "mkdir" BY <1>12, NeedsPlan
  <2>2. y = a => x \in Done BY <1>3, <1>11, <1>12, <2>1
  <2>3. ASSUME a = x PROVE y \notin Done
    <3>1. script.at = "step" BY <2>1, <2>3, ActionKinds DEF a
    <3>2. Left \cap Done = {} BY <3>1 DEF PlanInv, StepsInv
    <3> QED BY <1>3, <1>10, <1>12, <2>3, <3>2
  <2>4. Precedes(x, y, s) BY <1>5, <1>6, <1>10, <1>12, <2>1, <2>3
  <2> QED BY <1>10, <1>12, <2>2, <2>4
<1>13. RunInv'
  <2>1. Done \cup {a} \subseteq Plan(b) BY <1>3, <1>10, <1>11
  <2> QED BY <1>8, <1>9, <1>10, <1>12, <2>1 DEF RunInv
<1>14. UndoInv' BY DEF UndoInv
<1>15. FilesInv'
  <2>1. Accounted(fs, b, Done) BY <1>2 DEF PlanInv, FilesInv, Pending
  <2>2. Accounted(fs, b, Done \cup {a}) BY <2>1, AccountedMore
  <2>3. Pending' = Done' BY DEF Pending
  <2> QED BY <1>4, <1>8, <1>9, <2>2, <2>3 DEF FilesInv
<1> QED BY <1>8, <1>9, <1>13, <1>14, <1>15 DEF a

\* The next step takes effect.
LEMMA PlanTakesEffect ==
    ASSUME MigrationTyped, PlanInv, script.at \in {"step", "effect"}, Effected,
           IF Head(script.todo) = MakeLegacy THEN script.at = "step" ELSE script.at = "effect",
           script'.at # "undo", script'.at \notin StopPlaces
    PROVE  RunInv' /\ UndoInv' /\ FilesInv' /\ run' = run /\ Done' = Done
           /\ Ahead(fs', run.before, Left \ {Head(script.todo)})
<1> DEFINE a == Head(script.todo)
           b == run.before
<1>1. script \in FileScripts /\ script.todo \in Seq(Actions) /\ script.todo # <<>>
  BY Shapes DEF MigrationTyped, ScriptTyped, FilePlaces, FileScripts
<1>2. run # Nothing BY HasRun DEF ScriptAt
<1>3. a \in Left /\ \A x : Precedes(x, a, script.todo) => x \notin Left
  BY <1>1, TakenFirst DEF Left
<1>4. fs' = Applied(a) /\ run' = run /\ Done' = Done BY DEF Effected, Done
<1> HIDE DEF a
<1>5. /\ Left \subseteq Plan(b) /\ Plan(b) \subseteq Left \cup Done /\ Ahead(fs, b, Left)
      /\ \A x, y : Needs(b, x, y) => Precedes(x, y, script.todo)
      /\ a \in Done \/ a = MakeLegacy
  BY DEF PlanInv, StepsInv, a
<1>6. Original(b) /\ Accounted(fs, b, Done)
  BY <1>2 DEF PlanInv, RunInv, FilesInv, Pending
<1>7. ASSUME NEW x, Needs(b, x, a) PROVE x \in Done /\ x \notin Left
  BY <1>3, <1>5, <1>7, NeedsPlan
<1>8. fs \in [Paths -> Kinds] BY DEF MigrationTyped, ConsolidationTypeOK, Kinds
<1>9. Accounted(Applied(a), b, Done) /\ Ahead(Applied(a), b, Left \ {a})
  BY <1>3, <1>5, <1>6, <1>7, <1>8, Installs
<1>10. RunInv' BY <1>2, <1>4 DEF PlanInv, RunInv
<1>11. UndoInv' BY DEF UndoInv
<1>12. FilesInv' BY <1>4, <1>9 DEF FilesInv, Pending
<1> QED BY <1>4, <1>9, <1>10, <1>11, <1>12 DEF a

LEMMA OneDirectory ==
    ASSUME NEW b, NEW a \in Plan(b)
    PROVE  a.kind = "mkdir" <=> a = MakeLegacy
BY PlanCases, ActionKinds

LEMMA PlanFirst == ASSUME MigrationTyped, PlanInv, StepFirst PROVE PlanInv'
<1> DEFINE a == Head(script.todo)
           b == run.before
<1>1. script.at = "step" BY DEF StepFirst, ScriptAt
<1>2. script \in FileScripts /\ script.todo \in Seq(Actions) /\ script.todo # <<>>
  BY <1>1, Shapes DEF MigrationTyped, ScriptTyped, FilePlaces, FileScripts
<1>3. script'.at = "effect" /\ script'.todo = script.todo /\ Left' = Left
  BY <1>2, Advances DEF StepFirst, ScriptGoes, FilePlaces, Left
<1>4. a \in Left BY <1>2, TakenFirst DEF Left
<1>5. /\ Left \subseteq Plan(b) /\ Plan(b) \subseteq Left \cup Done /\ Distinct(script.todo)
      /\ \A x, y : Needs(b, x, y) => Precedes(x, y, script.todo)
      /\ Left \cap Done = {} /\ Ahead(fs, b, Left)
  BY <1>1 DEF PlanInv, StepsInv
<1>6. a.kind = "mkdir" <=> a = MakeLegacy BY <1>4, <1>5, OneDirectory
<1>7. CASE a = MakeLegacy
  <2>1. Effected BY <1>6, <1>7 DEF StepFirst
  <2>2. RunInv' /\ UndoInv' /\ FilesInv' /\ run' = run /\ Done' = Done
        /\ Ahead(fs', b, Left \ {a})
    BY <1>1, <1>3, <1>7, <2>1, PlanTakesEffect DEF StopPlaces
  <2>3. StepsInv' BY <1>3, <1>5, <1>7, <2>2 DEF StepsInv
  <2> QED BY <2>2, <2>3 DEF PlanInv
<1>8. CASE a # MakeLegacy
  <2>1. Recorded BY <1>6, <1>8 DEF StepFirst
  <2>2. RunInv' /\ UndoInv' /\ FilesInv' /\ Done' = Done \cup {a} /\ run'.before = b
    BY <1>1, <1>3, <2>1, PlanRecords DEF StopPlaces
  <2>3. fs' = fs BY <2>1 DEF Recorded
  <2>4. StepsInv' BY <1>3, <1>5, <1>8, <2>2, <2>3 DEF StepsInv
  <2> QED BY <2>2, <2>4 DEF PlanInv
<1> QED BY <1>7, <1>8

LEMMA PlanSecond ==
    ASSUME MigrationTyped, PlanInv, StepSecond
    PROVE  /\ PlanInv'
           /\ script'.at = "enable" => \A f \in Files : fs'[f] \in {Absent, "new"}
<1> DEFINE a == Head(script.todo)
           t == Tail(script.todo)
           b == run.before
<1>1. script.at = "effect" BY DEF StepSecond, ScriptAt
<1>2. script \in FileScripts /\ script.todo \in Seq(Actions) /\ script.todo # <<>>
  BY <1>1, Shapes DEF MigrationTyped, ScriptTyped, FilePlaces, FileScripts
<1>3. /\ script'.at = (IF Len(script.todo) = 1 THEN "enable" ELSE "step")
      /\ script'.todo = t
  BY DEF StepSecond
<1>4. /\ Left \subseteq Plan(b) /\ Plan(b) \subseteq Left \cup Done /\ Distinct(script.todo)
      /\ \A x, y : Needs(b, x, y) => Precedes(x, y, script.todo)
      /\ Left \cap Done \subseteq {a}
      /\ IF a = MakeLegacy
         THEN Left \cap Done = {} /\ Ahead(fs, b, Left \ {MakeLegacy})
         ELSE a \in Done /\ Ahead(fs, b, Left)
  BY <1>1 DEF PlanInv, StepsInv
<1>5. /\ a \in Left /\ ToSet(t) = Left \ {a} /\ Distinct(t) /\ t \in Seq(Actions)
      /\ \A x, y : Needs(b, x, y) => Precedes(x, y, t)
  BY <1>2, <1>4, TakenFirst DEF Left
<1>6. a.kind = "mkdir" <=> a = MakeLegacy BY <1>4, <1>5, OneDirectory
<1>7. RunInv' /\ UndoInv' /\ FilesInv' /\ Done' = Done \cup {a} /\ run'.before = b
      /\ Ahead(fs', b, Left \ {a})
  <2>1. CASE a = MakeLegacy
    <3>1. Recorded BY <1>6, <2>1 DEF StepSecond
    <3>2. RunInv' /\ UndoInv' /\ FilesInv' /\ Done' = Done \cup {a} /\ run'.before = b
      BY <1>1, <1>3, <2>1, <3>1, PlanRecords DEF StopPlaces
    <3>3. fs' = fs BY <3>1 DEF Recorded
    <3> QED BY <1>4, <2>1, <3>2, <3>3
  <2>2. CASE a # MakeLegacy
    <3>1. Effected BY <1>6, <2>2 DEF StepSecond
    <3> QED BY <1>1, <1>3, <1>4, <2>2, <3>1, PlanTakesEffect DEF StopPlaces
  <2> QED BY <2>1, <2>2
<1>8. Left' = Left \ {a} BY <1>3, <1>5 DEF Left
<1>9. StepsInv'
  <2> HIDE DEF a, t
  <2> SUFFICES ASSUME script'.at = "step" PROVE StepsInv' BY <1>3 DEF StepsInv
  <2>1. Left' \cap Done' = {} BY <1>4, <1>7, <1>8
  <2> QED BY <1>3, <1>4, <1>5, <1>7, <1>8, <2>1 DEF StepsInv
<1>10. ASSUME script'.at = "enable" PROVE \A f \in Files : fs'[f] \in {Absent, "new"}
  <2>1. Len(script.todo) = 1 BY <1>3, <1>10
  <2>2. Left = {a}
    <3>1. Left = {script.todo[i] : i \in 1 .. 1} BY <1>2, <2>1, InSequence DEF Left
    <3> QED BY <3>1, <1>5
  <2>3. Left \ {a} = {} BY <2>2
  <2> QED BY <1>7, <2>3 DEF Ahead
<1> QED BY <1>7, <1>9, <1>10 DEF PlanInv

LEMMA PlanRollsBack == ASSUME MigrationTyped, PlanInv, Rollback PROVE PlanInv'
<1>1. /\ run # Nothing /\ script.at = "idle" /\ UNCHANGED <<fs, run>>
      /\ script'.at = "undo" /\ script'.todo = Reverse(run.actions)
  BY DEF Rollback, RollbackAllowed, ScriptAt
<1>2. run.actions \in Seq(Actions) BY <1>1 DEF MigrationTyped, RunTyped
<1>3. Left' = Done /\ Done' = Done
      /\ \A x, y : Precedes(x, y, run.actions) => Precedes(y, x, Reverse(run.actions))
  BY <1>1, <1>2, TurnedRound DEF Left, Done
<1>4. RunInv' BY <1>1 DEF PlanInv, RunInv, Done
<1>5. StepsInv' BY <1>1 DEF StepsInv
<1>6. UndoInv' BY <1>1, <1>3 DEF UndoInv, PlanInv, RunInv
<1>7. FilesInv' BY <1>1, <1>3 DEF FilesInv, PlanInv, Pending, StopPlaces
<1> QED BY <1>4, <1>5, <1>6, <1>7 DEF PlanInv

LEMMA PlanUndone == ASSUME MigrationTyped, PlanInv, Undo PROVE PlanInv'
<1> DEFINE a == Head(script.todo)
           t == Tail(script.todo)
           b == run.before
<1>1. script.at = "undo" /\ run' = run /\ script.todo # <<>> BY DEF Undo, ScriptAt
<1>2. CASE ~Reversible(a)
  <2>1. fs' = fs /\ script'.at = "idle" BY <1>2 DEF Undo, Hold, NoScript
  <2> QED BY <1>1, <2>1, PlanRests DEF StopPlaces
<1>3. CASE Reversible(a)
  <2>1. script \in FileScripts /\ script.todo \in Seq(Actions)
    BY <1>1, Shapes DEF MigrationTyped, FilePlaces, FileScripts
  <2>2. fs' = Reversed(a) /\ script' = [script EXCEPT !.todo = t] BY <1>3 DEF Undo
  <2>3. script'.at = "undo" /\ script'.todo = t BY <1>1, <2>1, <2>2 DEF FileScripts
  <2>4. /\ run # Nothing BY <1>1, HasRun DEF ScriptAt
  <2>5. /\ Original(b) /\ Done \subseteq Plan(b) /\ Accounted(fs, b, Left)
    BY <1>1, <2>4 DEF PlanInv, RunInv, FilesInv, Pending
  <2>6. /\ Left \subseteq Done
        /\ \A x, y : Needs(b, x, y) => (y \in Left => x \in Left) /\ Precedes(y, x, script.todo)
    BY <1>1 DEF PlanInv, UndoInv
  <2>7. /\ a \in Left /\ Left = {a} \cup ToSet(t)
        /\ \A x, y : Precedes(x, y, script.todo) => Precedes(x, y, t)
        /\ \A x : Precedes(x, a, script.todo) => x \notin Left
    BY <1>1, <2>1, TakenFirst DEF Left
  <2>8. Left' = ToSet(t) /\ Done' = Done BY <1>1, <2>3 DEF Left, Done
  <2>9. fs \in [Paths -> Kinds] BY DEF MigrationTyped, ConsolidationTypeOK, Kinds
  <2> HIDE DEF a, t
  <2>10. \A x : Needs(b, x, a) => x \in ToSet(t)
    <3>1. ASSUME NEW x, Needs(b, x, a) PROVE x \in ToSet(t)
      <4>1. x # a BY <3>1, NeedsPlan
      <4> QED BY <2>6, <2>7, <3>1, <4>1
    <3> QED BY <3>1
  <2>11. \A y : Needs(b, a, y) => y \notin Left BY <2>6, <2>7
  <2>12. Accounted(Reversed(a), b, ToSet(t))
    BY <1>3, <2>5, <2>6, <2>7, <2>9, <2>10, <2>11, Reverses
  <2>13. UndoInv' BY <1>1, <2>3, <2>6, <2>7, <2>8, <2>11 DEF UndoInv
  <2>14. FilesInv' BY <1>1, <2>2, <2>3, <2>8, <2>12 DEF FilesInv, Pending, StopPlaces
  <2>15. RunInv' BY <1>1, <2>4 DEF PlanInv, RunInv, Done
  <2>16. StepsInv' BY <2>3 DEF StepsInv
  <2> QED BY <2>13, <2>14, <2>15, <2>16 DEF PlanInv
<1> QED BY <1>2, <1>3

LEMMA PlanStep == MigrationTyped /\ PlanInv /\ [ConsolidationNext]_consolidationVars => PlanInv'
<1> SUFFICES ASSUME MigrationTyped, PlanInv, [ConsolidationNext]_consolidationVars PROVE PlanInv'
  OBVIOUS
<1>1. /\ \A p \in StopPlaces : ScriptAt(p) => script \in StopScripts
      /\ \A p \in FilePlaces : ScriptAt(p) => script \in FileScripts
  BY Shapes DEF MigrationTyped, ScriptAt
<1>2. CASE \E l \in Labels : DaemonStep(l) BY <1>2, DaemonTyped, PlanRests
<1>3. CASE UNCHANGED <<fs, run>> /\ script' = NoScript
  <2>1. script'.at = "idle" BY <1>3 DEF NoScript
  <2> QED BY <1>3, <2>1, PlanRests DEF StopPlaces
<1>4. ASSUME NEW p \in {"bootout", "unload", "stop", "stopped"}, NEW q \in StopPlaces,
             ScriptAt(q), ScriptGoes(p), UNCHANGED <<fs, run>>
      PROVE  PlanInv'
  <2>1. script'.at = p BY <1>1, <1>4, Advances DEF ScriptGoes, StopPlaces
  <2> QED BY <1>4, <2>1, PlanRests DEF StopPlaces, ScriptAt
<1>5. ASSUME NEW p \in {"bootstrap", "verify", "complete"}, NEW q \in FilePlaces,
             ScriptAt(q), ScriptGoes(p), UNCHANGED <<fs, run>>
      PROVE  PlanInv'
  <2>1. script'.at = p BY <1>1, <1>5, Advances DEF ScriptGoes, FilePlaces
  <2> QED BY <1>5, <2>1, PlanRests DEF StopPlaces
<1>6. CASE Begin BY <1>6, PlanBegins
<1>7. CASE Disable
  <2>1. script.at = "stop" /\ script \in StopScripts
    BY <1>1, <1>7 DEF Disable, ScriptAt, StopPlaces
  <2>2. script'.at = "bootout" /\ UNCHANGED <<fs, run>> BY <1>7, <2>1 DEF Disable, StopScripts
  <2> QED BY <2>1, <2>2, PlanRests DEF StopPlaces
<1>8. CASE Bootout BY <1>4, <1>8 DEF Bootout, StopPlaces
<1>9. CASE Stopped BY <1>3, <1>4, <1>9 DEF Stopped, StopPlaces, Hold
<1>10. CASE AfterStop BY <1>3, <1>10, PlanStarts DEF AfterStop, Hold, ScriptAt
<1>11. CASE StepFirst BY <1>11, PlanFirst
<1>12. CASE StepSecond BY <1>12, PlanSecond
<1>13. CASE Enable BY <1>5, <1>13 DEF Enable, FilePlaces
<1>14. CASE Bootstrap BY <1>3, <1>5, <1>14 DEF Bootstrap, FilePlaces, Hold
<1>15. CASE VerifyOwner BY <1>3, <1>5, <1>15 DEF VerifyOwner, FilePlaces, Hold
<1>16. CASE Complete \/ Restored \/ ScriptDies \/ Reboot
  BY <1>3, <1>16 DEF Complete, Restored, ScriptDies, Reboot, Hold
<1>17. CASE StandDown BY <1>17, PlanRests DEF StandDown
<1>18. CASE Rollback BY <1>18, PlanRollsBack
<1>19. CASE Undo BY <1>19, PlanUndone
<1>20. CASE UNCHANGED consolidationVars BY <1>20, PlanRests DEF consolidationVars
<1> QED BY <1>2, <1>6, <1>7, <1>8, <1>9, <1>10, <1>11, <1>12, <1>13, <1>14, <1>15, <1>16, <1>17,
           <1>18, <1>19, <1>20 DEF ConsolidationNext, DaemonStep, Migrate

\* A rollback that ends without a Hold has put back every file, link and directory,
\* whatever died and however often it was tried; at most the empty directory of a
\* legacy coordinator is left.
THEOREM RollbackPutsBack == ConsolidationSpec => RollbackRestores
<1>1. MigrationTyped /\ PlanInv /\ [ConsolidationNext]_consolidationVars
      => [Restored => \A p \in Paths : \/ fs[p] = run.before[p]
                                       \/ run.before[p] = Absent /\ fs[p] = "newdir"
          ]_consolidationVars
  <2> SUFFICES ASSUME MigrationTyped, PlanInv, Restored, NEW p \in Paths
               PROVE  fs[p] = run.before[p] \/ (run.before[p] = Absent /\ fs[p] = "newdir")
    OBVIOUS
  <2>1. script.at = "undo" /\ script.todo = <<>> BY DEF Restored, ScriptAt
  <2>2. run # Nothing BY <2>1, HasRun DEF ScriptAt
  <2>3. Pending = {} BY <2>1, ShortSequences DEF Pending, Left
  <2>4. Original(run.before) /\ Accounted(fs, run.before, {})
    BY <2>2, <2>3 DEF PlanInv, RunInv, FilesInv
  <2> QED BY <2>4, AllReversed
<1> QED BY <1>1, InitTyped, TypedStep, PlanInit, PlanStep, PTL
  DEF ConsolidationSpec, RollbackRestores

-----------------------------------------------------------------------------
(***************************************************************************)
(* No old owner returns.  What launchd can start after the point of no     *)
(* return is the release: the jobs it has and the registrations it finds.  *)
(***************************************************************************)
Retired == \A f \in Files : fs[f] \in {Absent, "new"}

RetiredInv ==
    /\ script.at = "enable" => Retired
    /\ released => /\ script.at \in {"idle", "bootstrap", "verify", "complete"}
                   /\ run # Nothing /\ Retired
                   /\ \A l \in Labels : job[l] \in {Absent, "release"}
                   /\ \A l \in Up : proc[l] = "release"

LEMMA RetiredDaemon ==
    ASSUME MigrationTyped, RetiredInv, NEW l \in Labels, DaemonStep(l)
    PROVE  RetiredInv'
<1>1. UNCHANGED <<fs, script, run, job, released>> BY DaemonTyped DEF launchd
<1>2. ASSUME released, NEW m \in Up' PROVE proc'[m] = "release"
  <2>1. m \in Labels /\ proc'[m] # Absent BY <1>2 DEF Up
  <2>2. proc'[m] = proc[m] \/ proc'[m] = job[m] \/ proc'[m] = Absent
    BY <2>1 DEF DaemonStep, Spawn, Admit, Proceed, Drained, Die, End, MigrationTyped,
                ConsolidationTypeOK
  <2> QED BY <1>2, <2>1, <2>2 DEF RetiredInv, Up
<1> QED BY <1>1, <1>2 DEF RetiredInv, Retired

LEMMA RetiredReboot == ASSUME MigrationTyped, RetiredInv, Reboot PROVE RetiredInv'
<1>1. /\ fs' = fs /\ run' = run /\ released' = released /\ script'.at = "idle" /\ Up' = {}
  BY DEF Reboot, NoScript, Up
<1>2. ASSUME released, NEW l \in Labels PROVE job'[l] \in {Absent, "release"}
  <2>1. Retired BY <1>2 DEF RetiredInv
  <2>2. \A f \in Declaring(l) : ProgramOf(f) = "release"
    BY <2>1 DEF Declaring, Retired, ProgramOf
  <2> QED BY <2>2 DEF Reboot
<1> QED BY <1>1, <1>2 DEF RetiredInv, Retired

\* A step that starts nothing, leaves the files alone and goes on within the places
\* allowed after the point of no return.
LEMMA RetiredRests ==
    ASSUME RetiredInv, UNCHANGED <<fs, proc, run, released>>,
           \A l \in Labels : job'[l] \in {job[l], Absent, "release"},
           script'.at = "enable" => script.at = "enable",
           released => script'.at \in {"idle", "bootstrap", "verify", "complete"}
    PROVE  RetiredInv'
<1>1. Retired' = Retired /\ Up' = Up BY DEF Retired, Up
<1> QED BY <1>1 DEF RetiredInv

LEMMA RetiredStep ==
    MigrationTyped /\ InstallsInQuiet /\ PlanInv /\ RetiredInv
    /\ [ConsolidationNext]_consolidationVars => RetiredInv'
<1> SUFFICES ASSUME MigrationTyped, InstallsInQuiet, PlanInv, RetiredInv,
                    [ConsolidationNext]_consolidationVars
             PROVE  RetiredInv'
  OBVIOUS
<1>1. /\ \A p \in StopPlaces : ScriptAt(p) => script \in StopScripts
      /\ \A p \in FilePlaces : ScriptAt(p) => script \in FileScripts
  BY Shapes DEF MigrationTyped, ScriptAt
<1>2. CASE \E l \in Labels : DaemonStep(l) BY <1>2, RetiredDaemon
<1>3. CASE Reboot BY <1>3, RetiredReboot
<1>4. ASSUME UNCHANGED <<fs, proc, run, released, job>>, script' = NoScript PROVE RetiredInv'
  BY <1>4, RetiredRests DEF NoScript
<1>5. ASSUME ~released, ~released', script'.at # "enable" PROVE RetiredInv'
  BY <1>5 DEF RetiredInv
<1>6. ASSUME script.at \in {"stop", "bootout", "unload", "stopped", "step", "effect", "undo"}
      PROVE  ~released
  BY <1>6 DEF RetiredInv
<1>7. CASE Begin
  <2>1. ~released BY <1>7 DEF Begin, RetiredInv
  <2> QED BY <1>5, <1>7, <2>1 DEF Begin
<1>8. CASE Disable
  <2>1. script'.at = "bootout" BY <1>1, <1>8 DEF Disable, StopPlaces, StopScripts
  <2> QED BY <1>5, <1>6, <1>8, <2>1 DEF Disable, ScriptAt
<1>9. CASE Bootout
  <2>1. script'.at = "unload" BY <1>1, <1>9 DEF Bootout, StopPlaces, StopScripts, ScriptGoes
  <2> QED BY <1>5, <1>6, <1>9, <2>1 DEF Bootout, ScriptAt
<1>10. CASE Stopped
  <2>1. script'.at # "enable"
    BY <1>1, <1>10 DEF Stopped, StopPlaces, StopScripts, ScriptGoes, Hold, NoScript
  <2> QED BY <1>5, <1>6, <1>10, <2>1 DEF Stopped, ScriptAt
<1>11. CASE AfterStop
  <2>1. script'.at # "enable" BY <1>11 DEF AfterStop, Hold, NoScript
  <2> QED BY <1>5, <1>6, <1>11, <2>1 DEF AfterStop, ScriptAt
<1>12. CASE StepFirst
  <2>1. script'.at = "effect" BY <1>1, <1>12 DEF StepFirst, FilePlaces, FileScripts, ScriptGoes
  <2> QED BY <1>5, <1>6, <1>12, <2>1 DEF StepFirst, ScriptAt
<1>13. CASE StepSecond
  <2>1. script'.at = "enable" => Retired' BY <1>13, PlanSecond DEF Retired
  <2>2. ~released /\ ~released' BY <1>6, <1>13 DEF StepSecond, ScriptAt
  <2> QED BY <2>1, <2>2 DEF RetiredInv
<1>14. CASE Enable
  <2>1. /\ script.at = "enable" /\ script'.at = "bootstrap"
        /\ fs' = fs /\ run' = run /\ job' = job /\ proc' = proc
    BY <1>1, <1>14 DEF Enable, FilePlaces, FileScripts, ScriptGoes, ScriptAt, daemons
  <2>2. Up = {} /\ Loaded = {} BY <2>1 DEF InstallsInQuiet, Installing
  <2>3. run # Nothing BY <2>1, HasRun DEF ScriptAt
  <2>4. Retired' BY <2>1 DEF RetiredInv, Retired
  <2>5. Up' = {} /\ \A l \in Labels : job'[l] = Absent BY <2>1, <2>2 DEF Up, Loaded
  <2> QED BY <2>1, <2>3, <2>4, <2>5 DEF RetiredInv
<1>15. CASE Bootstrap
  <2>1. script'.at \in {"verify", "idle"}
    BY <1>1, <1>15 DEF Bootstrap, FilePlaces, FileScripts, ScriptGoes, Hold, NoScript
  <2>2. \A l \in Labels : job'[l] \in {job[l], "release"}
    BY <1>15 DEF Bootstrap, MigrationTyped, ConsolidationTypeOK
  <2> QED BY <1>15, <2>1, <2>2, RetiredRests DEF Bootstrap, daemons
<1>16. CASE VerifyOwner
  <2>1. script'.at \in {"complete", "idle"}
    BY <1>1, <1>16 DEF VerifyOwner, FilePlaces, FileScripts, ScriptGoes, Hold, NoScript
  <2> QED BY <1>16, <2>1, RetiredRests DEF VerifyOwner, daemons, launchd
<1>17. CASE Complete \/ Restored \/ ScriptDies
  BY <1>4, <1>17 DEF Complete, Restored, ScriptDies, Hold, daemons, launchd
<1>18. CASE StandDown
  <2>1. script.at = "idle" /\ UNCHANGED <<fs, proc, run, released, script>>
        /\ \A l \in Labels : job'[l] = Absent
    BY <1>18 DEF StandDown, ScriptAt
  <2> QED BY <2>1, RetiredRests
<1>19. CASE Rollback BY <1>19 DEF Rollback, RetiredInv
<1>20. CASE Undo
  <2>1. script'.at # "enable"
    BY <1>1, <1>20 DEF Undo, FilePlaces, FileScripts, ScriptAt, Hold, NoScript
  <2> QED BY <1>5, <1>6, <1>20, <2>1 DEF Undo, ScriptAt
<1>21. CASE UNCHANGED consolidationVars
  BY <1>21 DEF consolidationVars, RetiredInv, Retired, Up
<1> QED BY <1>2, <1>3, <1>7, <1>8, <1>9, <1>10, <1>11, <1>12, <1>13, <1>14, <1>15, <1>16, <1>17,
           <1>18, <1>19, <1>20, <1>21 DEF ConsolidationNext, DaemonStep, Migrate

\* From the point of no return on, whatever dies and however often the Mac restarts,
\* every daemon that runs is the release.
THEOREM NoOldOwner == ConsolidationSpec => []OldOwnerStaysRetired
<1>1. ConsolidationInit => RetiredInv BY DEF ConsolidationInit, RetiredInv, NoScript
<1>2. RetiredInv => OldOwnerStaysRetired BY DEF RetiredInv, OldOwnerStaysRetired
<1> QED BY <1>1, <1>2, QuietInvariant, PlanInit, PlanStep, RetiredStep, PTL
  DEF ConsolidationSpec
=============================================================================
