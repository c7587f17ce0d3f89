--------------------- MODULE TransactionScheduler_proofs ---------------------
(***************************************************************************)
(* Theorems about TransactionScheduler, for any requests, repositories,    *)
(* workers, bound on what is owned and faults.                             *)
(***************************************************************************)
EXTENDS TransactionScheduler, SequenceTheorems, FiniteSetTheorems, WellFoundedInduction, TLAPS

-----------------------------------------------------------------------------
(***************************************************************************)
(* The inductive invariant.                                                *)
(***************************************************************************)
SequencesOK ==
    /\ pending \in Seq(Tx) /\ active \in Seq(Tx) /\ jobs \in Seq(Tx)
    /\ recov \in Seq(Tx) /\ todo \in Seq(Tx)
    /\ order \in Seq(Repo) /\ cursor \in Nat \ {0} /\ (cursor = 1 \/ cursor <= Len(order))
    /\ passed \in [Repo -> SUBSET Repo]
TypeInv == TypeOK /\ SequencesOK

\* What was handed over and not reaped is in exactly one place, and of each
\* repository there is one transaction at most.
HandedOver ==
    /\ \A i, j \in DOMAIN active : Key(active[i]) = Key(active[j]) => i = j
    /\ IsInjective(jobs)
    /\ ToSet(jobs) \cup running \cup done \subseteq ToSet(active)
    /\ ToSet(jobs) \cap running = {} /\ ToSet(jobs) \cap done = {} /\ running \cap done = {}

\* Where nothing is owned, where nothing is queued, and what is on the list and
\* being finished at each place of the owner thread.
OnList == todo # <<>>
Frame ==
    /\ (at \in {"idle", "stopped", "materialize"} \/ (at = "recover" /\ ~live)) =>
          pending = <<>> /\ active = <<>>
    /\ back = "unwind" => pending = <<>> /\ (at = "unwind" \/ (at = "finish" /\ fin.from = "reap"))
    /\ at = "unwind" => back = "unwind"
    /\ at = "drain" => back \in {"admit", "barrier"}
    /\ at \in {"scan", "wait"} => back = "loop"
    /\ at = "materialize" => OnList
    /\ (at \in {"dispatch", "drain"} /\ back \in {"queued", "admit", "barrier"}) => OnList
    /\ at # "finish" => fin = NoFin
    /\ (at = "finish" /\ fin.from = "ingest") => OnList /\ fin.tx = todo[1]
    /\ (at = "finish" /\ fin.from # "ingest" /\ back \in {"queued", "admit", "barrier"}) => OnList
    /\ at = "finish" => fin.tx \in Tx /\ (fin.from # "ingest" => fin.tx \notin Owned)

\* The request that ingest_requests has at hand.
AtHand == (back = "queued" /\ at \in {"dispatch", "finish"}) \/ fin.tx = todo[1]
Queues ==
    /\ IsInjective(pending) /\ ToSet(pending) \cap ToSet(active) = {}
    /\ \A i \in DOMAIN pending : Key(pending[i]) \in ToSet(order)
    /\ IsInjective(todo)
    /\ \A i \in DOMAIN todo : todo[i] \in Owned => i = 1 /\ AtHand
    /\ (at = "finish" /\ fin.from # "ingest") =>
          \A i \in DOMAIN todo : todo[i] = fin.tx => i = 1 /\ back = "queued"

IInv == TypeInv /\ HandedOver /\ Frame /\ Queues

\* What is owned or listed has no durable result, but for the request at hand
\* and for one that was answered for an exception of another.
Unanswered ==
    /\ \A t \in Owned : t \in durable => t \in misblamed
    /\ \A i \in DOMAIN todo : todo[i] \in durable => i = 1 /\ AtHand
    /\ (at = "finish" /\ fin.from = "ingest" /\ fin.tx \in Owned) => fin.tx \in misblamed

\* In the round that begins at c, i comes after j.
After(c, i, j) == \/ c <= j /\ (j < i \/ i < c)
                  \/ j < i /\ i < c
InTurn ==
    /\ IsInjective(order)
    /\ \A l \in Repo : \A k \in passed[l] :
          \E i, j \in DOMAIN order : order[i] = k /\ order[j] = l /\ After(cursor, i, j)

-----------------------------------------------------------------------------
(***************************************************************************)
(* Sequences.                                                              *)
(***************************************************************************)
LEMMA TailOf ==
    ASSUME NEW T, NEW s \in Seq(T), s # <<>>
    PROVE  /\ Tail(s) \in Seq(T) /\ Len(Tail(s)) = Len(s) - 1 /\ Head(s) = s[1] /\ s[1] \in T
           /\ 1 \in DOMAIN s
           /\ \A i \in DOMAIN Tail(s) : i + 1 \in DOMAIN s /\ Tail(s)[i] = s[i + 1]
           /\ ToSet(Tail(s)) \subseteq ToSet(s)
           /\ IsInjective(s) => IsInjective(Tail(s)) /\ s[1] \notin ToSet(Tail(s))
<1>1. /\ Tail(s) \in Seq(T) /\ Len(Tail(s)) = Len(s) - 1 /\ Head(s) = s[1] /\ Len(s) > 0
      /\ \A i \in 1 .. Len(s) - 1 : Tail(s)[i] = s[i + 1]
  BY HeadTailProperties
<1>2. DOMAIN s = 1 .. Len(s) /\ DOMAIN Tail(s) = 1 .. Len(s) - 1 /\ Len(s) \in Nat
  BY <1>1, LenProperties
<1>3. 1 \in DOMAIN s /\ s[1] \in T BY <1>1, <1>2, ElementOfSeq
<1>4. \A i \in DOMAIN Tail(s) : i + 1 \in DOMAIN s /\ Tail(s)[i] = s[i + 1] BY <1>1, <1>2
<1>5. ToSet(Tail(s)) \subseteq ToSet(s) BY <1>4 DEF ToSet
<1>6. ASSUME IsInjective(s) PROVE IsInjective(Tail(s)) /\ s[1] \notin ToSet(Tail(s))
  <2>1. \A i \in DOMAIN Tail(s) : i \in Int /\ i # 0 BY <1>2
  <2> QED BY <1>3, <1>4, <1>6, <2>1 DEF IsInjective, ToSet
<1> QED BY <1>1, <1>3, <1>4, <1>5, <1>6

LEMMA AppendOf ==
    ASSUME NEW T, NEW s \in Seq(T), NEW x \in T
    PROVE  /\ Append(s, x) \in Seq(T) /\ Len(Append(s, x)) = Len(s) + 1
           /\ \A i \in DOMAIN s : i \in DOMAIN Append(s, x) /\ Append(s, x)[i] = s[i]
           /\ \A i \in DOMAIN Append(s, x) : i \in DOMAIN s \/ Append(s, x)[i] = x
           /\ ToSet(Append(s, x)) = ToSet(s) \cup {x}
           /\ IsInjective(s) /\ x \notin ToSet(s) => IsInjective(Append(s, x))
<1>1. /\ Append(s, x) \in Seq(T) /\ Len(Append(s, x)) = Len(s) + 1
      /\ \A i \in 1 .. Len(s) : Append(s, x)[i] = s[i]
      /\ Append(s, x)[Len(s) + 1] = x
  BY AppendProperties
<1>2. DOMAIN s = 1 .. Len(s) /\ DOMAIN Append(s, x) = 1 .. Len(s) + 1 /\ Len(s) \in Nat
  BY <1>1, LenProperties
<1>3. \A i \in DOMAIN s : i \in DOMAIN Append(s, x) /\ Append(s, x)[i] = s[i] BY <1>1, <1>2
<1>4. \A i \in DOMAIN Append(s, x) : i \in DOMAIN s \/ (i = Len(s) + 1 /\ Append(s, x)[i] = x)
  BY <1>1, <1>2
<1>5. Len(s) + 1 \in DOMAIN Append(s, x) BY <1>2
<1>6. ToSet(Append(s, x)) = ToSet(s) \cup {x} BY <1>1, <1>3, <1>4, <1>5 DEF ToSet
<1>7. IsInjective(s) /\ x \notin ToSet(s) => IsInjective(Append(s, x))
  BY <1>3, <1>4 DEF IsInjective, ToSet
<1> QED BY <1>1, <1>3, <1>4, <1>6, <1>7

LEMMA RemoveAtOf ==
    ASSUME NEW T, NEW s \in Seq(T), NEW n \in DOMAIN s
    PROVE  /\ RemoveAt(s, n) \in Seq(T) /\ Len(RemoveAt(s, n)) = Len(s) - 1 /\ s[n] \in T
           /\ \A i \in DOMAIN RemoveAt(s, n) :
                 \E j \in DOMAIN s \ {n} : RemoveAt(s, n)[i] = s[j] /\ j = IF i < n THEN i ELSE i + 1
           /\ ToSet(RemoveAt(s, n)) \subseteq ToSet(s)
           /\ IsInjective(s) => /\ ToSet(RemoveAt(s, n)) = ToSet(s) \ {s[n]}
                                /\ IsInjective(RemoveAt(s, n))
<1> DEFINE a == SubSeq(s, 1, n - 1)
           b == SubSeq(s, n + 1, Len(s))
           r == a \o b
<1>1. DOMAIN s = 1 .. Len(s) /\ Len(s) \in Nat BY LenProperties
<1>2. s[n] \in T /\ n \in 1 .. Len(s) BY <1>1, ElementOfSeq
<1>3. a \in Seq(T) /\ Len(a) = n - 1 /\ \A i \in 1 .. n - 1 : a[i] = s[i]
  BY <1>1, <1>2, SubSeqProperties
<1>4. b \in Seq(T) /\ Len(b) = Len(s) - n /\ \A i \in 1 .. Len(s) - n : b[i] = s[n + i]
  BY <1>1, <1>2, SubSeqProperties
<1> HIDE DEF a, b
<1>5. /\ r \in Seq(T) /\ Len(r) = Len(s) - 1
      /\ \A i \in 1 .. Len(s) - 1 : r[i] = IF i <= n - 1 THEN a[i] ELSE b[i - (n - 1)]
  <2>1. /\ r \in Seq(T) /\ Len(r) = Len(a) + Len(b)
        /\ \A i \in 1 .. Len(a) + Len(b) : r[i] = IF i <= Len(a) THEN a[i] ELSE b[i - Len(a)]
    BY <1>3, <1>4, ConcatProperties
  <2>2. Len(a) + Len(b) = Len(s) - 1 BY <1>1, <1>2, <1>3, <1>4
  <2> QED BY <1>3, <2>1, <2>2
<1>6. DOMAIN r = 1 .. Len(s) - 1 BY <1>5, LenProperties
<1>7. ASSUME NEW i \in 1 .. Len(s) - 1 PROVE r[i] = s[IF i < n THEN i ELSE i + 1]
  <2>1. CASE i < n BY <1>1, <1>2, <1>3, <1>5, <2>1
  <2>2. CASE ~(i < n)
    <3>1. r[i] = b[i - (n - 1)] /\ i - (n - 1) \in 1 .. Len(s) - n BY <1>1, <1>2, <1>5, <2>2
    <3>2. n + (i - (n - 1)) = i + 1 BY <1>1, <1>2
    <3> QED BY <1>4, <2>2, <3>1, <3>2
  <2> QED BY <2>1, <2>2
<1>8. RemoveAt(s, n) = r BY DEF RemoveAt, a, b
<1> HIDE DEF r
<1>9. ASSUME NEW i \in DOMAIN r PROVE (IF i < n THEN i ELSE i + 1) \in DOMAIN s \ {n}
  <2>1. i \in 1 .. Len(s) - 1 BY <1>6
  <2> QED BY <1>1, <1>2, <2>1
<1>10. \A i \in DOMAIN r : \E j \in DOMAIN s \ {n} : r[i] = s[j] /\ j = IF i < n THEN i ELSE i + 1
  BY <1>6, <1>7, <1>9
<1>11. ToSet(r) \subseteq ToSet(s) BY <1>10 DEF ToSet
<1>12. ASSUME IsInjective(s) PROVE ToSet(r) = ToSet(s) \ {s[n]} /\ IsInjective(r)
  <2>1. ToSet(r) \subseteq ToSet(s) \ {s[n]} BY <1>10, <1>12, <1>1, <1>2 DEF ToSet, IsInjective
  <2>2. ASSUME NEW j \in DOMAIN s, s[j] # s[n] PROVE s[j] \in ToSet(r)
    <3>1. CASE j < n
      <4>1. j \in DOMAIN r /\ r[j] = s[j] BY <1>1, <1>2, <1>6, <1>7, <3>1
      <4> QED BY <4>1 DEF ToSet
    <3>2. CASE j > n
      <4>1. j - 1 \in DOMAIN r /\ ~(j - 1 < n) /\ (j - 1) + 1 = j BY <1>1, <1>2, <1>6, <3>2
      <4>2. r[j - 1] = s[j] BY <1>6, <1>7, <4>1
      <4> QED BY <4>1, <4>2 DEF ToSet
    <3> QED BY <1>1, <1>2, <2>2, <3>1, <3>2
  <2>3. ToSet(s) \ {s[n]} \subseteq ToSet(r) BY <2>2 DEF ToSet
  <2>4. ASSUME NEW i \in DOMAIN r, NEW k \in DOMAIN r, r[i] = r[k] PROVE i = k
    <3>1. (IF i < n THEN i ELSE i + 1) = (IF k < n THEN k ELSE k + 1)
      BY <1>6, <1>7, <1>9, <1>12, <2>4 DEF IsInjective
    <3> QED BY <1>1, <1>2, <1>6, <3>1
  <2> QED BY <2>1, <2>3, <2>4 DEF IsInjective
<1> QED BY <1>2, <1>5, <1>8, <1>10, <1>11, <1>12

\* Induction over the natural numbers, for a set.
LEMMA SetInduction ==
    ASSUME NEW S, 0 \in S, \A n \in Nat : n \in S => n + 1 \in S
    PROVE  Nat \subseteq S
<1> DEFINE R == {p \in Nat \X Nat : p[1] < p[2]}
<1>1. IsWellFoundedOn(R, Nat) BY NatLessThanWellFounded DEF OpToRel
<1>2. SUFFICES ASSUME Nat \ S # {} PROVE FALSE OBVIOUS
<1> HIDE DEF R
<1>3. PICK x \in Nat \ S : \A y \in Nat \ S : ~(<<y, x>> \in R) BY <1>1, <1>2, WFMin
<1>4. x # 0 /\ x - 1 \in Nat /\ (x - 1) + 1 = x BY SMT
<1>5. <<x - 1, x>> \in R
  <2>1. <<x - 1, x>> \in Nat \X Nat /\ <<x - 1, x>>[1] = x - 1 /\ <<x - 1, x>>[2] = x BY <1>4
  <2>2. x - 1 < x OBVIOUS
  <2> QED BY <2>1, <2>2 DEF R
<1>6. x - 1 \in S BY <1>3, <1>4, <1>5
<1> QED BY <1>4, <1>6

\* A listing names requests that are listed, and none twice.
LEMMA ListedOf ==
    ASSUME NEW S \in SUBSET Tx
    PROVE  Listed(S) \in Seq(S) /\ IsInjective(Listed(S))
<1> DEFINE N == Len(Names)
           Add(c, i) == IF Names[i] \in S THEN Append(c, Names[i]) ELSE c
           Upto(g, n) == /\ g = [i \in 0 .. n |-> g[i]] /\ g[0] = <<>>
                         /\ \A i \in 1 .. n : g[i] = Add(g[i - 1], i)
           Listing(g) == [i \in 0 .. N |-> IF i = 0 THEN <<>>
                                          ELSE IF Names[i] \in S THEN Append(g[i - 1], Names[i])
                                               ELSE g[i - 1]]
           u == CHOOSE g : g = Listing(g)
<1>1. N \in Nat /\ DOMAIN Names = 1 .. N /\ IsInjective(Names)
  BY SchedulerAssumption, LenProperties
<1>2. \E g : g = Listing(g)
  <2> HIDE DEF Add, N
  <2> DEFINE D == {n \in Nat : \E g : Upto(g, n)}
  <2>1. 0 \in D
    <3>1. Upto([i \in 0 .. 0 |-> <<>>], 0) OBVIOUS
    <3> QED BY <3>1
  <2>2. ASSUME NEW n \in Nat, n \in D PROVE n + 1 \in D
    <3>1. PICK g : Upto(g, n) BY <2>2
    <3> DEFINE h == [i \in 0 .. n + 1 |-> IF i <= n THEN g[i] ELSE Add(g[n], n + 1)]
    <3>2. h = [i \in 0 .. n + 1 |-> h[i]] /\ h[0] = <<>> BY <3>1
    <3>3. ASSUME NEW i \in 1 .. n + 1 PROVE h[i] = Add(h[i - 1], i)
      <4>1. i - 1 \in 0 .. n /\ h[i - 1] = g[i - 1] OBVIOUS
      <4>2. CASE i <= n
        <5>1. i \in 1 .. n /\ h[i] = g[i] BY <4>2
        <5>2. g[i] = Add(g[i - 1], i) BY <3>1, <5>1
        <5> QED BY <4>1, <5>1, <5>2
      <4>3. CASE i = n + 1
        <5>1. h[i] = Add(g[n], n + 1) /\ i - 1 = n BY <4>3
        <5> QED BY <4>1, <4>3, <5>1
      <4> QED BY <4>2, <4>3
    <3> HIDE DEF h
    <3>4. Upto(h, n + 1) BY <3>2, <3>3
    <3> HIDE DEF Upto
    <3> QED BY <3>4
  <2> HIDE DEF D
  <2>3. N \in D BY <1>1, <2>1, <2>2, SetInduction
  <2>4. PICK g : Upto(g, N) BY <2>3 DEF D
  <2>5. \A i \in 0 .. N : g[i] = Listing(g)[i]
    <3>1. g[0] = Listing(g)[0] BY <1>1, <2>4
    <3>2. ASSUME NEW i \in 1 .. N PROVE g[i] = Listing(g)[i]
      <4>1. g[i] = Add(g[i - 1], i) BY <2>4
      <4>2. i \in 0 .. N /\ i # 0 BY <1>1
      <4>3. Listing(g)[i] = IF Names[i] \in S THEN Append(g[i - 1], Names[i]) ELSE g[i - 1]
        BY <4>2
      <4> QED BY <4>1, <4>3 DEF Add
    <3>3. \A i \in 0 .. N : i = 0 \/ i \in 1 .. N BY <1>1
    <3> QED BY <3>1, <3>2, <3>3
  <2>6. g = [i \in 0 .. N |-> g[i]] BY <2>4
  <2>7. g = Listing(g) BY <2>5, <2>6
  <2> QED BY <2>7
<1>3. u = Listing(u) BY <1>2
<1>4. Listed(S) = u[N] BY DEF Listed
<1> HIDE DEF u
<1>5. u[0] = <<>> /\ \A i \in 1 .. N : u[i] = Add(u[i - 1], i)
  <2>1. \A i \in 0 .. N : u[i] = Listing(u)[i] BY <1>3
  <2> QED BY <1>1, <2>1
<1> DEFINE Good(n) == u[n] \in Seq(S) /\ IsInjective(u[n]) /\ ToSet(u[n]) \subseteq {Names[j] : j \in 1 .. n}
           D == {n \in Nat : n <= N => Good(n)}
<1> HIDE DEF N, Add
<1>6. 0 \in D
  <2>1. <<>> \in Seq(S) /\ IsInjective(<<>>) /\ ToSet(<<>>) = {} BY DEF IsInjective, ToSet
  <2> QED BY <1>5, <2>1
<1>7. ASSUME NEW n \in Nat, n \in D PROVE n + 1 \in D
  <2>1. SUFFICES ASSUME n + 1 <= N PROVE Good(n + 1) OBVIOUS
  <2>2. Good(n) /\ n + 1 \in DOMAIN Names /\ u[n + 1] = Add(u[n], n + 1)
    BY <1>1, <1>5, <1>7, <2>1
  <2>3. {Names[j] : j \in 1 .. n + 1} = {Names[j] : j \in 1 .. n} \cup {Names[n + 1]}
    BY SMT
  <2>4. CASE Names[n + 1] \in S
    <3>1. Names[n + 1] \notin {Names[j] : j \in 1 .. n} BY <1>1, <2>1, <2>2 DEF IsInjective
    <3>2. u[n + 1] = Append(u[n], Names[n + 1]) BY <2>2, <2>4 DEF Add
    <3> DEFINE c == u[n]
               x == Names[n + 1]
    <3>3. c \in Seq(S) /\ x \in S /\ IsInjective(c) /\ x \notin ToSet(c)
      BY <2>2, <2>4, <3>1
    <3> HIDE DEF c, x
    <3>4. Append(c, x) \in Seq(S) /\ IsInjective(Append(c, x)) /\ ToSet(Append(c, x)) = ToSet(c) \cup {x}
      BY <3>3, AppendOf
    <3> USE DEF c, x
    <3> QED BY <2>2, <2>3, <3>2, <3>4
  <2>5. CASE Names[n + 1] \notin S
    <3>1. u[n + 1] = u[n] BY <2>2, <2>5 DEF Add
    <3> QED BY <2>2, <2>3, <3>1
  <2> QED BY <2>4, <2>5
<1> HIDE DEF D
<1>8. N \in D BY <1>1, <1>6, <1>7, SetInduction
<1>9. Good(N) BY <1>1, <1>8 DEF D
<1> QED BY <1>4, <1>9

LEMMA Least ==
    ASSUME NEW S \in SUBSET Nat, S # {}
    PROVE  \E m \in S : \A k \in S : m <= k
<1> DEFINE R == {p \in Nat \X Nat : p[1] < p[2]}
<1>1. IsWellFoundedOn(R, Nat) BY NatLessThanWellFounded DEF OpToRel
<1> HIDE DEF R
<1>2. PICK m \in S : \A k \in S : ~(<<k, m>> \in R) BY <1>1, WFMin
<1>3. ASSUME NEW k \in S, k < m PROVE FALSE
  <2>1. <<k, m>> \in Nat \X Nat /\ <<k, m>>[1] = k /\ <<k, m>>[2] = m OBVIOUS
  <2>2. <<k, m>> \in R BY <1>3, <2>1 DEF R
  <2> QED BY <1>2, <2>2
<1> QED BY <1>3

LEMMA Wrapped ==
    ASSUME NEW n \in Nat \ {0}, NEW x \in Nat
    PROVE  /\ x < n => x % n = x
           /\ n <= x /\ x < 2 * n => x % n = x - n
  OBVIOUS

\* The round meets every repository of the order once, so that what it serves
\* first is the first runnable one from the cursor on.
LEMMA TurnIsFirst ==
    ASSUME TypeInv, Runnable # {}, \A i \in DOMAIN pending : Key(pending[i]) \in ToSet(order)
    PROVE  /\ Turn \in DOMAIN order /\ order[Turn] \in RunnableKeys
           /\ \A j \in DOMAIN order : order[j] \in RunnableKeys => j = Turn \/ After(cursor, j, Turn)
<1> DEFINE n == Len(order)
           place(x) == IF cursor + x <= n THEN cursor + x ELSE cursor + x - n
           dist(j) == IF cursor <= j THEN j - cursor ELSE j - cursor + n
           W == {x \in 0 .. n - 1 : order[Position(x)] \in RunnableKeys}
           First(x) == /\ order[Position(x)] \in RunnableKeys
                       /\ \A m \in 0 .. x - 1 : order[Position(m)] \notin RunnableKeys
<1>1. PICK i \in DOMAIN pending : Key(pending[i]) \in RunnableKeys
  BY DEF RunnableKeys, Runnable, Firsts
<1>2. PICK p \in DOMAIN order : order[p] \in RunnableKeys BY <1>1 DEF ToSet
<1>3. /\ n \in Nat \ {0} /\ DOMAIN order = 1 .. n
      /\ cursor \in Nat \ {0} /\ cursor <= n
  <2>1. n \in Nat /\ DOMAIN order = 1 .. n BY LenProperties DEF TypeInv, SequencesOK
  <2> QED BY <1>2, <2>1 DEF TypeInv, SequencesOK
<1> HIDE DEF n
<1>4. ASSUME NEW x \in 0 .. n - 1 PROVE Position(x) = place(x) /\ place(x) \in 1 .. n
  <2>1. Position(x) = ((cursor - 1 + x) % n) + 1 BY DEF Position, n
  <2>2. CASE cursor + x <= n
    <3>1. (cursor - 1 + x) % n = cursor - 1 + x BY <1>3, <2>2, Wrapped
    <3> QED BY <1>3, <2>1, <2>2, <3>1
  <2>3. CASE ~(cursor + x <= n)
    <3> DEFINE y == cursor - 1 + x
    <3>1. y \in Nat /\ n <= y /\ y < 2 * n BY <1>3, <2>3
    <3>2. Position(x) = (y % n) + 1 BY <2>1
    <3>3. place(x) = y - n + 1 /\ place(x) \in 1 .. n BY <1>3, <2>3
    <3> HIDE DEF y, place
    <3>4. y % n = y - n BY <1>3, <3>1, Wrapped
    <3> QED BY <3>2, <3>3, <3>4
  <2> QED BY <2>2, <2>3
<1>5. ASSUME NEW j \in 1 .. n PROVE dist(j) \in 0 .. n - 1 /\ place(dist(j)) = j
  BY <1>3, <1>5
<1>6. \A j \in 1 .. n : order[j] \in RunnableKeys => dist(j) \in W
  <2> SUFFICES ASSUME NEW j \in 1 .. n, order[j] \in RunnableKeys PROVE dist(j) \in W OBVIOUS
  <2>1. Position(dist(j)) = j BY <1>4, <1>5
  <2> QED BY <1>5, <2>1
<1>7. PICK m \in W : \A k \in W : m <= k
  <2>1. W # {} BY <1>2, <1>3, <1>6
  <2>2. W \in SUBSET Nat OBVIOUS
  <2> QED BY <2>1, <2>2, Least
<1>8. First(m)
  <2>1. \A k \in 0 .. m - 1 : k \in 0 .. n - 1 /\ k < m BY <1>3, <1>7
  <2>2. \A k \in 0 .. m - 1 : k \notin W BY <1>7, <2>1
  <2> QED BY <1>7, <2>1, <2>2
<1> DEFINE x == CHOOSE x \in 0 .. n - 1 : First(x)
<1>9. x \in 0 .. n - 1 /\ First(x) BY <1>7, <1>8
<1>10. Turn = Position(x) BY DEF Turn, n
<1> HIDE DEF x
<1>11. Turn = place(x) /\ Turn \in 1 .. n /\ order[Turn] \in RunnableKeys BY <1>4, <1>9, <1>10
<1>12. ASSUME NEW j \in 1 .. n, order[j] \in RunnableKeys PROVE j = Turn \/ After(cursor, j, Turn)
  <2>1. dist(j) \in 0 .. n - 1 /\ place(dist(j)) = j BY <1>5
  <2>2. dist(j) \in W BY <1>6, <1>12
  <2>3. x <= dist(j)
    <3>1. order[Position(dist(j))] \in RunnableKeys BY <2>2
    <3> HIDE DEF dist, place
    <3> QED BY <1>9, <2>1, <3>1
  <2> QED BY <1>3, <1>9, <1>11, <2>1, <2>3 DEF After
<1> QED BY <1>3, <1>11, <1>12

-----------------------------------------------------------------------------
(***************************************************************************)
(* What the steps do that choose an element or branch on who goes on.      *)
(***************************************************************************)
LEMMA ErrorIs ==
    ASSUME IInv, DispatchError
    PROVE  \E i \in DOMAIN pending :
               /\ pending' = RemoveAt(pending, i) /\ pending[i] \in Tx
               /\ fin' = [tx |-> pending[i], from |-> "dispatch", durable |-> FALSE]
               /\ at' = "finish"
<1> DEFINE First(i) == \A j \in Unprepared : i <= j
           i == CHOOSE i \in Unprepared : First(i)
<1>1. DOMAIN pending = 1 .. Len(pending) /\ Len(pending) \in Nat /\ pending \in Seq(Tx)
  BY LenProperties DEF IInv, TypeInv, SequencesOK
<1>2. Unprepared \in SUBSET Nat /\ Unprepared \subseteq DOMAIN pending
  BY <1>1 DEF Unprepared, Firsts
<1>3. Unprepared # {} BY DEF DispatchError
<1>4. \E m \in Unprepared : First(m) BY <1>2, <1>3, Least
<1>5. i \in Unprepared BY <1>4
<1>6. Finish(pending[i], "dispatch") /\ pending' = RemoveAt(pending, i) BY DEF DispatchError
<1> HIDE DEF i
<1>7. i \in DOMAIN pending /\ pending[i] \in Tx BY <1>1, <1>2, <1>5, ElementOfSeq
<1> QED BY <1>6, <1>7 DEF Finish

LEMMA DispatchIs ==
    ASSUME IInv, Dispatch
    PROVE  /\ Turn \in DOMAIN order /\ order[Turn] \in RunnableKeys
           /\ \A j \in DOMAIN order : order[j] \in RunnableKeys => j = Turn \/ After(cursor, j, Turn)
           /\ \E i \in Runnable :
                 /\ i \in DOMAIN pending /\ pending[i] \in Tx
                 /\ Key(pending[i]) = order[Turn] /\ Key(pending[i]) \notin InFlight
                 /\ pending' = RemoveAt(pending, i)
                 /\ active' = Append(active, pending[i]) /\ jobs' = Append(jobs, pending[i])
<1> DEFINE i == CHOOSE i \in Runnable : Key(pending[i]) = order[Turn]
<1>1. Runnable # {} BY DEF Dispatch
<1>2. /\ Turn \in DOMAIN order /\ order[Turn] \in RunnableKeys
      /\ \A j \in DOMAIN order : order[j] \in RunnableKeys => j = Turn \/ After(cursor, j, Turn)
  BY <1>1, TurnIsFirst DEF IInv, Queues
<1>3. i \in Runnable /\ Key(pending[i]) = order[Turn] BY <1>2 DEF RunnableKeys
<1>4. /\ pending' = RemoveAt(pending, i)
      /\ active' = Append(active, pending[i]) /\ jobs' = Append(jobs, pending[i])
  BY DEF Dispatch
<1> HIDE DEF i
<1>5. i \in DOMAIN pending /\ Key(pending[i]) \notin InFlight BY <1>3 DEF Runnable, Firsts
<1>6. pending[i] \in Tx BY <1>5, ElementOfSeq, LenProperties DEF IInv, TypeInv, SequencesOK
<1> QED BY <1>2, <1>3, <1>4, <1>5, <1>6

LEMMA ReapIs ==
    ASSUME IInv, ReapOldest \/ ReapDone
    PROVE  \E i \in DOMAIN active :
               /\ active[i] \in done /\ active[i] \in Tx
               /\ active' = RemoveAt(active, i) /\ done' = done \ {active[i]}
               /\ fin' = [tx |-> active[i], from |-> "reap", durable |-> FALSE]
               /\ at' = "finish" /\ at \in {"drain", "unwind", "scan"}
<1>1. active \in Seq(Tx) BY DEF IInv, TypeInv, SequencesOK
<1>2. active # <<>> => 1 \in DOMAIN active BY <1>1, TailOf
<1>3. \E i \in DOMAIN active : Reap(i) /\ at \in {"drain", "unwind", "scan"}
  BY <1>2 DEF ReapOldest, ReapDone
<1>4. PICK i \in DOMAIN active : Reap(i) /\ at \in {"drain", "unwind", "scan"} BY <1>3
<1>5. active[i] \in Tx
  <2>1. DOMAIN active = 1 .. Len(active) BY <1>1, LenProperties
  <2> QED BY <1>1, <2>1, ElementOfSeq
<1> QED BY <1>4, <1>5 DEF Reap, Finish

LEMMA ContinueIs ==
    ASSUME IInv, at = "finish", Continue
    PROVE  /\ fin' = NoFin
           /\ \/ fin.from = "ingest" /\ todo # <<>> /\ todo' = Tail(todo) /\ at' = "ingest"
              \/ /\ fin.from # "ingest" /\ todo' = todo
                 /\ \/ at' = "scan" /\ back = "loop"
                    \/ at' = "unwind" /\ back = "unwind"
                    \/ at' = "dispatch" /\ back # "unwind"
<1>1. fin' = NoFin BY DEF Continue
<1>2. CASE fin.from = "ingest"
  BY <1>1, <1>2 DEF Continue, IInv, Frame, OnList
<1>3. CASE fin.from = "reap" BY <1>1, <1>3 DEF Continue
<1>4. CASE fin.from = "dispatch"
  <2>1. back # "unwind" BY <1>4 DEF IInv, Frame
  <2> QED BY <1>1, <1>4, <2>1 DEF Continue
<1>5. fin.from \in {"ingest", "dispatch", "reap"} BY DEF IInv, TypeInv, TypeOK
<1> QED BY <1>2, <1>3, <1>4, <1>5

\* The outcomes of a write or a publication that fails.
LEMMA FailsSoundly ==
    ASSUME IInv, PersistFails \/ PublishFails
    PROVE  /\ at = "finish" /\ UNCHANGED <<mailbox, threads, live, recov, passed, broken, stopping>>
           /\ \/ Continue /\ UNCHANGED <<queues, back, reaped, misblamed>>
              \/ fin.from # "ingest" /\ back \in {"queued", "barrier"} /\ Blame(Head(todo))
              \/ Swallow
              \/ Unwind
  BY DEF PersistFails, PublishFails, Raise, InsideTry

-----------------------------------------------------------------------------
(***************************************************************************)
(* The steps preserve the invariant.                                       *)
(***************************************************************************)
LEMMA EmptyIs == \A T : <<>> \in Seq(T) /\ Len(<<>>) = 0 /\ IsInjective(<<>>) /\ ToSet(<<>>) = {}
  BY DEF IsInjective, ToSet

LEMMA InitHolds == Init => IInv /\ Unanswered /\ InTurn
<1> SUFFICES ASSUME Init PROVE IInv /\ Unanswered /\ InTurn OBVIOUS
<1> USE EmptyIs
<1>1. TypeInv
  <2>1. TypeOK BY SchedulerAssumption DEF Init, TypeOK, NoFin
  <2>2. SequencesOK BY DEF Init, SequencesOK, NoTurns
  <2> QED BY <2>1, <2>2 DEF TypeInv
<1>2. HandedOver BY DEF Init, HandedOver
<1>3. Frame BY DEF Init, Frame
<1>4. Queues BY DEF Init, Queues, Owned
<1>5. Unanswered BY DEF Init, Unanswered, Owned
<1>6. InTurn BY DEF Init, InTurn, NoTurns
<1> QED BY <1>1, <1>2, <1>3, <1>4, <1>5, <1>6 DEF IInv

LEMMA TypeStep == IInv /\ [Next]_vars => TypeInv'
<1> SUFFICES ASSUME IInv, [Next]_vars PROVE TypeInv' OBVIOUS
<1>t. /\ TypeOK /\ SequencesOK /\ TypeInv BY DEF IInv, TypeInv
<1>l. Len(pending) \in Nat /\ Len(active) \in Nat /\ MaxPending \in Nat /\ MaxWorkers \in Nat
  BY <1>t, LenProperties, SchedulerAssumption DEF SequencesOK
<1>s. todo \in Seq(Tx) /\ (todo # <<>> => Tail(todo) \in Seq(Tx) /\ Head(todo) \in Tx)
  BY <1>t, TailOf DEF SequencesOK
<1>w. NoTurns \in [Repo -> SUBSET Repo] BY DEF NoTurns
<1> USE DEF TypeInv, TypeOK, SequencesOK
<1>1. CASE \/ \E t \in Tx : Send(t)
           \/ \E k \in Repo : Toggle(k)
           \/ Stop \/ Quit \/ Tick \/ Recovered \/ Ingested \/ Admit \/ ReachBarrier
           \/ Scanned \/ UNCHANGED vars
  <2>1. UNCHANGED <<queues, threads, recov, todo, fin, passed>>
    BY <1>1 DEF Send, Toggle, Stop, Quit, Tick, Recovered, Ingested, Admit, ReachBarrier, Scanned,
                vars, control, history
  <2>2. /\ published' \subseteq published /\ durable' \subseteq durable
        /\ broken' \in {broken} \cup {broken \cup {k} : k \in Repo} \cup {broken \ {k} : k \in Repo}
    BY <1>1 DEF Send, Toggle, Stop, Quit, Tick, Recovered, Ingested, Admit, ReachBarrier, Scanned,
                vars, mailbox
  <2>3. /\ at' \in {at, "stopped", "dispatch", "idle", "ingest", "wait"}
        /\ back' \in {back, "loop", "admit", "barrier"}
    BY <1>1 DEF Send, Toggle, Stop, Quit, Tick, Recovered, Ingested, Admit, ReachBarrier, Scanned,
                GoDispatch, AfterListing, vars, control
  <2>4. SequencesOK' BY <1>t, <2>1 DEF queues, threads
  <2>5. TypeOK' BY <1>t, <2>1, <2>2, <2>3 DEF queues, threads
  <2> QED BY <2>4, <2>5
<1>2. CASE Poll \/ LivePoll
  <2>1. Listed(Candidates \cap durable) \in Seq(Tx) /\ Listed(Candidates \ durable) \in Seq(Tx)
    BY ListedOf, SeqMonotonic DEF Candidates
  <2>2. /\ Listed((Candidates \ Owned) \cap durable) \in Seq(Tx)
        /\ Listed((Candidates \ Owned) \ durable) \in Seq(Tx)
    BY ListedOf, SeqMonotonic DEF Candidates
  <2> QED BY <1>2, <1>t, <2>1, <2>2
          DEF Poll, LivePoll, List, mailbox, queues, threads, history
<1>3. CASE Take
  <2>1. Tail(jobs) \in Seq(Tx) /\ Head(jobs) \in Tx BY <1>3, <1>t, TailOf DEF Take
  <2> QED BY <1>3, <1>t, <2>1 DEF Take, mailbox, queues, control, history
<1>4. CASE \E t \in Tx : Complete(t)
  BY <1>4, <1>t DEF Complete, mailbox, queues, control, history
<1>5. CASE Republish \/ WaitGrace
  <2>1. Tail(recov) \in Seq(Tx) /\ Head(recov) \in Tx
    BY <1>5, <1>t, TailOf DEF Republish, WaitGrace
  <2> QED BY <1>5, <1>t, <2>1 DEF Republish, WaitGrace, mailbox, queues, threads, history
<1>6. CASE RepublishFails
  BY <1>6, <1>t, EmptyIs DEF RepublishFails, AfterListing, mailbox, queues, threads, history
<1>7. CASE SkipDownload \/ Reject \/ Materialize
  <2>1. todo # <<>> BY <1>7 DEF SkipDownload, Reject, Materialize, IInv, Frame, OnList
  <2>2. Tail(todo) \in Seq(Tx) /\ Head(todo) \in Tx BY <1>s, <2>1
  <2>3. CASE SkipDownload
    BY <1>t, <2>2, <2>3 DEF SkipDownload, mailbox, queues, threads, history
  <2>4. CASE Reject \/ Materialize
    <3>1. fin' = [tx |-> Head(todo), from |-> "ingest", durable |-> FALSE] /\ at' = "finish"
      BY <2>4 DEF Reject, Materialize, Finish
    <3>2. UNCHANGED <<mailbox, queues, threads, back, recov, todo, history, broken>>
      BY <2>4 DEF Reject, Materialize
    <3> QED BY <1>t, <2>2, <3>1, <3>2 DEF mailbox, queues, threads, history
  <2> QED BY <1>7, <2>3, <2>4
<1>8. CASE Enqueue
  <2>1. Head(todo) \in Tx BY <1>8, <1>t, TailOf DEF Enqueue
  <2>2. Key(Head(todo)) \in Repo BY <2>1, SchedulerAssumption DEF Key
  <2>3. pending' \in Seq(Tx) /\ Len(pending') = Len(pending) + 1
    BY <1>8, <1>t, <2>1, AppendOf DEF Enqueue
  <2>4. order' \in Seq(Repo) /\ (cursor = 1 \/ cursor <= Len(order'))
    <3>1. CASE order' = order BY <1>t, <3>1
    <3>2. CASE order' = Append(order, Key(Head(todo)))
      <4>1. order' \in Seq(Repo) /\ Len(order') = Len(order) + 1 BY <1>t, <2>2, <3>2, AppendOf
      <4> QED BY <1>t, <4>1, LenProperties
    <3> QED BY <1>8, <3>1, <3>2 DEF Enqueue
  <2>5. Len(pending') + Len(active) <= MaxPending BY <1>8, <1>l, <2>3 DEF Enqueue, Full
  <2> QED BY <1>8, <1>t, <2>3, <2>4, <2>5 DEF Enqueue, GoDispatch, mailbox, threads, history
<1>9. CASE DispatchError
  <2>1. PICK i \in DOMAIN pending :
           /\ pending' = RemoveAt(pending, i) /\ pending[i] \in Tx
           /\ fin' = [tx |-> pending[i], from |-> "dispatch", durable |-> FALSE]
           /\ at' = "finish"
    BY <1>9, ErrorIs
  <2>2. pending' \in Seq(Tx) /\ Len(pending') = Len(pending) - 1 BY <1>t, <2>1, RemoveAtOf
  <2>3. Len(pending') + Len(active) <= MaxPending BY <1>t, <1>l, <2>2
  <2> QED BY <1>9, <1>t, <2>1, <2>2, <2>3 DEF DispatchError, mailbox, threads, history
<1>10. CASE Dispatch
  <2>1. PICK i \in DOMAIN pending :
           /\ pending[i] \in Tx /\ pending' = RemoveAt(pending, i)
           /\ active' = Append(active, pending[i]) /\ jobs' = Append(jobs, pending[i])
    BY <1>10, DispatchIs
  <2>2. pending' \in Seq(Tx) /\ Len(pending') = Len(pending) - 1 BY <1>t, <2>1, RemoveAtOf
  <2>3. /\ active' \in Seq(Tx) /\ Len(active') = Len(active) + 1
        /\ jobs' \in Seq(Tx)
    BY <1>t, <2>1, AppendOf
  <2>4. Len(pending') + Len(active') <= MaxPending /\ Len(active') <= MaxWorkers
    <3>1. Len(active) < MaxWorkers BY <1>10 DEF Dispatch, FreeSlot
    <3>2. Len(pending) + Len(active) <= MaxPending BY <1>t
    <3> QED BY <1>l, <2>2, <2>3, <3>1, <3>2
  <2>5. cursor' \in Nat \ {0} /\ cursor' <= Len(order)
    <3>1. Turn \in 1 .. Len(order) /\ Len(order) \in Nat
      BY <1>10, <1>t, DispatchIs, LenProperties
    <3>2. cursor' = (Turn % Len(order)) + 1 BY <1>10 DEF Dispatch
    <3> DEFINE n == Len(order)
               m == Turn
    <3> HIDE DEF n, m
    <3>3. m \in 1 .. n /\ n \in Nat BY <3>1 DEF n, m
    <3>4. m % n \in 0 .. n - 1 BY <3>3
    <3>5. cursor' = (m % n) + 1 BY <3>2 DEF n, m
    <3>6. cursor' \in Nat \ {0} /\ cursor' <= n BY <3>3, <3>4, <3>5
    <3> QED BY <3>6 DEF n
  <2>6. passed' \in [Repo -> SUBSET Repo]
    <3>1. order[Turn] \in Repo BY <1>10, <1>t, DispatchIs, ElementOfSeq, LenProperties
    <3> QED BY <1>10, <1>t, <3>1 DEF Dispatch, CountTurn
  <2> QED BY <1>10, <1>t, <2>2, <2>3, <2>4, <2>5, <2>6 DEF Dispatch, mailbox, control
<1>11. CASE Dispatched
  <2>1. todo' \in Seq(Tx)
    <3>1. back = "queued" => todo # <<>> BY <1>11 DEF Dispatched, IInv, Frame, OnList
    <3>2. todo' = todo \/ (back = "queued" /\ todo' = Tail(todo)) BY <1>11 DEF Dispatched
    <3> QED BY <1>s, <3>1, <3>2
  <2>2. at' \in {"ingest", "drain", "materialize", "scan"} BY <1>11 DEF Dispatched
  <2> QED BY <1>11, <1>t, <2>1, <2>2 DEF Dispatched, mailbox, queues, threads, history
<1>12. CASE Return \/ Unwound
  <2>1. Leave /\ UNCHANGED <<mailbox, pending, active, threads, recov, todo, fin, broken>>
    BY <1>12 DEF Return, Unwound
  <2> QED BY <1>t, <1>w, <2>1, EmptyIs DEF Leave, mailbox, threads
<1>13. CASE ReapOldest \/ ReapDone
  <2>1. PICK i \in DOMAIN active :
           /\ active[i] \in Tx
           /\ active' = RemoveAt(active, i) /\ done' = done \ {active[i]}
           /\ fin' = [tx |-> active[i], from |-> "reap", durable |-> FALSE]
           /\ at' = "finish"
    BY <1>13, ReapIs
  <2>2. active' \in Seq(Tx) /\ Len(active') = Len(active) - 1 BY <1>t, <2>1, RemoveAtOf
  <2>3. UNCHANGED <<mailbox, pending, order, cursor, jobs, running, back, live, recov, todo,
                    history, broken, stopping, faults>>
    BY <1>13 DEF ReapOldest, ReapDone
  <2>4. Len(pending') + Len(active') <= MaxPending /\ Len(active') <= MaxWorkers
    BY <1>t, <1>l, <2>2, <2>3
  <2> QED BY <1>t, <2>1, <2>2, <2>3, <2>4 DEF mailbox, history
<1>14. CASE Persist
  <2>1. fin.tx \in Tx BY <1>14 DEF Persist, IInv, Frame
  <2> QED BY <1>14, <1>t, <2>1 DEF Persist, queues, threads, history
<1>15. CASE Publish \/ PersistFails \/ PublishFails
  <2>1. at = "finish" /\ fin.tx \in Tx BY <1>15 DEF Publish, PersistFails, PublishFails, IInv, Frame
  <2>2. /\ published' \in {published, published \cup {fin.tx}}
        /\ UNCHANGED <<durable, threads, live, recov, passed, broken, stopping>>
    BY <1>15 DEF Publish, PersistFails, PublishFails, mailbox, history
  <2>3. CASE Continue /\ UNCHANGED <<queues, back>>
    <3>1. todo' \in Seq(Tx) BY <1>s, <2>1, <2>3, ContinueIs
    <3>2. fin' = NoFin /\ at' \in {"ingest", "scan", "unwind", "dispatch"}
      BY <2>1, <2>3, ContinueIs
    <3> QED BY <1>t, <2>1, <2>2, <2>3, <3>1, <3>2 DEF queues, threads, NoFin
  <2>4. CASE fin.from # "ingest" /\ back \in {"queued", "barrier"} /\ Blame(Head(todo))
    <3>1. Head(todo) \in Tx BY <1>t, <2>1, <2>4, TailOf DEF IInv, Frame, OnList
    <3> QED BY <1>t, <2>1, <2>2, <2>4, <3>1 DEF Blame, Finish, queues, threads
  <2>5. CASE Swallow
    BY <1>t, <2>1, <2>2, <2>5, EmptyIs DEF Swallow, GoDispatch, queues, threads, NoFin
  <2>6. CASE Unwind
    BY <1>t, <1>l, <2>1, <2>2, <2>6, EmptyIs DEF Unwind, threads, NoFin
  <2> QED BY <1>15, <2>3, <2>4, <2>5, <2>6, FailsSoundly DEF Publish
<1> QED
  BY <1>1, <1>2, <1>3, <1>4, <1>5, <1>6, <1>7, <1>8, <1>9, <1>10, <1>11, <1>12, <1>13, <1>14, <1>15
     DEF Next, Owner

\* Only four steps touch what was handed over.
LEMMA HandedStep == IInv /\ [Next]_vars => HandedOver'
<1> SUFFICES ASSUME IInv, [Next]_vars PROVE HandedOver' OBVIOUS
<1>h. HandedOver /\ SequencesOK /\ Queues BY DEF IInv, TypeInv
<1>a. active \in Seq(Tx) /\ jobs \in Seq(Tx) /\ pending \in Seq(Tx) BY <1>h DEF SequencesOK
<1>1. CASE Take
  <2>1. jobs # <<>> /\ running' = running \cup {Head(jobs)} /\ jobs' = Tail(jobs)
    BY <1>1 DEF Take
  <2>2. UNCHANGED <<active, done>> BY <1>1 DEF Take, queues
  <2>3. /\ ToSet(Tail(jobs)) \subseteq ToSet(jobs) /\ Head(jobs) \in ToSet(jobs)
        /\ IsInjective(jobs) => IsInjective(Tail(jobs)) /\ Head(jobs) \notin ToSet(Tail(jobs))
    BY <1>a, <2>1, TailOf DEF ToSet
  <2> QED BY <1>h, <2>1, <2>2, <2>3 DEF HandedOver
<1>2. CASE \E t \in Tx : Complete(t)
  <2>1. PICK t \in running : running' = running \ {t} /\ done' = done \cup {t}
    BY <1>2 DEF Complete
  <2>2. UNCHANGED <<active, jobs>> BY <1>2 DEF Complete, queues
  <2> QED BY <1>h, <2>1, <2>2 DEF HandedOver
<1>3. CASE Dispatch
  <2>1. PICK i \in DOMAIN pending :
           /\ pending[i] \in Tx /\ Key(pending[i]) \notin InFlight
           /\ active' = Append(active, pending[i]) /\ jobs' = Append(jobs, pending[i])
    BY <1>3, DispatchIs
  <2>2. UNCHANGED <<running, done>> BY <1>3 DEF Dispatch
  <2> DEFINE t == pending[i]
  <2>3. t \in Tx /\ t \notin ToSet(active) /\ t \notin ToSet(jobs)
    BY <1>h, <2>1 DEF InFlight, HandedOver
  <2>4. \A j \in DOMAIN active : Key(active[j]) # Key(t) BY <2>1 DEF InFlight, ToSet
  <2>5. active' = Append(active, t) /\ jobs' = Append(jobs, t) BY <2>1
  <2> HIDE DEF t
  <2>6. /\ \A j \in DOMAIN active : active'[j] = active[j]
        /\ \A j \in DOMAIN active' : j \in DOMAIN active \/ (j = Len(active) + 1 /\ active'[j] = t)
        /\ ToSet(active') = ToSet(active) \cup {t}
    <3>1. /\ active' \in Seq(Tx) /\ Len(active') = Len(active) + 1
          /\ \A j \in DOMAIN active : active'[j] = active[j]
          /\ \A j \in DOMAIN active' : j \in DOMAIN active \/ active'[j] = t
          /\ ToSet(active') = ToSet(active) \cup {t}
      BY <1>a, <2>3, <2>5, AppendOf
    <3>2. /\ DOMAIN active = 1 .. Len(active) /\ Len(active) \in Nat
          /\ DOMAIN active' = 1 .. Len(active) + 1
      BY <1>a, <3>1, LenProperties
    <3> QED BY <3>1, <3>2
  <2>7. ToSet(jobs') = ToSet(jobs) \cup {t} /\ (IsInjective(jobs) => IsInjective(jobs'))
    BY <1>a, <2>3, <2>5, AppendOf
  <2>8. \A j, k \in DOMAIN active' : Key(active'[j]) = Key(active'[k]) => j = k
    <3> SUFFICES ASSUME NEW j \in DOMAIN active', NEW k \in DOMAIN active',
                        Key(active'[j]) = Key(active'[k])
                 PROVE  j = k
      OBVIOUS
    <3> HIDE DEF Key
    <3> QED BY <1>h, <2>4, <2>6 DEF HandedOver
  <2>9. t \notin running /\ t \notin done BY <1>h, <2>3 DEF HandedOver
  <2>10. ToSet(jobs') \cap running' = {} /\ ToSet(jobs') \cap done' = {} /\ running' \cap done' = {}
    BY <1>h, <2>2, <2>7, <2>9 DEF HandedOver
  <2>11. ToSet(jobs') \cup running' \cup done' \subseteq ToSet(active')
    BY <1>h, <2>2, <2>6, <2>7 DEF HandedOver
  <2> QED BY <1>h, <2>7, <2>8, <2>10, <2>11 DEF HandedOver
<1>4. CASE ReapOldest \/ ReapDone
  <2>1. PICK i \in DOMAIN active :
           /\ active[i] \in done /\ active' = RemoveAt(active, i) /\ done' = done \ {active[i]}
    BY <1>4, ReapIs
  <2>2. UNCHANGED <<jobs, running>> BY <1>4 DEF ReapOldest, ReapDone
  <2>3. IsInjective(active) BY <1>h DEF HandedOver, IsInjective
  <2>4. ToSet(active') = ToSet(active) \ {active[i]} BY <1>a, <2>1, <2>3, RemoveAtOf
  <2>5. /\ DOMAIN active = 1 .. Len(active) /\ Len(active) \in Nat
        /\ \A j \in DOMAIN active' : \E k \in DOMAIN active :
              active'[j] = active[k] /\ k = IF j < i THEN j ELSE j + 1
        /\ DOMAIN active' = 1 .. Len(active) - 1
    BY <1>a, <2>1, RemoveAtOf, LenProperties
  <2>6. \A j, k \in DOMAIN active' : Key(active'[j]) = Key(active'[k]) => j = k
    <3> SUFFICES ASSUME NEW j \in DOMAIN active', NEW k \in DOMAIN active',
                        Key(active'[j]) = Key(active'[k])
                 PROVE  j = k
      OBVIOUS
    <3>1. (IF j < i THEN j ELSE j + 1) = (IF k < i THEN k ELSE k + 1)
      <4> HIDE DEF Key
      <4> QED BY <1>h, <2>5 DEF HandedOver
    <3>2. j \in Nat /\ k \in Nat /\ i \in Nat BY <2>5
    <3> QED BY <3>1, <3>2
  <2> QED BY <1>h, <2>1, <2>2, <2>4, <2>6 DEF HandedOver
<1>5. CASE UNCHANGED <<active, threads>> BY <1>5, <1>h DEF HandedOver, threads
<1>6. UNCHANGED <<active, threads>> \/ Take \/ (\E t \in Tx : Complete(t)) \/ Dispatch
      \/ ReapOldest \/ ReapDone
  <2>1. Publish \/ PersistFails \/ PublishFails => UNCHANGED <<active, threads>>
    BY FailsSoundly DEF Publish, Blame, Swallow, Unwind, queues
  <2> QED BY <2>1
     DEF Next, Owner, Send, Toggle, Stop, Quit, Poll, LivePoll, Tick, Republish, WaitGrace,
         RepublishFails, Recovered, Ingested, Admit, SkipDownload, Reject, Enqueue, ReachBarrier,
         Materialize, DispatchError, Dispatched, Return, Scanned, Unwound, Persist, vars, queues
<1> QED BY <1>1, <1>2, <1>3, <1>4, <1>5, <1>6

LEMMA NoneOwned == IInv /\ Owned = {} => pending = <<>> /\ active = <<>>
<1>1. ASSUME NEW s \in Seq(Tx), ToSet(s) = {} PROVE s = <<>>
  <2>1. s # <<>> => 1 \in DOMAIN s BY TailOf
  <2> QED BY <1>1, <2>1 DEF ToSet
<1> QED BY <1>1 DEF IInv, TypeInv, SequencesOK, Owned

LEMMA FrameStep == IInv /\ [Next]_vars => Frame'
<1> SUFFICES ASSUME IInv, [Next]_vars PROVE Frame' OBVIOUS
<1>f. Frame /\ HandedOver /\ Queues /\ SequencesOK BY DEF IInv, TypeInv
<1>s. pending \in Seq(Tx) /\ active \in Seq(Tx) /\ todo \in Seq(Tx) BY <1>f DEF SequencesOK
<1>1. CASE \/ \E t \in Tx : Send(t) \/ Complete(t)
           \/ \E k \in Repo : Toggle(k)
           \/ Stop \/ Take \/ Republish \/ WaitGrace \/ UNCHANGED vars
  <2>1. UNCHANGED <<pending, active, at, back, live, todo, fin>>
    BY <1>1 DEF Send, Complete, Toggle, Stop, Take, Republish, WaitGrace, vars, queues, control
  <2> QED BY <1>f, <2>1 DEF Frame, OnList, Owned
<1>2. CASE Quit \/ Poll \/ LivePoll \/ Tick \/ RepublishFails \/ Recovered \/ Ingested \/ Admit
           \/ ReachBarrier \/ SkipDownload \/ Scanned
  <2>1. UNCHANGED <<pending, active, fin>> /\ fin = NoFin
    BY <1>2, <1>f
       DEF Quit, Poll, LivePoll, Tick, RepublishFails, Recovered, Ingested, Admit, ReachBarrier,
           SkipDownload, Scanned, queues, Frame
  <2>2. CASE Quit \/ Scanned BY <2>1, <2>2, <1>f DEF Quit, Scanned, Frame, OnList
  <2>3. CASE Poll \/ LivePoll BY <2>1, <2>3, <1>f DEF Poll, LivePoll, List, Frame, OnList
  <2>4. CASE Tick \/ Ingested \/ Admit \/ ReachBarrier \/ SkipDownload
    BY <2>1, <2>4, <1>f
       DEF Tick, Ingested, Admit, ReachBarrier, SkipDownload, GoDispatch, Frame, OnList
  <2>5. CASE RepublishFails \/ Recovered
    BY <2>1, <2>5, <1>f DEF RepublishFails, Recovered, AfterListing, Frame, OnList
  <2> QED BY <1>2, <2>2, <2>3, <2>4, <2>5
<1>3. CASE Reject \/ Materialize
  <2>1. /\ todo # <<>> /\ at' = "finish" /\ at \in {"ingest", "materialize"}
        /\ fin' = [tx |-> Head(todo), from |-> "ingest", durable |-> FALSE]
        /\ UNCHANGED <<queues, back, live, todo>>
    BY <1>3, <1>f DEF Reject, Materialize, Finish, Frame, OnList
  <2>2. Head(todo) = todo[1] /\ todo[1] \in Tx BY <1>s, <2>1, TailOf
  <2> QED BY <1>f, <2>1, <2>2 DEF Frame, OnList, queues
<1>4. CASE Enqueue
  <2>1. at = "ingest" /\ at' = "dispatch" /\ back' = "queued" /\ todo # <<>>
    BY <1>4 DEF Enqueue, GoDispatch
  <2>2. UNCHANGED <<active, todo, fin, live>> BY <1>4 DEF Enqueue
  <2> QED BY <1>f, <2>1, <2>2 DEF Frame, OnList
<1>5. CASE DispatchError
  <2>1. PICK i \in DOMAIN pending :
           /\ pending' = RemoveAt(pending, i) /\ pending[i] \in Tx
           /\ fin' = [tx |-> pending[i], from |-> "dispatch", durable |-> FALSE]
           /\ at' = "finish"
    BY <1>5, ErrorIs
  <2>2. at = "dispatch" /\ pending # <<>> /\ UNCHANGED <<active, todo, back, live>>
    BY <1>5 DEF DispatchError, FreeSlot
  <2>3. ToSet(pending') = ToSet(pending) \ {pending[i]} BY <1>f, <1>s, <2>1, RemoveAtOf DEF Queues
  <2>4. pending[i] \notin ToSet(active) BY <1>f DEF Queues, ToSet
  <2>5. pending[i] \notin Owned' BY <2>2, <2>3, <2>4 DEF Owned
  <2>6. back # "unwind" BY <1>f, <2>2 DEF Frame
  <2> QED BY <1>f, <2>1, <2>2, <2>5, <2>6 DEF Frame, OnList
<1>6. CASE Dispatch
  <2>1. at = "dispatch" /\ UNCHANGED <<at, back, live, todo, fin>>
    BY <1>6 DEF Dispatch, control
  <2>2. back # "unwind" BY <1>f, <2>1 DEF Frame
  <2> QED BY <1>f, <2>1, <2>2 DEF Frame, OnList
<1>7. CASE Dispatched
  <2>1. /\ at = "dispatch" /\ UNCHANGED <<pending, active, back, live, fin>>
        /\ \/ back = "queued" /\ at' = "ingest"
           \/ back \in {"admit", "barrier"} /\ at' = "drain" /\ todo' = todo
           \/ back = "admit" /\ at' = "ingest"
           \/ back = "barrier" /\ at' = "materialize" /\ Owned = {} /\ todo' = todo
           \/ back = "loop" /\ at' = "scan"
    BY <1>7 DEF Dispatched, queues
  <2>2. fin = NoFin /\ (back \in {"admit", "barrier"} => OnList) BY <1>f, <2>1 DEF Frame
  <2>3. Owned = {} => pending = <<>> /\ active = <<>> BY NoneOwned
  <2> QED BY <2>1, <2>2, <2>3 DEF Frame, OnList
<1>8. CASE Return \/ Unwound
  <2>1. /\ pending = <<>> /\ active = <<>>
    <3>1. CASE Return
      <4>1. Owned = {} BY <3>1 DEF Return
      <4> QED BY <4>1, NoneOwned
    <3>2. CASE Unwound BY <1>f, <3>2 DEF Unwound, Frame
    <3> QED BY <1>8, <3>1, <3>2
  <2>2. /\ UNCHANGED <<pending, active, fin>> /\ fin = NoFin
        /\ at' = "idle" /\ back' = "loop"
    BY <1>8, <1>f DEF Return, Unwound, Leave, Frame
  <2> QED BY <2>1, <2>2 DEF Frame
<1>9. CASE ReapOldest \/ ReapDone
  <2>1. PICK i \in DOMAIN active :
           /\ active[i] \in Tx /\ active' = RemoveAt(active, i)
           /\ fin' = [tx |-> active[i], from |-> "reap", durable |-> FALSE]
           /\ at' = "finish" /\ at \in {"drain", "unwind", "scan"}
    BY <1>9, ReapIs
  <2>2. UNCHANGED <<pending, back, live, todo>> BY <1>9 DEF ReapOldest, ReapDone
  <2>3. IsInjective(active) BY <1>f DEF HandedOver, IsInjective
  <2>4. ToSet(active') = ToSet(active) \ {active[i]} BY <1>s, <2>1, <2>3, RemoveAtOf
  <2>5. active[i] \notin ToSet(pending) BY <1>f DEF Queues, ToSet
  <2>6. active[i] \notin Owned' BY <2>2, <2>4, <2>5 DEF Owned
  <2>7. back \in {"queued", "admit", "barrier"} => OnList
    <3>1. ReapOldest => at \in {"drain", "unwind"} BY DEF ReapOldest
    <3>2. CASE at = "drain" BY <1>f, <3>2 DEF Frame
    <3>3. CASE at = "unwind" BY <1>f, <3>3 DEF Frame
    <3>4. CASE at = "scan" BY <1>f, <3>4 DEF Frame
    <3> QED BY <2>1, <3>2, <3>3, <3>4
  <2> QED BY <1>f, <2>1, <2>2, <2>6, <2>7 DEF Frame, OnList
<1>10. CASE Persist
  <2>1. /\ at = "finish" /\ UNCHANGED <<pending, active, at, back, live, todo>>
        /\ fin'.tx = fin.tx /\ fin'.from = fin.from
    <3>1. fin' = [fin EXCEPT !.durable = TRUE] BY <1>10 DEF Persist
    <3>2. fin \in [tx : {"none"} \cup Tx, from : {"ingest", "dispatch", "reap"}, durable : BOOLEAN]
      BY DEF IInv, TypeInv, TypeOK
    <3>3. fin'.tx = fin.tx /\ fin'.from = fin.from BY <3>1, <3>2
    <3> QED BY <1>10, <3>3 DEF Persist, queues
  <2> QED BY <1>f, <2>1 DEF Frame, OnList, Owned
<1>11. CASE Publish \/ PersistFails \/ PublishFails
  <2>1. at = "finish" /\ UNCHANGED live
    BY <1>11 DEF Publish, PersistFails, PublishFails
  <2>2. CASE Continue /\ UNCHANGED <<queues, back>>
    <3>1. /\ fin' = NoFin /\ UNCHANGED <<pending, active, back>>
          /\ \/ at' = "ingest" /\ fin.from = "ingest"
             \/ /\ fin.from # "ingest" /\ todo' = todo
                /\ \/ at' = "scan" /\ back = "loop"
                   \/ at' = "unwind" /\ back = "unwind"
                   \/ at' = "dispatch" /\ back # "unwind"
      BY <2>1, <2>2, ContinueIs DEF queues
    <3>2. back = "unwind" => fin.from = "reap" /\ pending = <<>> BY <1>f, <2>1 DEF Frame
    <3>3. fin.from # "ingest" /\ back \in {"queued", "admit", "barrier"} => OnList
      BY <1>f, <2>1 DEF Frame
    <3> QED BY <3>1, <3>2, <3>3 DEF Frame, OnList
  <2>3. CASE fin.from # "ingest" /\ back \in {"queued", "barrier"} /\ Blame(Head(todo))
    <3>1. todo # <<>> BY <1>f, <2>1, <2>3 DEF Frame, OnList
    <3>2. Head(todo) = todo[1] /\ todo[1] \in Tx BY <1>s, <3>1, TailOf
    <3>3. /\ at' = "finish" /\ UNCHANGED <<back, todo>>
          /\ fin' = [tx |-> Head(todo), from |-> "ingest", durable |-> FALSE]
      BY <2>3 DEF Blame, Finish
    <3> QED BY <2>3, <3>1, <3>2, <3>3 DEF Frame, OnList
  <2>4. CASE Swallow
    BY <2>4 DEF Swallow, GoDispatch, Frame
  <2>5. CASE Unwind BY <2>5 DEF Unwind, Frame
  <2> QED BY <1>11, <2>2, <2>3, <2>4, <2>5, FailsSoundly DEF Publish
<1> QED
  BY <1>1, <1>2, <1>3, <1>4, <1>5, <1>6, <1>7, <1>8, <1>9, <1>10, <1>11 DEF Next, Owner

\* Away from a dispatch for the request at hand nothing on the list is owned.
LEMMA ListNotOwned ==
    ASSUME IInv
    PROVE  /\ (at \notin {"dispatch", "finish"} \/ (at = "dispatch" /\ back # "queued")) =>
                 \A i \in DOMAIN todo : todo[i] \notin Owned
           /\ todo # <<>> => \A i \in DOMAIN Tail(todo) : Tail(todo)[i] \notin Owned
<1>1. todo \in Seq(Tx) /\ DOMAIN todo = 1 .. Len(todo) /\ Len(todo) \in Nat /\ "none" \notin Tx
  BY LenProperties, SchedulerAssumption DEF IInv, TypeInv, SequencesOK
<1>2. \A i \in DOMAIN todo : todo[i] \in Tx BY <1>1, ElementOfSeq
<1>3. \A i \in DOMAIN todo : todo[i] \in Owned => i = 1 /\ AtHand BY DEF IInv, Queues
<1>4. ASSUME at \notin {"dispatch", "finish"} \/ (at = "dispatch" /\ back # "queued")
      PROVE  \A i \in DOMAIN todo : todo[i] \notin Owned
  <2>1. fin.tx = "none" BY <1>4 DEF IInv, Frame, NoFin
  <2>2. ASSUME NEW i \in DOMAIN todo, todo[i] \in Owned PROVE FALSE
    <3>1. i = 1 /\ AtHand BY <1>3, <2>2
    <3>2. fin.tx = todo[1] BY <1>4, <3>1 DEF AtHand
    <3> QED BY <1>1, <1>2, <2>1, <3>1, <3>2
  <2> QED BY <2>2
<1>5. ASSUME todo # <<>> PROVE \A i \in DOMAIN Tail(todo) : Tail(todo)[i] \notin Owned
  <2>1. \A i \in DOMAIN Tail(todo) : i + 1 \in DOMAIN todo /\ Tail(todo)[i] = todo[i + 1]
    BY <1>1, <1>5, TailOf
  <2>2. Tail(todo) \in Seq(Tx) BY <1>1, <1>5, TailOf
  <2>3. \A i \in DOMAIN Tail(todo) : i \in Nat /\ i + 1 # 1 BY <2>2, LenProperties
  <2> QED BY <1>3, <2>1, <2>3
<1> QED BY <1>4, <1>5

\* A listing never names what is queued or running; what is taken from it for a
\* worker stays on it until the dispatch behind it is over.
LEMMA QueuesStep == IInv /\ [Next]_vars => Queues'
<1> SUFFICES ASSUME IInv, [Next]_vars PROVE Queues' OBVIOUS
<1>q. Queues /\ Frame /\ HandedOver BY DEF IInv
<1>s. pending \in Seq(Tx) /\ active \in Seq(Tx) /\ todo \in Seq(Tx) /\ order \in Seq(Repo)
  BY DEF IInv, TypeInv, SequencesOK
<1>t. todo # <<>> => Head(todo) = todo[1] /\ 1 \in DOMAIN todo /\ todo[1] \in Tx
                     /\ IsInjective(Tail(todo)) /\ Tail(todo) \in Seq(Tx)
  BY <1>q, <1>s, TailOf DEF Queues
<1>e. IsInjective(<<>>) /\ DOMAIN <<>> = {} BY EmptyIs
\* The queues stay, and nothing on the list is owned.
<1>k. ASSUME UNCHANGED <<pending, active, order>>, IsInjective(todo'),
             \A i \in DOMAIN todo' : todo'[i] \notin Owned,
             at' = "finish" => fin'.from = "ingest"
      PROVE  Queues'
  BY <1>q, <1>k DEF Queues, Owned
<1>1. CASE \/ \E t \in Tx : Send(t) \/ Complete(t)
           \/ \E k \in Repo : Toggle(k)
           \/ Stop \/ Take \/ Republish \/ WaitGrace \/ UNCHANGED vars
  <2>1. UNCHANGED <<pending, active, order, at, back, todo, fin>>
    BY <1>1 DEF Send, Complete, Toggle, Stop, Take, Republish, WaitGrace, vars, queues, control
  <2> QED BY <1>q, <2>1 DEF Queues, AtHand, Owned
<1>2. CASE \/ Quit \/ Tick \/ RepublishFails \/ Recovered \/ Ingested \/ Admit \/ ReachBarrier
           \/ SkipDownload \/ Scanned \/ Reject \/ Materialize
  <2>1. /\ UNCHANGED <<pending, active, order>> /\ at \notin {"dispatch", "finish"}
        /\ todo' \in {todo, <<>>} \/ (todo # <<>> /\ todo' = Tail(todo))
    BY <1>2 DEF Quit, Tick, RepublishFails, Recovered, Ingested, Admit, ReachBarrier, SkipDownload,
                Scanned, Reject, Materialize, queues
  <2>2. at' = "finish" => fin'.from = "ingest"
    BY <1>2 DEF Quit, Tick, RepublishFails, Recovered, Ingested, Admit, ReachBarrier, SkipDownload,
                Scanned, Reject, Materialize, Finish, GoDispatch, AfterListing
  <2>3. IsInjective(todo') BY <1>e, <1>t, <2>1, <1>q DEF Queues
  <2>4. \A i \in DOMAIN todo' : todo'[i] \notin Owned BY <1>e, <2>1, ListNotOwned
  <2> QED BY <1>k, <2>1, <2>2, <2>3, <2>4
<1>3. CASE Poll \/ LivePoll
  <2>1. PICK S \in SUBSET Tx : todo' = Listed(S \ durable) /\ S \cap Owned = {}
    <3>1. CASE Poll
      <4>1. pending = <<>> /\ active = <<>> BY <1>q, <3>1 DEF Poll, Frame
      <4>2. Owned = {} BY <4>1, EmptyIs DEF Owned
      <4>3. Candidates \in SUBSET Tx /\ todo' = Listed(Candidates \ durable)
        BY <3>1 DEF Poll, List, Candidates
      <4> QED BY <4>2, <4>3
    <3>2. CASE LivePoll
      <4>1. /\ Candidates \ Owned \in SUBSET Tx
            /\ todo' = Listed((Candidates \ Owned) \ durable)
        BY <3>2 DEF LivePoll, List, Candidates
      <4> QED BY <4>1
    <3> QED BY <1>3, <3>1, <3>2
  <2>2. todo' \in Seq(S \ durable) /\ IsInjective(todo') BY <2>1, ListedOf
  <2>3. \A i \in DOMAIN todo' : todo'[i] \in S BY <2>2, ElementOfSeq, LenProperties
  <2>4. UNCHANGED <<pending, active, order>> /\ at' = "recover"
    BY <1>3 DEF Poll, LivePoll, List, queues
  <2> QED BY <1>k, <2>1, <2>2, <2>3, <2>4
<1>4. CASE Enqueue
  <2> DEFINE t == Head(todo)
  <2>1. /\ at = "ingest" /\ todo # <<>> /\ pending' = Append(pending, t)
        /\ order' = (IF Key(t) \in ToSet(order) THEN order ELSE Append(order, Key(t)))
        /\ at' = "dispatch" /\ back' = "queued" /\ UNCHANGED <<active, todo>>
    BY <1>4 DEF Enqueue, GoDispatch
  <2>2. t = todo[1] /\ 1 \in DOMAIN todo /\ t \in Tx BY <1>t, <2>1
  <2>3. t \notin Owned BY <2>1, <2>2, ListNotOwned
  <2>4. Key(t) \in Repo BY <2>2, SchedulerAssumption DEF Key
  <2> HIDE DEF t
  <2>5. /\ ToSet(pending') = ToSet(pending) \cup {t} /\ IsInjective(pending')
        /\ \A i \in DOMAIN pending' : (i \in DOMAIN pending /\ pending'[i] = pending[i]) \/ pending'[i] = t
    BY <1>q, <1>s, <2>1, <2>2, <2>3, AppendOf DEF Queues, Owned
  <2>6. ToSet(order') = ToSet(order) \cup {Key(t)}
    <3>1. CASE Key(t) \in ToSet(order) BY <2>1, <3>1
    <3>2. CASE Key(t) \notin ToSet(order) BY <1>s, <2>1, <2>4, <3>2, AppendOf
    <3> QED BY <3>1, <3>2
  <2>7. \A i \in DOMAIN pending' : Key(pending'[i]) \in ToSet(order')
    BY <1>q, <2>5, <2>6 DEF Queues
  <2>8. ASSUME NEW i \in DOMAIN todo, todo[i] \in Owned' PROVE i = 1
    <3>1. Owned' = Owned \cup {t} BY <2>1, <2>5 DEF Owned
    <3>2. todo[i] = t BY <2>1, <2>8, <3>1, ListNotOwned
    <3> QED BY <1>q, <2>2, <3>2 DEF Queues, IsInjective
  <2> QED BY <1>q, <2>1, <2>3, <2>5, <2>7, <2>8 DEF Queues, Owned, AtHand
<1>5. CASE DispatchError
  <2>1. PICK i \in DOMAIN pending :
           /\ pending' = RemoveAt(pending, i) /\ pending[i] \in Tx
           /\ fin' = [tx |-> pending[i], from |-> "dispatch", durable |-> FALSE]
           /\ at' = "finish"
    BY <1>5, ErrorIs
  <2>2. at = "dispatch" /\ UNCHANGED <<active, todo, back, order>> BY <1>5 DEF DispatchError
  <2>3. /\ ToSet(pending') = ToSet(pending) \ {pending[i]} /\ IsInjective(pending')
        /\ \A j \in DOMAIN pending' : \E k \in DOMAIN pending : pending'[j] = pending[k]
    BY <1>q, <1>s, <2>1, RemoveAtOf DEF Queues
  <2>4. \A j \in DOMAIN pending' : Key(pending'[j]) \in ToSet(order) BY <1>q, <2>3 DEF Queues
  <2>5. pending[i] \in Owned /\ Owned' \subseteq Owned BY <2>2, <2>3 DEF Owned, ToSet
  <2>6. ASSUME NEW j \in DOMAIN todo, todo[j] \in Owned PROVE j = 1 /\ back = "queued"
    <3>1. j = 1 BY <1>q, <2>6 DEF Queues
    <3>2. back = "queued" BY <2>2, <2>6, ListNotOwned
    <3> QED BY <3>1, <3>2
  <2> QED BY <1>q, <2>1, <2>2, <2>3, <2>4, <2>5, <2>6 DEF Queues, AtHand
<1>6. CASE Dispatch
  <2>1. PICK i \in DOMAIN pending :
           /\ pending[i] \in Tx /\ Key(pending[i]) \notin InFlight
           /\ pending' = RemoveAt(pending, i) /\ active' = Append(active, pending[i])
    BY <1>6, DispatchIs
  <2>2. UNCHANGED <<at, todo, back, order, fin>> /\ at = "dispatch" BY <1>6 DEF Dispatch, control
  <2>3. /\ ToSet(pending') = ToSet(pending) \ {pending[i]} /\ IsInjective(pending')
        /\ \A j \in DOMAIN pending' : \E k \in DOMAIN pending : pending'[j] = pending[k]
    BY <1>q, <1>s, <2>1, RemoveAtOf DEF Queues
  <2>4. \A j \in DOMAIN pending' : Key(pending'[j]) \in ToSet(order) BY <1>q, <2>3 DEF Queues
  <2>5. ToSet(active') = ToSet(active) \cup {pending[i]} BY <1>s, <2>1, AppendOf
  <2>6. Owned' = Owned /\ ToSet(pending') \cap ToSet(active') = {}
    <3>1. pending[i] \in ToSet(pending) BY DEF ToSet
    <3> QED BY <1>q, <2>3, <2>5, <3>1 DEF Owned, Queues
  <2> QED BY <1>q, <2>2, <2>3, <2>4, <2>6 DEF Queues, AtHand
<1>7. CASE Dispatched
  <2>1. /\ at = "dispatch" /\ UNCHANGED <<pending, active, order>>
        /\ (back = "queued" /\ todo' = Tail(todo)) \/ (back # "queued" /\ todo' = todo)
        /\ at' # "finish"
    BY <1>7 DEF Dispatched, queues
  <2>2. back = "queued" => todo # <<>> BY <1>q, <2>1 DEF Frame, OnList
  <2>3. IsInjective(todo') /\ \A i \in DOMAIN todo' : todo'[i] \notin Owned
    BY <1>t, <1>q, <2>1, <2>2, ListNotOwned DEF Queues
  <2> QED BY <1>k, <2>1, <2>3
<1>8. CASE Return \/ Unwound
  <2>1. pending = <<>> /\ active = <<>>
    <3>1. Return => Owned = {} BY DEF Return
    <3>2. CASE Unwound BY <1>q, <3>2 DEF Unwound, Frame
    <3> QED BY <1>8, <3>1, <3>2, NoneOwned
  <2>2. UNCHANGED <<pending, active, todo>> /\ at' = "idle" BY <1>8 DEF Return, Unwound, Leave
  <2>3. Owned' = {} BY <2>1, <2>2, EmptyIs DEF Owned
  <2> QED BY <1>q, <1>e, <2>1, <2>2, <2>3, EmptyIs DEF Queues
<1>9. CASE ReapOldest \/ ReapDone
  <2>1. PICK i \in DOMAIN active :
           /\ active[i] \in Tx /\ active' = RemoveAt(active, i)
           /\ fin' = [tx |-> active[i], from |-> "reap", durable |-> FALSE]
           /\ at' = "finish" /\ at \in {"drain", "unwind", "scan"}
    BY <1>9, ReapIs
  <2>2. UNCHANGED <<pending, order, todo>> BY <1>9 DEF ReapOldest, ReapDone
  <2>3. ToSet(active') \subseteq ToSet(active) BY <1>s, <2>1, RemoveAtOf
  <2>4. Owned' \subseteq Owned /\ active[i] \in Owned BY <2>2, <2>3 DEF Owned, ToSet
  <2>5. \A j \in DOMAIN todo : todo[j] \notin Owned BY <2>1, ListNotOwned
  <2>6. fin'.tx = active[i] BY <2>1
  <2> QED BY <1>q, <2>2, <2>3, <2>4, <2>5, <2>6 DEF Queues
<1>10. CASE Persist
  <2>1. UNCHANGED <<pending, active, order, at, back, todo>> /\ fin'.tx = fin.tx /\ fin'.from = fin.from
    <3>1. fin' = [fin EXCEPT !.durable = TRUE] BY <1>10 DEF Persist
    <3>2. fin \in [tx : {"none"} \cup Tx, from : {"ingest", "dispatch", "reap"}, durable : BOOLEAN]
      BY DEF IInv, TypeInv, TypeOK
    <3>3. fin'.tx = fin.tx /\ fin'.from = fin.from BY <3>1, <3>2
    <3> QED BY <1>10, <3>3 DEF Persist, queues
  <2> QED BY <1>q, <2>1 DEF Queues, AtHand, Owned
<1>11. CASE Publish \/ PersistFails \/ PublishFails
  <2>1. at = "finish" BY <1>11 DEF Publish, PersistFails, PublishFails
  <2>2. CASE Continue /\ UNCHANGED <<queues, back>>
    <3>1. UNCHANGED <<pending, active, order, back>> BY <2>2 DEF queues
    <3>2. CASE fin.from = "ingest"
      <4>1. todo # <<>> /\ todo' = Tail(todo) /\ at' = "ingest" BY <2>1, <2>2, <3>2, ContinueIs
      <4> QED BY <1>k, <1>t, <3>1, <4>1, ListNotOwned
    <3>3. CASE fin.from # "ingest"
      <4>1. /\ todo' = todo /\ at' \in {"scan", "unwind", "dispatch"}
            /\ back = "queued" => at' = "dispatch"
        BY <2>1, <2>2, <3>3, ContinueIs
      <4>2. ASSUME NEW i \in DOMAIN todo, todo[i] \in Owned PROVE i = 1 /\ back = "queued"
        <5>1. i = 1 /\ AtHand BY <1>q, <4>2 DEF Queues
        <5>2. fin.tx \notin Owned BY <1>q, <2>1, <3>3 DEF Frame
        <5> QED BY <4>2, <5>1, <5>2 DEF AtHand
      <4> QED BY <1>q, <3>1, <4>1, <4>2 DEF Queues, Owned, AtHand
    <3> QED BY <3>2, <3>3
  <2>3. CASE fin.from # "ingest" /\ back \in {"queued", "barrier"} /\ Blame(Head(todo))
    <3>1. todo # <<>> BY <1>q, <2>1, <2>3 DEF Frame, OnList
    <3>2. /\ fin'.tx = todo[1] /\ fin'.from = "ingest" /\ UNCHANGED <<pending, active, order, todo>>
      BY <1>t, <2>3, <3>1 DEF Blame, Finish, queues
    <3> QED BY <1>q, <3>2 DEF Queues, AtHand, Owned
  <2>4. CASE Swallow
    <3>1. UNCHANGED <<pending, active, order>> /\ todo' = <<>> /\ at' = "dispatch"
      BY <2>4 DEF Swallow, GoDispatch, queues
    <3> QED BY <1>k, <1>e, <3>1
  <2>5. CASE Unwind
    <3>1. UNCHANGED <<active, order>> /\ pending' = <<>> /\ todo' = <<>> /\ at' = "unwind"
      BY <2>5 DEF Unwind
    <3> QED BY <1>e, <3>1, EmptyIs DEF Queues
  <2> QED BY <1>11, <2>2, <2>3, <2>4, <2>5, FailsSoundly DEF Publish
<1> QED
  BY <1>1, <1>2, <1>3, <1>4, <1>5, <1>6, <1>7, <1>8, <1>9, <1>10, <1>11 DEF Next, Owner

LEMMA ListNotDurable ==
    ASSUME IInv, Unanswered
    PROVE  /\ (at \notin {"dispatch", "finish"} \/ (at = "dispatch" /\ back # "queued")) =>
                 \A i \in DOMAIN todo : todo[i] \notin durable
           /\ todo # <<>> => \A i \in DOMAIN Tail(todo) : Tail(todo)[i] \notin durable
<1>1. todo \in Seq(Tx) /\ DOMAIN todo = 1 .. Len(todo) /\ Len(todo) \in Nat /\ "none" \notin Tx
  BY LenProperties, SchedulerAssumption DEF IInv, TypeInv, SequencesOK
<1>2. \A i \in DOMAIN todo : todo[i] \in Tx BY <1>1, ElementOfSeq
<1>3. \A i \in DOMAIN todo : todo[i] \in durable => i = 1 /\ AtHand BY DEF Unanswered
<1>4. ASSUME at \notin {"dispatch", "finish"} \/ (at = "dispatch" /\ back # "queued")
      PROVE  \A i \in DOMAIN todo : todo[i] \notin durable
  <2>1. fin.tx = "none" BY <1>4 DEF IInv, Frame, NoFin
  <2>2. ASSUME NEW i \in DOMAIN todo, todo[i] \in durable PROVE FALSE
    <3>1. i = 1 /\ AtHand BY <1>3, <2>2
    <3>2. fin.tx = todo[1] BY <1>4, <3>1 DEF AtHand
    <3> QED BY <1>1, <1>2, <2>1, <3>1, <3>2
  <2> QED BY <2>2
<1>5. ASSUME todo # <<>> PROVE \A i \in DOMAIN Tail(todo) : Tail(todo)[i] \notin durable
  <2>1. \A i \in DOMAIN Tail(todo) : i + 1 \in DOMAIN todo /\ Tail(todo)[i] = todo[i + 1]
    BY <1>1, <1>5, TailOf
  <2>2. Tail(todo) \in Seq(Tx) BY <1>1, <1>5, TailOf
  <2>3. \A i \in DOMAIN Tail(todo) : i \in Nat /\ i + 1 # 1 BY <2>2, LenProperties
  <2> QED BY <1>3, <2>1, <2>3
<1> QED BY <1>4, <1>5

\* What is listed is not durable, and what becomes durable while it is still on
\* the list or among the owned ones was answered for another request's exception.
LEMMA UnansweredStep == IInv /\ Unanswered /\ [Next]_vars => Unanswered'
<1> SUFFICES ASSUME IInv, Unanswered, [Next]_vars PROVE Unanswered' OBVIOUS
<1>q. Queues /\ Frame /\ HandedOver /\ Unanswered BY DEF IInv
<1>s. pending \in Seq(Tx) /\ active \in Seq(Tx) /\ todo \in Seq(Tx)
  BY DEF IInv, TypeInv, SequencesOK
<1>t. todo # <<>> => Head(todo) = todo[1] /\ 1 \in DOMAIN todo /\ todo[1] \in Tx
  BY <1>s, TailOf
<1>e. DOMAIN <<>> = {} BY EmptyIs
\* Nothing on the list is durable, and what is being finished is not owned.
<1>k. ASSUME UNCHANGED <<durable, misblamed>>, Owned' \subseteq Owned,
             \A i \in DOMAIN todo' : todo'[i] \notin durable,
             at' = "finish" => (fin'.from = "ingest" => fin'.tx \notin Owned)
      PROVE  Unanswered'
  BY <1>q, <1>k DEF Unanswered
<1>1. CASE \E t \in Tx : Send(t)
  <2>1. PICK t \in Tx : Send(t) BY <1>1
  <2>2. /\ durable' = durable \ {t} /\ misblamed' = misblamed \ {t} /\ t \notin Owned
        /\ at # "finish" /\ UNCHANGED <<pending, active, at, back, todo, fin>>
    BY <2>1 DEF Send, queues, control
  <2> QED BY <1>q, <2>2 DEF Unanswered, AtHand, Owned
<1>2. CASE \/ \E t \in Tx : Complete(t)
           \/ \E k \in Repo : Toggle(k)
           \/ Stop \/ Take \/ Republish \/ WaitGrace \/ UNCHANGED vars
  <2>1. UNCHANGED <<pending, active, at, back, todo, fin, durable, misblamed>>
    BY <1>2 DEF Complete, Toggle, Stop, Take, Republish, WaitGrace, vars, queues, control,
                mailbox, history
  <2> QED BY <1>q, <2>1 DEF Unanswered, AtHand, Owned
<1>3. CASE \/ Quit \/ Tick \/ RepublishFails \/ Recovered \/ Ingested \/ Admit \/ ReachBarrier
           \/ SkipDownload \/ Scanned \/ Reject \/ Materialize
  <2>1. /\ UNCHANGED <<pending, active, durable, misblamed>> /\ at \notin {"dispatch", "finish"}
        /\ todo' \in {todo, <<>>} \/ (todo # <<>> /\ todo' = Tail(todo))
    BY <1>3 DEF Quit, Tick, RepublishFails, Recovered, Ingested, Admit, ReachBarrier, SkipDownload,
                Scanned, Reject, Materialize, queues, mailbox, history
  <2>2. at' = "finish" => todo # <<>> /\ fin'.tx = Head(todo)
    BY <1>3, <1>q DEF Quit, Tick, RepublishFails, Recovered, Ingested, Admit, ReachBarrier,
                SkipDownload, Scanned, Reject, Materialize, Finish, GoDispatch, AfterListing,
                Frame, OnList
  <2>3. at' = "finish" => fin'.tx \notin Owned BY <1>t, <2>1, <2>2, ListNotOwned
  <2>4. \A i \in DOMAIN todo' : todo'[i] \notin durable BY <1>e, <2>1, ListNotDurable
  <2>5. Owned' = Owned BY <2>1 DEF Owned
  <2> QED BY <1>k, <2>1, <2>3, <2>4, <2>5
<1>4. CASE Poll \/ LivePoll
  <2>1. PICK S \in SUBSET Tx : todo' = Listed(S \ durable)
    BY <1>4 DEF Poll, LivePoll, List, Candidates
  <2>2. todo' \in Seq(S \ durable) BY <2>1, ListedOf
  <2>3. \A i \in DOMAIN todo' : todo'[i] \notin durable BY <2>2, ElementOfSeq, LenProperties
  <2>4. UNCHANGED <<pending, active, durable, misblamed>> /\ at' = "recover"
    BY <1>4 DEF Poll, LivePoll, List, queues, mailbox, history
  <2>5. Owned' = Owned BY <2>4 DEF Owned
  <2> QED BY <1>k, <2>3, <2>4, <2>5
<1>5. CASE Enqueue
  <2>1. /\ at = "ingest" /\ todo # <<>> /\ pending' = Append(pending, Head(todo))
        /\ at' = "dispatch" /\ UNCHANGED <<active, todo, durable, misblamed>>
    BY <1>5 DEF Enqueue, GoDispatch, mailbox, history
  <2>2. ToSet(pending') = ToSet(pending) \cup {todo[1]} BY <1>s, <1>t, <2>1, AppendOf
  <2>3. Owned' = Owned \cup {todo[1]} BY <2>1, <2>2 DEF Owned
  <2>4. \A i \in DOMAIN todo : todo[i] \notin durable BY <2>1, ListNotDurable
  <2> QED BY <1>q, <1>t, <2>1, <2>3, <2>4 DEF Unanswered
<1>6. CASE DispatchError
  <2>1. PICK i \in DOMAIN pending :
           /\ pending' = RemoveAt(pending, i)
           /\ fin' = [tx |-> pending[i], from |-> "dispatch", durable |-> FALSE]
           /\ at' = "finish"
    BY <1>6, ErrorIs
  <2>2. at = "dispatch" /\ UNCHANGED <<active, todo, back, durable, misblamed>>
    BY <1>6 DEF DispatchError, mailbox, history
  <2>3. ToSet(pending') \subseteq ToSet(pending) BY <1>s, <2>1, RemoveAtOf
  <2>4. Owned' \subseteq Owned BY <2>2, <2>3 DEF Owned
  <2>5. ASSUME NEW j \in DOMAIN todo, todo[j] \in durable PROVE j = 1 /\ back = "queued"
    <3>1. j = 1 BY <1>q, <2>5 DEF Unanswered
    <3>2. back = "queued" BY <2>2, <2>5, ListNotDurable
    <3> QED BY <3>1, <3>2
  <2> QED BY <1>q, <2>1, <2>2, <2>4, <2>5 DEF Unanswered, AtHand
<1>7. CASE Dispatch
  <2>1. PICK i \in DOMAIN pending :
           /\ pending[i] \in Tx
           /\ pending' = RemoveAt(pending, i) /\ active' = Append(active, pending[i])
    BY <1>7, DispatchIs
  <2>2. UNCHANGED <<at, todo, back, fin, durable, misblamed>> BY <1>7 DEF Dispatch, control, mailbox
  <2>3. ToSet(pending') \subseteq ToSet(pending) BY <1>s, <2>1, RemoveAtOf
  <2>4. ToSet(active') = ToSet(active) \cup {pending[i]} BY <1>s, <2>1, AppendOf
  <2>5. Owned' \subseteq Owned BY <2>3, <2>4 DEF Owned, ToSet
  <2> QED BY <1>q, <2>2, <2>5 DEF Unanswered, AtHand
<1>8. CASE Dispatched
  <2>1. /\ at = "dispatch" /\ UNCHANGED <<pending, active, durable, misblamed>>
        /\ (back = "queued" /\ todo' = Tail(todo)) \/ (back # "queued" /\ todo' = todo)
        /\ at' # "finish"
    BY <1>8 DEF Dispatched, queues, mailbox, history
  <2>2. back = "queued" => todo # <<>> BY <1>q, <2>1 DEF Frame, OnList
  <2>3. \A i \in DOMAIN todo' : todo'[i] \notin durable BY <2>1, <2>2, ListNotDurable
  <2>4. Owned' = Owned BY <2>1 DEF Owned
  <2> QED BY <1>k, <2>1, <2>3, <2>4
<1>9. CASE Return \/ Unwound
  <2>1. UNCHANGED <<pending, active, todo, durable, misblamed>> /\ at' = "idle"
    BY <1>9 DEF Return, Unwound, Leave, mailbox
  <2>2. at \notin {"dispatch", "finish"} \/ (at = "dispatch" /\ back # "queued")
    BY <1>9 DEF Return, Unwound
  <2>3. Owned' = Owned BY <2>1 DEF Owned
  <2> QED BY <1>k, <2>1, <2>2, <2>3, ListNotDurable
<1>10. CASE ReapOldest \/ ReapDone
  <2>1. PICK i \in DOMAIN active :
           /\ active' = RemoveAt(active, i)
           /\ fin' = [tx |-> active[i], from |-> "reap", durable |-> FALSE]
           /\ at' = "finish" /\ at \in {"drain", "unwind", "scan"}
    BY <1>10, ReapIs
  <2>2. UNCHANGED <<pending, todo, durable, misblamed>>
    BY <1>10 DEF ReapOldest, ReapDone, mailbox, history
  <2>3. ToSet(active') \subseteq ToSet(active) BY <1>s, <2>1, RemoveAtOf
  <2>4. Owned' \subseteq Owned BY <2>2, <2>3 DEF Owned
  <2>5. \A j \in DOMAIN todo : todo[j] \notin durable BY <2>1, ListNotDurable
  <2>6. fin'.from = "reap" BY <2>1
  <2> QED BY <1>k, <2>2, <2>4, <2>5, <2>6
<1>11. CASE Persist
  <2>1. /\ at = "finish" /\ durable' = durable \cup {fin.tx}
        /\ UNCHANGED <<pending, active, at, back, todo, misblamed>>
        /\ fin'.tx = fin.tx /\ fin'.from = fin.from
    <3>1. fin' = [fin EXCEPT !.durable = TRUE] BY <1>11 DEF Persist
    <3>2. fin \in [tx : {"none"} \cup Tx, from : {"ingest", "dispatch", "reap"}, durable : BOOLEAN]
      BY DEF IInv, TypeInv, TypeOK
    <3>3. fin'.tx = fin.tx /\ fin'.from = fin.from BY <3>1, <3>2
    <3> QED BY <1>11, <3>3 DEF Persist, queues, history
  <2>2. Owned' = Owned BY <2>1 DEF Owned
  <2>3. fin.tx \in Owned => fin.tx \in misblamed BY <1>q, <2>1 DEF Frame, Unanswered
  <2>4. ASSUME NEW i \in DOMAIN todo, todo[i] = fin.tx PROVE i = 1 /\ AtHand
    <3>1. CASE fin.from = "ingest"
      <4>1. fin.tx = todo[1] /\ 1 \in DOMAIN todo BY <1>q, <1>t, <2>1, <3>1 DEF Frame, OnList
      <4>2. i = 1 BY <1>q, <2>4, <4>1 DEF Queues, IsInjective
      <4> QED BY <4>1, <4>2 DEF AtHand
    <3>2. CASE fin.from # "ingest" BY <1>q, <2>1, <2>4, <3>2 DEF Queues, AtHand
    <3> QED BY <3>1, <3>2
  <2>5. AtHand' = AtHand BY <2>1 DEF AtHand
  <2> QED BY <1>q, <2>1, <2>2, <2>3, <2>4, <2>5 DEF Unanswered
<1>12. CASE Publish \/ PersistFails \/ PublishFails
  <2>1. at = "finish" /\ UNCHANGED durable
    BY <1>12 DEF Publish, PersistFails, PublishFails, mailbox
  <2>2. CASE Continue /\ UNCHANGED <<queues, back, misblamed>>
    <3>1. UNCHANGED <<pending, active, back, misblamed>> BY <2>2 DEF queues
    <3>2. Owned' = Owned BY <3>1 DEF Owned
    <3>3. CASE fin.from = "ingest"
      <4>1. todo # <<>> /\ todo' = Tail(todo) /\ at' = "ingest" BY <2>1, <2>2, <3>3, ContinueIs
      <4> QED BY <1>k, <2>1, <3>1, <3>2, <4>1, ListNotDurable
    <3>4. CASE fin.from # "ingest"
      <4>1. /\ todo' = todo /\ at' \in {"scan", "unwind", "dispatch"}
            /\ back = "queued" => at' = "dispatch"
        BY <2>1, <2>2, <3>4, ContinueIs
      <4>2. ASSUME NEW i \in DOMAIN todo, todo[i] \in durable PROVE i = 1 /\ back = "queued"
        <5>1. i = 1 /\ AtHand BY <1>q, <4>2 DEF Unanswered
        <5>2. fin.tx = todo[i] => back = "queued" BY <1>q, <2>1, <3>4 DEF Queues
        <5> QED BY <5>1, <5>2 DEF AtHand
      <4> QED BY <1>q, <2>1, <3>1, <3>2, <4>1, <4>2 DEF Unanswered, AtHand
    <3> QED BY <3>3, <3>4
  <2>3. CASE fin.from # "ingest" /\ back \in {"queued", "barrier"} /\ Blame(Head(todo))
    <3>1. todo # <<>> BY <1>q, <2>1, <2>3 DEF Frame, OnList
    <3>2. /\ fin'.tx = todo[1] /\ UNCHANGED <<pending, active, todo>>
          /\ misblamed' = misblamed \cup {todo[1]}
      BY <1>t, <2>3, <3>1 DEF Blame, Finish, queues
    <3> QED BY <1>q, <2>1, <3>2 DEF Unanswered, AtHand, Owned
  <2>4. CASE Swallow
    <3>1. UNCHANGED <<pending, active, misblamed>> /\ todo' = <<>> /\ at' = "dispatch"
      BY <2>4 DEF Swallow, GoDispatch, queues
    <3>2. Owned' = Owned BY <3>1 DEF Owned
    <3> QED BY <1>k, <1>e, <2>1, <3>1, <3>2
  <2>5. CASE Unwind
    <3>1. UNCHANGED <<active, misblamed>> /\ pending' = <<>> /\ todo' = <<>> /\ at' = "unwind"
      BY <2>5 DEF Unwind
    <3>2. Owned' \subseteq Owned BY <3>1, EmptyIs DEF Owned
    <3> QED BY <1>k, <1>e, <2>1, <3>1, <3>2
  <2> QED BY <1>12, <2>2, <2>3, <2>4, <2>5, FailsSoundly DEF Publish, history
<1> QED
  BY <1>1, <1>2, <1>3, <1>4, <1>5, <1>6, <1>7, <1>8, <1>9, <1>10, <1>11, <1>12 DEF Next, Owner

\* In the round that begins behind k, k is the last and the others keep their order.
LEMMA Rotated ==
    ASSUME NEW n \in Nat, NEW c \in 1 .. n, NEW k \in 1 .. n, NEW i \in 1 .. n, NEW j \in 1 .. n
    PROVE  /\ j # k => After((k % n) + 1, k, j)
           /\ After(c, j, k) /\ After(c, i, j) => After((k % n) + 1, i, j)
           /\ ~(After(c, i, j) /\ After(c, j, i))
<1> DEFINE d == (k % n) + 1
<1>1. d = IF k < n THEN k + 1 ELSE 1
  <2>1. CASE k < n BY <2>1, Wrapped
  <2>2. CASE k = n BY <2>2, Wrapped
  <2> QED BY <2>1, <2>2
<1> HIDE DEF d
<1>2. /\ j # k => After(d, k, j)
      /\ After(c, j, k) /\ After(c, i, j) => After(d, i, j)
  BY <1>1 DEF After
<1>3. ~(After(c, i, j) /\ After(c, j, i)) BY DEF After
<1> USE DEF d
<1> QED BY <1>2, <1>3

\* Serving k moves it behind every repository that was runnable, and what was
\* served while another one waited stays behind that one.
LEMMA InTurnStep ==
    ASSUME IInv, InTurn, [Next]_vars
    PROVE  /\ InTurn'
           /\ \A t \in ToSet(active') \ ToSet(active), l \in RunnableKeys :
                 l # Key(t) => Key(t) \notin passed[l]
<1>q. Queues /\ InTurn BY DEF IInv
<1>s. /\ pending \in Seq(Tx) /\ active \in Seq(Tx) /\ order \in Seq(Repo)
      /\ passed \in [Repo -> SUBSET Repo] /\ cursor \in Nat \ {0}
      /\ cursor = 1 \/ cursor <= Len(order)
  BY DEF IInv, TypeInv, SequencesOK
<1>n. DOMAIN order = 1 .. Len(order) /\ Len(order) \in Nat BY <1>s, LenProperties
<1>k. ASSUME UNCHANGED <<order, cursor, passed>>, ToSet(active') \subseteq ToSet(active)
      PROVE  /\ InTurn'
             /\ \A t \in ToSet(active') \ ToSet(active), l \in RunnableKeys :
                   l # Key(t) => Key(t) \notin passed[l]
  BY <1>q, <1>k DEF InTurn
<1>1. CASE \/ \E t \in Tx : Send(t) \/ Complete(t)
           \/ \E k \in Repo : Toggle(k)
           \/ Stop \/ Quit \/ Poll \/ LivePoll \/ Tick \/ Take
           \/ Republish \/ WaitGrace \/ RepublishFails \/ Recovered \/ Ingested \/ Admit
           \/ SkipDownload \/ Reject \/ ReachBarrier \/ Materialize \/ Dispatched
           \/ Scanned \/ Persist \/ Publish \/ UNCHANGED vars
  <2>1. UNCHANGED <<order, cursor, passed, active>>
    BY <1>1 DEF Send, Complete, Toggle, Stop, Quit, Poll, LivePoll, Tick, Take, Republish,
                WaitGrace, RepublishFails, Recovered, Ingested, Admit, SkipDownload, Reject,
                ReachBarrier, Materialize, Dispatched, Scanned, Persist, Publish,
                vars, queues, control, history
  <2> QED BY <1>k, <2>1
<1>2. CASE DispatchError
  <2>1. UNCHANGED <<order, cursor, passed, active>> BY <1>2 DEF DispatchError, history
  <2> QED BY <1>k, <2>1
<1>3. CASE ReapOldest \/ ReapDone
  <2>1. UNCHANGED <<order, cursor, passed>> BY <1>3 DEF ReapOldest, ReapDone, history
  <2>2. PICK i \in DOMAIN active : active' = RemoveAt(active, i) BY <1>3, ReapIs
  <2>3. ToSet(active') \subseteq ToSet(active) BY <1>s, <2>2, RemoveAtOf
  <2> QED BY <1>k, <2>1, <2>3
<1>4. CASE PersistFails \/ PublishFails
  <2>1. UNCHANGED <<order, cursor, passed, active>>
    BY <1>4, FailsSoundly DEF Blame, Swallow, Unwind, queues
  <2> QED BY <1>k, <2>1
<1>5. CASE Enqueue
  <2>1. Key(Head(todo)) \in Repo
    BY <1>5, TailOf, SchedulerAssumption DEF Enqueue, Key, IInv, TypeInv, SequencesOK
  <2>2. UNCHANGED <<cursor, passed, active>> BY <1>5 DEF Enqueue, history
  <2>3. /\ IsInjective(order')
        /\ \A i \in DOMAIN order : i \in DOMAIN order' /\ order'[i] = order[i]
    <3>1. CASE order' = order BY <1>q, <3>1 DEF InTurn
    <3>2. CASE Key(Head(todo)) \notin ToSet(order) /\ order' = Append(order, Key(Head(todo)))
      BY <1>q, <1>s, <2>1, <3>2, AppendOf DEF InTurn
    <3> QED BY <1>5, <3>1, <3>2 DEF Enqueue
  <2>4. InTurn' BY <1>q, <2>2, <2>3 DEF InTurn
  <2> QED BY <2>2, <2>4
<1>6. CASE Return \/ Unwound
  <2>1. order' = <<>> /\ passed' = NoTurns /\ UNCHANGED active
    BY <1>6 DEF Return, Unwound, Leave
  <2>2. InTurn' BY <2>1, EmptyIs DEF InTurn, NoTurns
  <2> QED BY <2>1, <2>2
<1>7. CASE Dispatch
  <2> DEFINE k == order[Turn]
             n == Len(order)
  <2>1. /\ Turn \in DOMAIN order /\ k \in RunnableKeys
        /\ \A j \in DOMAIN order : order[j] \in RunnableKeys => j = Turn \/ After(cursor, j, Turn)
    BY <1>7, DispatchIs
  <2>2. /\ UNCHANGED order /\ cursor' = (Turn % n) + 1
        /\ passed' = [l \in Repo |-> IF l \in RunnableKeys \ {k} THEN passed[l] \cup {k} ELSE {}]
    BY <1>7 DEF Dispatch, CountTurn
  <2>3. PICK i \in DOMAIN pending : active' = Append(active, pending[i]) /\ Key(pending[i]) = k
                                    /\ pending[i] \in Tx
    BY <1>7, DispatchIs
  <2>4. ToSet(active') \ ToSet(active) \subseteq {pending[i]} BY <1>s, <2>3, AppendOf
  <2>5. cursor \in 1 .. n /\ n \in Nat /\ Turn \in 1 .. n BY <1>s, <1>n, <2>1
  <2>6. ASSUME NEW l \in RunnableKeys, l # k PROVE \E j \in 1 .. n : order[j] = l /\ After(cursor, j, Turn)
    <3>1. l \in ToSet(order) BY <1>q, <2>6 DEF RunnableKeys, Runnable, Firsts, Queues
    <3>2. PICK j \in 1 .. n : order[j] = l BY <1>n, <3>1 DEF ToSet
    <3>3. j = Turn \/ After(cursor, j, Turn) BY <1>n, <2>1, <3>2
    <3> QED BY <2>6, <3>2, <3>3
  <2>7. RunnableKeys \subseteq Repo
    <3>1. \A m \in DOMAIN pending : pending[m] \in Tx BY <1>s, ElementOfSeq, LenProperties
    <3> QED BY <3>1, SchedulerAssumption DEF RunnableKeys, Runnable, Firsts, Key
  <2> HIDE DEF k, n
  <2>8. ASSUME NEW l \in Repo, NEW m \in passed'[l]
        PROVE  \E a, b \in DOMAIN order : order[a] = m /\ order[b] = l /\ After(cursor', a, b)
    <3>1. l \in RunnableKeys /\ l # k /\ (m \in passed[l] \/ m = k) BY <2>2, <2>8
    <3>2. PICK j \in 1 .. n : order[j] = l /\ After(cursor, j, Turn) BY <2>6, <3>1
    <3>3. CASE m = k
      <4>1. order[Turn] = k BY DEF k
      <4>2. j # Turn BY <3>1, <3>2, <4>1
      <4>3. After(cursor', Turn, j) BY <2>2, <2>5, <4>2, Rotated
      <4> QED BY <1>n, <2>5, <3>2, <3>3, <4>1, <4>3 DEF n
    <3>4. CASE m \in passed[l]
      <4>1. PICK a, b \in DOMAIN order : order[a] = m /\ order[b] = l /\ After(cursor, a, b)
        BY <1>q, <3>4 DEF InTurn
      <4>2. b = j /\ a \in 1 .. n BY <1>q, <1>n, <3>2, <4>1 DEF InTurn, IsInjective, n
      <4>3. After(cursor', a, j) BY <2>2, <2>5, <3>2, <4>1, <4>2, Rotated
      <4> QED BY <4>1, <4>2, <4>3
    <3> QED BY <3>1, <3>3, <3>4
  <2>9. InTurn' BY <1>q, <2>2, <2>8 DEF InTurn
  <2>10. ASSUME NEW l \in RunnableKeys, l # k PROVE k \notin passed[l]
    <3>1. PICK j \in 1 .. n : order[j] = l /\ After(cursor, j, Turn) BY <2>6, <2>10
    <3>2. l \in Repo BY <2>7
    <3>3. SUFFICES ASSUME k \in passed[l] PROVE FALSE OBVIOUS
    <3>4. PICK a, b \in DOMAIN order : order[a] = k /\ order[b] = l /\ After(cursor, a, b)
      BY <1>q, <3>2, <3>3 DEF InTurn
    <3>5. order[Turn] = k BY DEF k
    <3>6. a = Turn /\ b = j BY <1>q, <1>n, <2>1, <3>1, <3>4, <3>5 DEF InTurn, IsInjective, n
    <3> QED BY <2>5, <3>1, <3>4, <3>6, Rotated
  <2> QED BY <2>3, <2>4, <2>9, <2>10
<1> QED BY <1>1, <1>2, <1>3, <1>4, <1>5, <1>6, <1>7 DEF Next, Owner

-----------------------------------------------------------------------------
(***************************************************************************)
(* What the invariant says of the properties.                              *)
(***************************************************************************)
LEMMA OneAtMost ==
    ASSUME NEW S, \A x, y \in S : x = y
    PROVE  Cardinality(S) <= 1
<1>1. CASE S = {} BY <1>1, FS_EmptySet
<1>2. CASE S # {}
  <2>1. PICK x : S = {x} BY <1>2
  <2> QED BY <2>1, FS_Singleton
<1> QED BY <1>1, <1>2

LEMMA InvOneMutator == IInv => OneMutatorPerRepository
<1> SUFFICES ASSUME IInv, NEW k \in Repo PROVE Cardinality(Hands(k)) <= 1
  BY DEF OneMutatorPerRepository
<1>1. HandedOver /\ Frame /\ active \in Seq(Tx) /\ jobs \in Seq(Tx)
  BY DEF IInv, TypeInv, SequencesOK
<1>2. ASSUME NEW x \in Hands(k), NEW y \in Hands(k) PROVE x = y
  <2>1. CASE at = "materialize"
    <3>1. ToSet(active) = {} BY <1>1, <2>1, EmptyIs DEF Frame
    <3>2. running = {} /\ DOMAIN jobs = {} BY <1>1, <3>1 DEF HandedOver, ToSet
    <3> QED BY <3>2 DEF Hands
  <2>2. CASE at # "materialize"
    <3> DEFINE Job(z, i) == i \in DOMAIN jobs /\ z = <<"job", i>> /\ Key(jobs[i]) = k
               Run(z, t) == t \in running /\ z = <<"worker", t>> /\ Key(t) = k
    <3>1. \A z \in Hands(k) : (\E i : Job(z, i)) \/ (\E t : Run(z, t)) BY <2>2 DEF Hands
    <3>2. \A t, u \in ToSet(active) : Key(t) = Key(u) => t = u BY <1>1 DEF HandedOver, ToSet
    <3>3. \A i \in DOMAIN jobs : jobs[i] \in ToSet(jobs) BY DEF ToSet
    <3>4. \A i, j : Job(x, i) /\ Job(y, j) => x = y
      BY <1>1, <3>2, <3>3 DEF HandedOver, IsInjective
    <3>5. \A i, t : ~(Job(x, i) /\ Run(y, t)) /\ ~(Job(y, i) /\ Run(x, t))
      BY <1>1, <3>2, <3>3 DEF HandedOver
    <3>6. \A t, u : Run(x, t) /\ Run(y, u) => x = y BY <1>1, <3>2 DEF HandedOver
    <3> HIDE DEF Job, Run
    <3> QED BY <3>1, <3>4, <3>5, <3>6
  <2> QED BY <2>1, <2>2
<1> QED BY <1>2, OneAtMost

LEMMA InvTakenUpOnce == IInv => TakenUpOnce
<1> SUFFICES ASSUME IInv PROVE TakenUpOnce OBVIOUS
<1>1. HandedOver /\ Frame /\ Queues /\ pending \in Seq(Tx) /\ active \in Seq(Tx)
  BY DEF IInv, TypeInv, SequencesOK
<1>2. IsInjective(pending \o active)
  <2> DEFINE c == pending \o active
             p == Len(pending)
             q == Len(active)
  <2>1. /\ p \in Nat /\ q \in Nat /\ DOMAIN pending = 1 .. p /\ DOMAIN active = 1 .. q
        /\ DOMAIN c = 1 .. p + q
        /\ \A i \in 1 .. p + q : c[i] = IF i <= p THEN pending[i] ELSE active[i - p]
    BY <1>1, ConcatProperties, LenProperties
  <2>2. IsInjective(active) /\ IsInjective(pending) BY <1>1 DEF HandedOver, Queues, IsInjective
  <2>3. \A i \in DOMAIN pending, j \in DOMAIN active : pending[i] # active[j]
    BY <1>1 DEF Queues, ToSet
  <2> HIDE DEF c, p, q
  <2>4. ASSUME NEW i \in 1 .. p + q, NEW j \in 1 .. p + q, c[i] = c[j] PROVE i = j
    <3>1. CASE i <= p /\ j <= p BY <2>1, <2>2, <2>4, <3>1 DEF IsInjective
    <3>2. CASE i > p /\ j > p
      <4>1. i - p \in 1 .. q /\ j - p \in 1 .. q /\ active[i - p] = active[j - p]
        BY <2>1, <2>4, <3>2
      <4>2. i - p = j - p BY <2>1, <2>2, <4>1 DEF IsInjective
      <4> QED BY <2>1, <4>2
    <3>3. CASE i <= p /\ j > p BY <2>1, <2>3, <2>4, <3>3
    <3>4. CASE i > p /\ j <= p BY <2>1, <2>3, <2>4, <3>4
    <3> QED BY <2>1, <3>1, <3>2, <3>3, <3>4
  <2>5. IsInjective(c) BY <2>1, <2>4 DEF IsInjective
  <2> QED BY <2>5 DEF c
<1>3. \A i \in DOMAIN todo : todo[i] \in Owned => i = 1 /\ AtHand BY <1>1 DEF Queues
<1> QED BY <1>2, <1>3 DEF TakenUpOnce, AtHand

LEMMA InvNoneLeft == IInv => NoneLeftRunning
<1> SUFFICES ASSUME IInv, at \in {"idle", "stopped"}
             PROVE  pending = <<>> /\ active = <<>> /\ jobs = <<>> /\ running = {} /\ done = {}
  BY DEF NoneLeftRunning
<1>1. pending = <<>> /\ active = <<>> BY DEF IInv, Frame
<1>2. ToSet(jobs) = {} /\ running = {} /\ done = {} BY <1>1, EmptyIs DEF IInv, HandedOver
<1>3. jobs = <<>> BY <1>2, TailOf DEF IInv, TypeInv, SequencesOK, ToSet
<1> QED BY <1>1, <1>2, <1>3

LEMMA TakesUnanswered ==
    ASSUME IInv, Unanswered, [Next]_vars
    PROVE  \A t \in running' \ running : t \in durable => t \in misblamed
<1>1. CASE Take
  <2>1. Head(jobs) \in ToSet(jobs) BY <1>1, TailOf DEF Take, ToSet, IInv, TypeInv, SequencesOK
  <2>2. Head(jobs) \in Owned BY <2>1 DEF IInv, HandedOver, Owned
  <2>3. running' = running \cup {Head(jobs)} BY <1>1 DEF Take
  <2> QED BY <2>2, <2>3 DEF Unanswered
<1>2. CASE ~Take
  <2>1. running' \subseteq running
    <3>1. CASE PersistFails \/ PublishFails BY <3>1, FailsSoundly DEF threads
    <3>2. CASE \/ \E t \in Tx : Send(t) \/ Complete(t)
               \/ \E k \in Repo : Toggle(k)
               \/ Stop \/ Quit \/ Poll \/ LivePoll \/ Tick
               \/ Republish \/ WaitGrace \/ RepublishFails \/ Recovered \/ Ingested \/ Admit
               \/ SkipDownload \/ Reject \/ ReachBarrier \/ Materialize \/ Dispatched
               \/ Scanned \/ Persist \/ Publish \/ UNCHANGED vars
      BY <3>2 DEF Send, Complete, Toggle, Stop, Quit, Poll, LivePoll, Tick, Republish,
                  WaitGrace, RepublishFails, Recovered, Ingested, Admit, SkipDownload, Reject,
                  ReachBarrier, Materialize, Dispatched, Scanned, Persist, Publish, vars, threads
    <3>3. CASE Enqueue \/ Return \/ Unwound BY <3>3 DEF Enqueue, Return, Unwound, threads
    <3>4. CASE DispatchError BY <3>4 DEF DispatchError, threads
    <3>5. CASE Dispatch BY <3>5 DEF Dispatch
    <3>6. CASE ReapOldest \/ ReapDone BY <3>6 DEF ReapOldest, ReapDone
    <3> QED BY <1>2, <3>1, <3>2, <3>3, <3>4, <3>5, <3>6 DEF Next, Owner
  <2> QED BY <2>1
<1> QED BY <1>1, <1>2

-----------------------------------------------------------------------------
(***************************************************************************)
(* Theorems.                                                               *)
(***************************************************************************)
LEMMA Invariance == Spec => []IInv /\ []Unanswered /\ []InTurn
<1>1. Init => IInv /\ Unanswered /\ InTurn BY InitHolds
<1>2. IInv /\ Unanswered /\ InTurn /\ [Next]_vars => (IInv /\ Unanswered /\ InTurn)'
  BY TypeStep, HandedStep, FrameStep, QueuesStep, UnansweredStep, InTurnStep DEF IInv
<1> QED BY <1>1, <1>2, PTL DEF Spec

(* The watcher never owns more transactions than max_pending_jobs, nor     *)
(* hands over more than max_workers, and every register keeps its range.   *)
THEOREM WatcherTyped == Spec => []TypeOK
<1>1. IInv => TypeOK BY DEF IInv, TypeInv
<1> QED BY <1>1, Invariance, PTL

(* One worker, one queued job or the materialisation behind the barrier:   *)
(* a repository has one mutation under way at most, for any number of      *)
(* workers and repositories (scheduler.submit, drain_all).                 *)
THEOREM OneMutator == Spec => []OneMutatorPerRepository
BY InvOneMutator, Invariance, PTL

(* A repoll while workers run, a blocking drain and a swallowed error      *)
(* never make ingest_requests take a request up that is already owned.     *)
THEOREM NoRequestTwice == Spec => []TakenUpOnce
BY InvTakenUpOnce, Invariance, PTL

(* A poll returns, or raises through the reaper, only when every submitted *)
(* transaction has been waited for (finally of _process_pending_concurrent). *)
THEOREM FrameLeavesNothing == Spec => []NoneLeftRunning
BY InvNoneLeft, Invariance, PTL

(* fair_order and fair_cursor: behind a repository that waits, no other    *)
(* one is dispatched twice, whatever is queued or removed in between.      *)
THEOREM TurnsAreFair == Spec => ServedInTurn
<1>1. IInv /\ InTurn /\ [Next]_vars =>
        (\A t \in ToSet(active') \ ToSet(active), l \in RunnableKeys :
            l # Key(t) => Key(t) \notin passed[l])
  BY InTurnStep
<1> QED BY <1>1, Invariance, PTL DEF Spec, ServedInTurn

(* A worker that starts a transaction whose result is already durable      *)
(* starts one that was answered for the exception of another transaction:  *)
(* nothing else in the watcher runs a request a second time.               *)
THEOREM OnlyMisblamedRerun == Spec => RerunOnlyMisblamed
<1>1. IInv /\ Unanswered /\ [Next]_vars =>
        (\A t \in running' \ running : t \in durable => t \in misblamed)
  BY TakesUnanswered
<1> QED BY <1>1, Invariance, PTL DEF Spec, RerunOnlyMisblamed
=============================================================================
