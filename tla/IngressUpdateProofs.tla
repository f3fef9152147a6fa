------------------------- MODULE IngressUpdateProofs ------------------------
(***************************************************************************)
(* What ingressMu buys, and what an update makes of the rules, for every   *)
(* number of workers and clients, every document and every bound on the    *)
(* retries.                                                                *)
(*                                                                         *)
(* The second part is about lists of any length.  It rests on an induction *)
(* that is stated with a set where the library's theorems take a           *)
(* predicate, and on two equations, KeptEmpty and KeptAppend, that say     *)
(* what the loop of Kept does with one rule more.                          *)
(***************************************************************************)
EXTENDS IngressUpdate, TLAPS, WellFoundedInduction

\* The type invariant of UpdateIngress's state, whatever the clients.
THEOREM TypeCorrect == Spec => []TypeOK
<1>1. Init => TypeOK
  BY ClientsAssumption DEF Init, TypeOK
<1>2. TypeOK /\ [Next]_vars => TypeOK'
  <2> SUFFICES ASSUME TypeOK, [Next]_vars
               PROVE  TypeOK'
    OBVIOUS
  <2> USE ClientsAssumption DEF TypeOK
  <2>1. ASSUME NEW w \in Workers, NEW o \in Op, Call(w, o)
        PROVE  TypeOK'
    BY <2>1 DEF Call
  <2>2. ASSUME NEW w \in Workers, Lock(w)
        PROVE  TypeOK'
    BY <2>2 DEF Lock
  <2>3. ASSUME NEW w \in Workers, Read(w)
        PROVE  TypeOK'
    BY <2>3 DEF Read
  <2>4. ASSUME NEW w \in Workers, Write(w)
        PROVE  TypeOK'
    BY <2>4 DEF Write, Return
  <2>5. ASSUME NEW w \in Workers, Retry(w)
        PROVE  TypeOK'
    <3>1. attempt[w] + 1 \in 0..MaxRetries
      BY <2>5 DEF Retry
    <3>2. QED
      BY <2>5, <3>1 DEF Retry
  <2>6. ASSUME NEW w \in Workers, Fail(w)
        PROVE  TypeOK'
    BY <2>6 DEF Fail, Return
  <2>7. CASE UNCHANGED vars
    BY <2>7 DEF vars
  <2>8. QED
    BY <2>1, <2>2, <2>3, <2>4, <2>5, <2>6, <2>7 DEF Next
<1>3. QED
  BY <1>1, <1>2, PTL DEF Spec

\* A worker is inside the read-modify-write exactly while it holds the lock
\* of its client: no path out of UpdateIngress keeps it.
THEOREM LockDiscipline == Spec => []LockHeld
<1> USE ClientsAssumption DEF LockHeld, InCycle
<1>1. Init => LockHeld
  BY DEF Init
<1>2. TypeOK /\ LockHeld /\ [Next]_vars => LockHeld'
  <2> SUFFICES ASSUME TypeOK, LockHeld, [Next]_vars
               PROVE  LockHeld'
    OBVIOUS
  <2> USE DEF TypeOK
  <2>1. ASSUME NEW w \in Workers, NEW o \in Op, Call(w, o)
        PROVE  LockHeld'
    BY <2>1 DEF Call
  <2>2. ASSUME NEW w \in Workers, Lock(w)
        PROVE  LockHeld'
    BY <2>2 DEF Lock
  <2>3. ASSUME NEW w \in Workers, Read(w)
        PROVE  LockHeld'
    BY <2>3 DEF Read
  <2>4. ASSUME NEW w \in Workers, Write(w)
        PROVE  LockHeld'
    BY <2>4 DEF Write, Return
  <2>5. ASSUME NEW w \in Workers, Retry(w)
        PROVE  LockHeld'
    BY <2>5 DEF Retry
  <2>6. ASSUME NEW w \in Workers, Fail(w)
        PROVE  LockHeld'
    BY <2>6 DEF Fail, Return
  <2>7. CASE UNCHANGED vars
    BY <2>7 DEF vars
  <2>8. QED
    BY <2>1, <2>2, <2>3, <2>4, <2>5, <2>6, <2>7 DEF Next
<1>3. QED
  BY <1>1, <1>2, TypeCorrect, PTL DEF Spec

-----------------------------------------------------------------------------
\* With one client there is one lock, so two workers are never in the cycle.
LEMMA MutualExclusion ==
  ASSUME SingleClient, LockHeld,
         NEW v \in Workers, NEW w \in Workers, InCycle(v), InCycle(w)
  PROVE  v = w
BY DEF SingleClient, LockHeld

\* A write is one whole update of the document, or repeats one.
LEMMA PutIsUpdate ==
  ASSUME TypeOK, CopyIsFresh,
         NEW w \in Workers, pc[w] = "writing", Put(w)
  PROVE  \/ doc' = doc
         \/ op[w] \in Op /\ doc' = UpdateOf(op[w], doc)
<1>1. op[w] \in Op
  BY DEF TypeOK
<1>2. CASE copy[w] = StripCatchAll(Decode(doc))
  BY <1>1, <1>2 DEF Put, UpdateOf
<1>3. CASE doc = NormalizeIngress(Mutate(op[w], copy[w]))
  BY <1>3 DEF Put
<1>4. QED
  BY <1>2, <1>3 DEF CopyIsFresh

\* TypeOK leaves the rules themselves open; this is all a step needs to know
\* of the copies.
CopyPerWorker == copy = [w \in Workers |-> copy[w]]

\* The copies are a function on the workers.
LEMMA CopyShape == Spec => []CopyPerWorker
<1>1. Init => CopyPerWorker
  BY DEF Init, CopyPerWorker
<1>2. CopyPerWorker /\ [Next]_vars => CopyPerWorker'
  BY DEF CopyPerWorker, Next, vars, Call, Lock, Read, Write, Retry, Fail, Return
<1>3. QED
  BY <1>1, <1>2, PTL DEF Spec

\* When all workers share one client, no worker ever writes back a copy that
\* has gone stale since it was read.
THEOREM FreshCopies == ASSUME SingleClient PROVE Spec => []CopyIsFresh
<1>1. Init => CopyIsFresh
  BY DEF Init, CopyIsFresh
<1>2. TypeOK /\ LockHeld /\ CopyPerWorker /\ CopyIsFresh /\ [Next]_vars
        => CopyIsFresh'
  <2> SUFFICES ASSUME TypeOK, LockHeld, CopyPerWorker, CopyIsFresh, [Next]_vars,
                      NEW v \in Workers, pc'[v] = "writing"
               PROVE  \/ copy'[v] = StripCatchAll(Decode(doc'))
                      \/ doc' = NormalizeIngress(Mutate(op'[v], copy'[v]))
    BY DEF CopyIsFresh
  <2> DEFINE Same == /\ pc[v] = "writing"
                     /\ op'[v] = op[v]
                     /\ copy'[v] = copy[v]
  <2>1. ASSUME Same, doc' = doc
        PROVE  \/ copy'[v] = StripCatchAll(Decode(doc'))
               \/ doc' = NormalizeIngress(Mutate(op'[v], copy'[v]))
    BY <2>1 DEF CopyIsFresh
  <2>2. ASSUME NEW w \in Workers, NEW o \in Op, Call(w, o)
        PROVE  Same /\ doc' = doc
    BY <2>2 DEF Call, TypeOK
  <2>3. ASSUME NEW w \in Workers, Lock(w)
        PROVE  Same /\ doc' = doc
    BY <2>3 DEF Lock, TypeOK
  <2>4. ASSUME NEW w \in Workers, Read(w), w # v
        PROVE  Same /\ doc' = doc
    BY <2>4 DEF Read, TypeOK, CopyPerWorker
  <2>5. CASE Read(v)
    BY <2>5 DEF Read, CopyPerWorker
  <2>6. ASSUME NEW w \in Workers, Return(w), pc[w] = "writing" \/ pc[w] = "reading"
        PROVE  FALSE
    \* v would be in the cycle beside w.
    <3>1. w # v /\ pc[v] = "writing"
      BY <2>6 DEF Return, TypeOK
    <3>2. QED
      BY <3>1, <2>6, MutualExclusion DEF InCycle
  <2>7. ASSUME NEW w \in Workers, Retry(w)
        PROVE  /\ Same
               /\ \/ doc' = doc
                  \/ doc' = NormalizeIngress(Mutate(op[v], copy[v]))
    <3>1. Same /\ InCycle(w) /\ InCycle(v)
      BY <2>7 DEF Retry, InCycle
    <3>2. w = v
      BY <3>1, MutualExclusion
    <3>3. QED
      BY <2>7, <3>1, <3>2 DEF Retry, Put
  <2>8. CASE UNCHANGED vars
    BY <2>8, <2>1 DEF vars
  <2>9. QED
    BY <2>1, <2>2, <2>3, <2>4, <2>5, <2>6, <2>7, <2>8 DEF Next, Write, Fail
<1>3. QED
  BY <1>1, <1>2, TypeCorrect, LockDiscipline, CopyShape, PTL DEF Spec

\* When all workers share one client, the document only ever changes by one
\* whole update at a time: the read-modify-write cycles implement atomic
\* updates, retries of lost requests included.
THEOREM UpdatesAreAtomic == ASSUME SingleClient PROVE Spec => AtomicUpdates
<1>1. TypeOK /\ CopyIsFresh /\ [Next]_vars
        => [\E o \in Op : doc' = UpdateOf(o, doc)]_doc
  <2> SUFFICES ASSUME TypeOK, CopyIsFresh, [Next]_vars, doc' # doc
               PROVE  \E o \in Op : doc' = UpdateOf(o, doc)
    OBVIOUS
  <2>1. PICK w \in Workers : pc[w] = "writing" /\ Put(w)
    BY DEF Next, vars, Call, Lock, Read, Write, Retry, Fail
  <2>2. QED
    BY <2>1, PutIsUpdate
<1>2. QED
  BY <1>1, TypeCorrect, FreshCopies, PTL DEF Spec, AtomicUpdates

-----------------------------------------------------------------------------
(* Induction over the rules of a document.  The library's induction        *)
(* theorems take a predicate; these take the set of what satisfies it.     *)

\* A set of naturals that is not empty has a least element.
LEMMA LeastNatural ==
  ASSUME NEW T, T \subseteq Nat, T # {}
  PROVE  \E m \in T : \A k \in T : m <= k
<1>1. PICK m \in T : \A k \in T : ~ (<<k, m>> \in OpToRel(<, Nat))
  BY NatLessThanWellFounded, WFMin, Zenon
<1>2. \A k \in T : ~ (k < m)
  BY <1>1 DEF OpToRel
<1>3. QED
  BY <1>2

\* What holds of the empty sequence, and of every sequence that is one longer
\* than one it holds of, holds of all.
LEMMA AppendInduction ==
  ASSUME NEW R, NEW T,
         <<>> \in T,
         \A s \in Seq(R), r \in R : s \in T => Append(s, r) \in T
  PROVE  Seq(R) \subseteq T
<1> DEFINE Bad == {n \in Nat : \E s \in Seq(R) : s \notin T /\ Len(s) = n}
<1> SUFFICES ASSUME Bad # {}
             PROVE  FALSE
  <2>1. \A s \in Seq(R) : Len(s) \in Nat
    OBVIOUS
  <2>2. QED
    BY <2>1
<1>1. PICK n \in Bad : \A k \in Bad : n <= k
  <2>1. Bad \subseteq Nat
    OBVIOUS
  <2> HIDE DEF Bad
  <2>2. QED
    BY <2>1, LeastNatural
<1>2. PICK s \in Seq(R) : s \notin T /\ Len(s) = n
  BY DEF Bad
<1>3. n \in Nat /\ n # 0
  <2>1. n = 0 => s = <<>>
    BY <1>2
  <2>2. QED
    BY <1>2, <2>1
<1> DEFINE front == SubSeq(s, 1, n - 1)
<1>4. front \in Seq(R) /\ s[n] \in R /\ Len(front) = n - 1
  BY <1>2, <1>3
<1>5. s = Append(front, s[n])
  BY <1>2, <1>3, <1>4
<1>6. front \in T
  <2>1. n - 1 \in Nat /\ n - 1 \notin Bad
    <3> HIDE DEF Bad
    <3>1. QED
      BY <1>1, <1>3
  <2>2. QED
    BY <2>1, <1>4, Zenon
<1>7. QED
  BY <1>2, <1>4, <1>5, <1>6

-----------------------------------------------------------------------------
(* The loop of Kept, rule by rule.                                         *)

\* g lists what the loop over s has kept after each of its first n rounds.
Run(g, s, S, n) ==
  g = [i \in 0..n |->
        IF i = 0 THEN <<>>
        ELSE IF s[i] \in S THEN Append(g[i-1], s[i]) ELSE g[i-1]]

\* The loop goes on for as long as there are rounds.
LEMMA LoopRuns ==
  ASSUME NEW s, NEW S, NEW n \in Nat
  PROVE  \E g : Run(g, s, S, n)
<1> DEFINE Bad == {m \in 0..n : ~ \E g : Run(g, s, S, m)}
<1> SUFFICES ASSUME Bad # {}
             PROVE  FALSE
  OBVIOUS
<1>1. PICK m \in Bad : \A k \in Bad : m <= k
  <2>1. Bad \subseteq Nat
    OBVIOUS
  <2> HIDE DEF Bad
  <2>2. QED
    BY <2>1, LeastNatural
<1>2. m # 0
  <2>1. Run([i \in 0..0 |-> <<>>], s, S, 0)
    BY DEF Run
  <2>2. QED
    BY <2>1
<1>3. PICK g : Run(g, s, S, m - 1)
  BY <1>1, <1>2
<1> DEFINE next == IF s[m] \in S THEN Append(g[m-1], s[m]) ELSE g[m-1]
<1> DEFINE h == [i \in 0..m |-> IF i = m THEN next ELSE g[i]]
<1>4. Run(h, s, S, m)
  <2>1. \A i \in 0..(m-1) : g[i] = IF i = 0 THEN <<>>
                                   ELSE IF s[i] \in S THEN Append(g[i-1], s[i])
                                   ELSE g[i-1]
    BY <1>3 DEF Run
  <2>2. \A i \in 0..m : h[i] = IF i = 0 THEN <<>>
                               ELSE IF s[i] \in S THEN Append(h[i-1], s[i])
                               ELSE h[i-1]
    <3>1. ASSUME NEW i \in 0..m, i # m
          PROVE  i \in 0..(m-1) /\ h[i] = g[i] /\ (i # 0 => h[i-1] = g[i-1])
      BY <3>1
    <3>2. h[m] = next /\ h[m-1] = g[m-1]
      BY <1>2
    <3> HIDE DEF h
    <3>3. QED
      BY <2>1, <3>1, <3>2, <1>2
  <2>3. h = [i \in 0..m |-> h[i]]
    OBVIOUS
  <2> HIDE DEF h
  <2>4. QED
    BY <2>2, <2>3 DEF Run
<1>5. QED
  BY <1>4

\* Kept is what the loop ends with.
LEMMA KeptRuns ==
  ASSUME NEW R, NEW s \in Seq(R), NEW S
  PROVE  \E g : Run(g, s, S, Len(s)) /\ Kept(s, S) = g[Len(s)]
<1>1. \E g : Run(g, s, S, Len(s))
  <2>1. Len(s) \in Nat
    OBVIOUS
  <2>2. QED
    BY <2>1, LoopRuns
<1>2. Kept(s, S) = (CHOOSE g : Run(g, s, S, Len(s)))[Len(s)]
  BY Zenon DEF Kept, Run
<1>3. QED
  BY <1>1, <1>2, Zenon

\* Two loops that go through the same rules keep the same.
LEMMA SameRounds ==
  ASSUME NEW n \in Nat, NEW g, NEW h, NEW s, NEW t, NEW S, NEW m \in Nat, NEW k \in Nat,
         Run(g, s, S, m), Run(h, t, S, k), n <= m, n <= k,
         \A i \in 1..n : s[i] = t[i]
  PROVE  g[n] = h[n]
<1> DEFINE Bad == {i \in 0..n : g[i] # h[i]}
<1> SUFFICES ASSUME Bad # {}
             PROVE  FALSE
  OBVIOUS
<1>1. PICK i \in Bad : \A j \in Bad : i <= j
  <2>1. Bad \subseteq Nat
    OBVIOUS
  <2> HIDE DEF Bad
  <2>2. QED
    BY <2>1, LeastNatural
<1>2. /\ g[i] = IF i = 0 THEN <<>>
                ELSE IF s[i] \in S THEN Append(g[i-1], s[i]) ELSE g[i-1]
      /\ h[i] = IF i = 0 THEN <<>>
                ELSE IF t[i] \in S THEN Append(h[i-1], t[i]) ELSE h[i-1]
  <2>1. i \in 0..m /\ i \in 0..k
    OBVIOUS
  <2>2. QED
    BY <2>1, Zenon DEF Run
<1>3. i # 0
  BY <1>2
<1>4. i - 1 \in 0..n /\ i - 1 \notin Bad /\ s[i] = t[i]
  BY <1>1, <1>3
<1>5. QED
  BY <1>2, <1>4

\* Of no rules, none is kept.
LEMMA KeptEmpty == ASSUME NEW S PROVE Kept(<<>>, S) = <<>>
<1>1. PICK g : Run(g, <<>>, S, 0) /\ Kept(<<>>, S) = g[0]
  <2>1. <<>> \in Seq({}) /\ Len(<<>>) = 0
    OBVIOUS
  <2>2. QED
    BY <2>1, KeptRuns
<1>2. QED
  BY <1>1 DEF Run

\* One rule more is one round more.
LEMMA KeptAppend ==
  ASSUME NEW R, NEW s \in Seq(R), NEW r \in R, NEW S
  PROVE  Kept(Append(s, r), S) =
           IF r \in S THEN Append(Kept(s, S), r) ELSE Kept(s, S)
<1> DEFINE t == Append(s, r)
           n == Len(s)
<1>1. t \in Seq(R) /\ Len(t) = n + 1 /\ n \in Nat /\ t[n+1] = r
      /\ \A i \in 1..n : s[i] = t[i]
  OBVIOUS
<1>2. PICK g : Run(g, s, S, n) /\ Kept(s, S) = g[n]
  BY KeptRuns
<1> HIDE DEF t
<1>3. PICK h : Run(h, t, S, n + 1) /\ Kept(t, S) = h[n+1]
  BY <1>1, KeptRuns
<1> HIDE DEF n
<1>4. g[n] = h[n]
  BY <1>1, <1>2, <1>3, SameRounds
<1>5. h[n+1] = IF t[n+1] \in S THEN Append(h[n], t[n+1]) ELSE h[n]
  <2>1. n + 1 \in 0..(n + 1) /\ n + 1 # 0 /\ (n + 1) - 1 = n
    BY <1>1
  <2>2. QED
    BY <1>3, <2>1 DEF Run
<1>6. QED
  BY <1>1, <1>2, <1>3, <1>4, <1>5 DEF t

-----------------------------------------------------------------------------
(* What Kept makes of a document.                                          *)

\* Every rule of t is one of s.
Among(t, s) == \A j \in DOMAIN t : \E i \in DOMAIN s : s[i] = t[j]

\* What is kept are rules of the document, and in the set.
LEMMA KeptFrom ==
  ASSUME NEW R, NEW S, NEW s \in Seq(R)
  PROVE  Kept(s, S) \in Seq(R \cap S) /\ Among(Kept(s, S), s)
<1> DEFINE Good(q) == Kept(q, S) \in Seq(R \cap S) /\ Among(Kept(q, S), q)
           T == {q \in Seq(R) : Good(q)}
<1>1. <<>> \in T
  <2>1. <<>> \in Seq(R) /\ <<>> \in Seq(R \cap S) /\ DOMAIN <<>> = {}
    OBVIOUS
  <2>2. QED
    BY <2>1, KeptEmpty, Zenon DEF Among
<1>2. ASSUME NEW q \in Seq(R), NEW r \in R, Good(q)
      PROVE  Good(Append(q, r))
  <2> DEFINE k == Kept(q, S)
             n == Kept(Append(q, r), S)
  <2>1. k \in Seq(R \cap S) /\ Among(k, q)
    BY <1>2
  <2>2. n = IF r \in S THEN Append(k, r) ELSE k
    BY KeptAppend
  <2> HIDE DEF k, n
  <2>3. n \in Seq(R \cap S)
    BY <2>1, <2>2
  <2>4. \A i \in DOMAIN q : i \in DOMAIN Append(q, r) /\ Append(q, r)[i] = q[i]
    OBVIOUS
  <2>5. Len(q) + 1 \in DOMAIN Append(q, r) /\ Append(q, r)[Len(q) + 1] = r
    OBVIOUS
  <2>6. \A j \in DOMAIN n : n[j] = r \/ (j \in DOMAIN k /\ n[j] = k[j])
    BY <2>1, <2>2
  <2>7. Among(n, Append(q, r))
    BY <2>1, <2>4, <2>5, <2>6, Zenon DEF Among
  <2>8. QED
    BY <2>3, <2>7 DEF n
<1>3. Seq(R) \subseteq T
  <2>1. \A q \in Seq(R), r \in R : q \in T => Append(q, r) \in T
    <3> SUFFICES ASSUME NEW q \in Seq(R), NEW r \in R, q \in T
                 PROVE  Append(q, r) \in T
      OBVIOUS
    <3>1. Append(q, r) \in Seq(R) /\ Good(q)
      OBVIOUS
    <3>2. QED
      BY <3>1, <1>2
  <2> HIDE DEF T
  <2>2. QED
    BY <1>1, <2>1, AppendInduction
<1>4. QED
  BY <1>3

\* To keep twice is to keep what is in both sets.
LEMMA KeptKept ==
  ASSUME NEW R, NEW A, NEW B, NEW s \in Seq(R)
  PROVE  Kept(Kept(s, A), B) = Kept(s, A \cap B)
<1> DEFINE T == {q \in Seq(R) : Kept(Kept(q, A), B) = Kept(q, A \cap B)}
<1>1. <<>> \in T
  BY KeptEmpty
<1>2. ASSUME NEW q \in Seq(R), NEW r \in R,
             Kept(Kept(q, A), B) = Kept(q, A \cap B)
      PROVE  Kept(Kept(Append(q, r), A), B) = Kept(Append(q, r), A \cap B)
  <2>1. Kept(q, A) \in Seq(R)
    <3>1. Kept(q, A) \in Seq(R \cap A)
      BY KeptFrom
    <3>2. QED
      BY <3>1
  <2>2. /\ Kept(Append(q, r), A) =
             IF r \in A THEN Append(Kept(q, A), r) ELSE Kept(q, A)
        /\ Kept(Append(q, r), A \cap B) =
             IF r \in A \cap B THEN Append(Kept(q, A \cap B), r)
             ELSE Kept(q, A \cap B)
    BY KeptAppend
  <2>3. Kept(Append(Kept(q, A), r), B) =
          IF r \in B THEN Append(Kept(Kept(q, A), B), r) ELSE Kept(Kept(q, A), B)
    BY <2>1, KeptAppend
  <2>4. CASE r \in A
    <3>1. Kept(Kept(Append(q, r), A), B) = Kept(Append(Kept(q, A), r), B)
      BY <2>2, <2>4
    <3>2. r \in A \cap B <=> r \in B
      BY <2>4
    <3>3. QED
      BY <1>2, <2>2, <2>3, <3>1, <3>2, Zenon
  <2>5. CASE r \notin A
    <3>1. Kept(Kept(Append(q, r), A), B) = Kept(Kept(q, A), B)
      BY <2>2, <2>5
    <3>2. r \notin A \cap B
      BY <2>5
    <3>3. QED
      BY <1>2, <2>2, <3>1, <3>2, Zenon
  <2>6. QED
    BY <2>4, <2>5
<1>3. Seq(R) \subseteq T
  <2>1. \A q \in Seq(R), r \in R : q \in T => Append(q, r) \in T
    <3> SUFFICES ASSUME NEW q \in Seq(R), NEW r \in R, q \in T
                 PROVE  Append(q, r) \in T
      OBVIOUS
    <3>1. Append(q, r) \in Seq(R)
      OBVIOUS
    <3>2. QED
      BY <3>1, <1>2
  <2> HIDE DEF T
  <2>2. QED
    BY <1>1, <2>1, AppendInduction
<1>4. QED
  BY <1>3

\* Where nothing has to go, all is kept.
LEMMA KeptWhole ==
  ASSUME NEW R, NEW S, R \subseteq S, NEW s \in Seq(R)
  PROVE  Kept(s, S) = s
<1> DEFINE T == {q \in Seq(R) : Kept(q, S) = q}
<1>1. <<>> \in T
  BY KeptEmpty
<1>2. \A q \in Seq(R), r \in R : q \in T => Append(q, r) \in T
  <2> SUFFICES ASSUME NEW q \in Seq(R), NEW r \in R, q \in T
               PROVE  Append(q, r) \in T
    OBVIOUS
  <2>1. Append(q, r) \in Seq(R) /\ r \in S
    OBVIOUS
  <2>2. Kept(Append(q, r), S) = Append(q, r)
    BY <2>1, KeptAppend
  <2>3. QED
    BY <2>1, <2>2
<1>3. Seq(R) \subseteq T
  <2> HIDE DEF T
  <2>1. QED
    BY <1>1, <1>2, AppendInduction
<1>4. QED
  BY <1>3

-----------------------------------------------------------------------------
(* The rules of one hostname.                                              *)

\* Two rules that AddRoute never leaves beside each other.
Clash(r, q) == r.path = NoPath /\ q.path = NoPath /\ Fold[r.host] = Fold[q.host]

\* OneRulePerHost of any list of rules.
OneEach(rules) ==
  \A i, j \in DOMAIN rules : Clash(rules[i], rules[j]) => i = j

\* One rule more does not break it if it clashes with none.
LEMMA OneEachAppend ==
  ASSUME NEW R, NEW s \in Seq(R), NEW r \in R
  PROVE  OneEach(Append(s, r)) <=>
           OneEach(s) /\ \A i \in DOMAIN s : ~Clash(s[i], r)
<1> DEFINE t == Append(s, r)
<1>1. /\ Len(s) \in Nat /\ Len(s) + 1 \in DOMAIN t /\ t[Len(s) + 1] = r
      /\ \A i \in DOMAIN s : i \in DOMAIN t /\ t[i] = s[i] /\ i # Len(s) + 1
      /\ \A i \in DOMAIN t : i \in DOMAIN s \/ i = Len(s) + 1
  OBVIOUS
<1>2. \A i \in DOMAIN s : Clash(s[i], r) <=> Clash(r, s[i])
  BY DEF Clash
<1> HIDE DEF t
<1>3. OneEach(t) <=> OneEach(s) /\ \A i \in DOMAIN s : ~Clash(s[i], r)
  BY <1>1, <1>2, Zenon DEF OneEach
<1>4. QED
  BY <1>3 DEF t

\* Leaving rules out does not break it.
LEMMA OneEachKept ==
  ASSUME NEW R, NEW S, NEW s \in Seq(R), OneEach(s)
  PROVE  OneEach(Kept(s, S))
<1> DEFINE T == {q \in Seq(R) : OneEach(q) => OneEach(Kept(q, S))}
<1>1. <<>> \in T
  BY KeptEmpty DEF OneEach
<1>2. ASSUME NEW q \in Seq(R), NEW r \in R, q \in T, OneEach(Append(q, r))
      PROVE  OneEach(Kept(Append(q, r), S))
  <2> DEFINE k == Kept(q, S)
  <2>1. OneEach(q) /\ \A i \in DOMAIN q : ~Clash(q[i], r)
    BY <1>2, OneEachAppend
  <2>2. OneEach(k)
    BY <1>2, <2>1
  <2>3. k \in Seq(R \cap S) /\ Among(k, q)
    BY KeptFrom
  <2>4. Kept(Append(q, r), S) = IF r \in S THEN Append(k, r) ELSE k
    BY KeptAppend
  <2> HIDE DEF k
  <2>5. k \in Seq(R)
    BY <2>3
  <2>6. \A j \in DOMAIN k : ~Clash(k[j], r)
    BY <2>1, <2>3, Zenon DEF Among
  <2>7. OneEach(Append(k, r))
    BY <2>2, <2>5, <2>6, OneEachAppend
  <2>8. QED
    BY <2>2, <2>4, <2>7
<1>3. Seq(R) \subseteq T
  <2>1. \A q \in Seq(R), r \in R : q \in T => Append(q, r) \in T
    <3> SUFFICES ASSUME NEW q \in Seq(R), NEW r \in R, q \in T
                 PROVE  Append(q, r) \in T
      OBVIOUS
    <3>1. Append(q, r) \in Seq(R)
      OBVIOUS
    <3>2. QED
      BY <3>1, <1>2
  <2> HIDE DEF T
  <2>2. QED
    BY <1>1, <2>1, AppendInduction
<1>4. QED
  BY <1>3

-----------------------------------------------------------------------------
(* The document's rules.                                                   *)

\* The rules StripCatchAll keeps.
Proper == {r \in Rule : ~IsCatchAll(r)}

\* The document and the copies are lists of rules.
Lists == doc \in Seq(Rule) /\ copy \in [Workers -> Seq(Rule)]

\* Decoding keeps a list of rules one, with its hostnames and paths.
LEMMA DecodeRules ==
  ASSUME NEW d \in Seq(Rule)
  PROVE  /\ Decode(d) \in Seq(Rule)
         /\ DOMAIN Decode(d) = DOMAIN d
         /\ \A i \in DOMAIN d : Decode(d)[i].host = d[i].host
                                /\ Decode(d)[i].path = d[i].path
<1>1. \A i \in DOMAIN d : d[i] \in Rule
  OBVIOUS
<1>2. \A r \in Rule : /\ [r EXCEPT !.extra = NoExtra] \in Rule
                      /\ [r EXCEPT !.extra = NoExtra].host = r.host
                      /\ [r EXCEPT !.extra = NoExtra].path = r.path
  BY DEF Rule
<1>3. DOMAIN d = 1..Len(d) /\ Len(d) \in Nat
  OBVIOUS
<1>4. Decode(d) \in [1..Len(d) -> Rule]
  BY <1>1, <1>2, <1>3 DEF Decode
<1>5. Decode(d) \in Seq(Rule)
  BY <1>3, <1>4
<1>6. QED
  BY <1>1, <1>2, <1>5 DEF Decode

\* A filtered list of rules is one.
LEMMA KeptRules ==
  ASSUME NEW s \in Seq(Rule), NEW S
  PROVE  Kept(s, S) \in Seq(Rule)
<1>1. Kept(s, S) \in Seq(Rule \cap S)
  BY KeptFrom
<1>2. QED
  BY <1>1

\* The new rule, and the catch-all, are rules.
LEMMA MadeRules ==
  /\ CatchAll \in Rule /\ IsCatchAll(CatchAll)
  /\ \A h \in Hosts, s \in Services : NewRule(h, s) \in Proper
BY HostsAssumption DEF CatchAll, NewRule, Rule, IsCatchAll, Proper

\* So is what a mutation makes of one, and it is what the two kinds say.
LEMMA MutateRules ==
  ASSUME NEW o \in Op, NEW s \in Seq(Rule)
  PROVE  /\ o.host \in Hosts
         /\ Mutate(o, s) \in Seq(Rule)
         /\ \/ Mutate(o, s) = WithoutHost(s, o.host)
            \/ /\ o.service \in Services
               /\ Mutate(o, s) = Append(WithoutHost(s, o.host),
                                        NewRule(o.host, o.service))
<1>1. o.host \in Hosts /\ (o.kind = "add" => o.service \in Services)
  BY DEF Op
<1>2. WithoutHost(s, o.host) \in Seq(Rule)
  BY KeptRules DEF WithoutHost
<1>3. CASE o.kind = "add"
  <2>1. NewRule(o.host, o.service) \in Rule
    BY <1>1, <1>3, MadeRules DEF Proper
  <2>2. QED
    BY <1>1, <1>2, <1>3, <2>1 DEF Mutate
<1>4. CASE o.kind # "add"
  BY <1>1, <1>2, <1>4 DEF Mutate
<1>5. QED
  BY <1>3, <1>4

\* A normalised document is some rules that are not the catch-all, and it.
Ended(d) == \E b \in Seq(Proper) : d = Append(b, CatchAll)

\* What NormalizeIngress makes.
LEMMA NormalizeEnds ==
  ASSUME NEW s \in Seq(Rule)
  PROVE  NormalizeIngress(s) \in Seq(Rule) /\ Ended(NormalizeIngress(s))
<1>1. StripCatchAll(s) \in Seq(Rule \cap Proper)
  BY KeptFrom DEF StripCatchAll, Proper
<1>2. Rule \cap Proper = Proper
  BY DEF Proper
<1>3. StripCatchAll(s) \in Seq(Proper) /\ StripCatchAll(s) \in Seq(Rule)
  BY <1>1, <1>2 DEF Proper
<1>4. QED
  BY <1>3, MadeRules DEF NormalizeIngress, Ended

\* The document only changes by what a worker puts.
LEMMA OnlyPuts ==
  ASSUME TypeOK, Lists, [Next]_vars
  PROVE  \/ doc' = doc
         \/ \E w \in Workers :
              /\ op[w] \in Op /\ copy[w] \in Seq(Rule)
              /\ doc' = NormalizeIngress(Mutate(op[w], copy[w]))
<1>1. CASE doc' = doc
  BY <1>1
<1>2. CASE doc' # doc
  <2>1. PICK w \in Workers : pc[w] = "writing" /\ Put(w)
    BY <1>2 DEF Next, vars, Call, Lock, Read, Write, Retry, Fail
  <2>2. QED
    BY <2>1 DEF Put, TypeOK, Lists
<1>3. QED
  BY <1>1, <1>2

\* A copy is what it was, nothing, or the document as it is read.
LEMMA OnlyReads ==
  ASSUME Lists, [Next]_vars
  PROVE  \/ copy' = copy
         \/ \E w \in Workers :
              copy' = [copy EXCEPT ![w] = <<>>]
              \/ copy' = [copy EXCEPT ![w] = StripCatchAll(Decode(doc))]
BY DEF Next, vars, Call, Lock, Read, Write, Retry, Fail, Return

\* Whatever is read or put, the document and the copies stay lists of rules.
LEMMA ListsStay == Spec => []Lists
<1>1. Init => Lists
  BY ClientsAssumption DEF Init, Lists
<1>2. TypeOK /\ Lists /\ [Next]_vars => Lists'
  <2> SUFFICES ASSUME TypeOK, Lists, [Next]_vars
               PROVE  Lists'
    OBVIOUS
  <2>1. doc' \in Seq(Rule)
    <3>1. CASE doc' = doc
      BY <3>1 DEF Lists
    <3>2. ASSUME NEW w \in Workers, op[w] \in Op, copy[w] \in Seq(Rule),
                 doc' = NormalizeIngress(Mutate(op[w], copy[w]))
          PROVE  doc' \in Seq(Rule)
      BY <3>2, MutateRules, NormalizeEnds
    <3>3. QED
      BY <3>1, <3>2, OnlyPuts
  <2>2. StripCatchAll(Decode(doc)) \in Seq(Rule)
    BY DecodeRules, KeptRules DEF Lists, StripCatchAll
  <2>3. copy' \in [Workers -> Seq(Rule)]
    <3>1. <<>> \in Seq(Rule)
      OBVIOUS
    <3>2. QED
      BY <2>2, <3>1, OnlyReads, Zenon DEF Lists
  <2>4. QED
    BY <2>1, <2>3 DEF Lists
<1>3. QED
  BY <1>1, <1>2, TypeCorrect, PTL DEF Spec

\* A document the API accepts: CatchAllLast of any document.
LastIsCatchAll(d) ==
  /\ d # <<>>
  /\ \A i \in DOMAIN d : IsCatchAll(d[i]) <=> i = Len(d)

\* NormalizeIngress makes nothing else.
LEMMA EndedIsLast ==
  ASSUME NEW d, Ended(d)
  PROVE  LastIsCatchAll(d)
<1>1. PICK b \in Seq(Proper) : d = Append(b, CatchAll)
  BY DEF Ended
<1>2. /\ Len(b) \in Nat /\ Len(d) = Len(b) + 1 /\ d # <<>>
      /\ d[Len(b) + 1] = CatchAll
      /\ \A i \in DOMAIN d :
           i = Len(b) + 1 \/ (i # Len(b) + 1 /\ d[i] \in Proper)
  BY <1>1
<1>3. \A r \in Proper : ~IsCatchAll(r)
  BY DEF Proper
<1>4. QED
  BY <1>2, <1>3, MadeRules, Zenon DEF LastIsCatchAll

\* The catch-all is the last rule and nowhere else, whatever is added and
\* removed, refused, lost or sent again, by workers of any clients: if it was
\* so at first, which the API sees to.
THEOREM CatchAllStaysLast ==
  ASSUME \A d \in InitialDocs : LastIsCatchAll(d)
  PROVE  Spec => []CatchAllLast
<1>1. Init => CatchAllLast
  BY DEF Init, CatchAllLast, LastIsCatchAll
<1>2. TypeOK /\ Lists /\ CatchAllLast /\ [Next]_vars => CatchAllLast'
  <2> SUFFICES ASSUME TypeOK, Lists, LastIsCatchAll(doc), [Next]_vars
               PROVE  LastIsCatchAll(doc')
    BY DEF CatchAllLast, LastIsCatchAll
  <2>1. ASSUME NEW w \in Workers, op[w] \in Op, copy[w] \in Seq(Rule),
               doc' = NormalizeIngress(Mutate(op[w], copy[w]))
        PROVE  LastIsCatchAll(doc')
    BY <2>1, MutateRules, NormalizeEnds, EndedIsLast
  <2>2. QED
    BY <2>1, OnlyPuts
<1>3. QED
  BY <1>1, <1>2, TypeCorrect, ListsStay, PTL DEF Spec

-----------------------------------------------------------------------------
\* No rule that is kept clashes with the catch-all.
LEMMA OneEachNormalize ==
  ASSUME NEW s \in Seq(Rule), OneEach(s)
  PROVE  OneEach(NormalizeIngress(s))
<1> DEFINE k == StripCatchAll(s)
<1>1. k \in Seq(Rule \cap Proper) /\ OneEach(k)
  BY KeptFrom, OneEachKept DEF StripCatchAll, Proper
<1>2. ASSUME NEW r \in Proper
      PROVE  ~Clash(r, CatchAll)
  <2>1. r.host \in Hosts \cup {NoHost} /\ ~(r.host = NoHost /\ r.path = NoPath)
    BY DEF Proper, Rule, IsCatchAll
  <2>2. CatchAll.host = NoHost
    BY DEF CatchAll, NewRule
  <2>3. QED
    BY <2>1, <2>2, HostsAssumption DEF Clash
<1> HIDE DEF k
<1>3. k \in Seq(Rule) /\ \A i \in DOMAIN k : k[i] \in Proper
  BY <1>1
<1>4. OneEach(Append(k, CatchAll))
  BY <1>1, <1>2, <1>3, MadeRules, OneEachAppend
<1>5. QED
  BY <1>4 DEF NormalizeIngress, k

\* AddRoute takes out what would clash with the rule it adds.
LEMMA OneEachMutate ==
  ASSUME NEW o \in Op, NEW s \in Seq(Rule), OneEach(s)
  PROVE  OneEach(Mutate(o, s))
<1> DEFINE F == {r \in Rule : ~EqualFold(r.host, o.host)}
           k == Kept(s, F)
<1>1. k \in Seq(Rule \cap F) /\ OneEach(k) /\ WithoutHost(s, o.host) = k
  BY KeptFrom, OneEachKept DEF WithoutHost
<1>2. CASE Mutate(o, s) = WithoutHost(s, o.host)
  BY <1>1, <1>2
<1>3. CASE /\ o.service \in Services
           /\ Mutate(o, s) = Append(WithoutHost(s, o.host), NewRule(o.host, o.service))
  <2> DEFINE n == NewRule(o.host, o.service)
  <2>1. n \in Rule /\ n.host = o.host
    BY <1>3, MutateRules, MadeRules DEF Proper, NewRule
  <2>2. ASSUME NEW r \in F
        PROVE  ~Clash(r, n)
    BY <2>1 DEF Clash, EqualFold
  <2> HIDE DEF n, k
  <2>3. k \in Seq(Rule) /\ \A i \in DOMAIN k : k[i] \in F
    BY <1>1
  <2>4. OneEach(Append(k, n))
    BY <1>1, <2>1, <2>2, <2>3, OneEachAppend
  <2>5. QED
    BY <1>1, <1>3, <2>4 DEF n
<1>4. QED
  BY <1>2, <1>3, MutateRules

\* The document has one rule for each hostname, and so has every copy.
OneInv == OneEach(doc) /\ \A w \in Workers : OneEach(copy[w])

\* Two rules without a path never claim one hostname, in any spelling,
\* whatever the workers add: if none did at first.
THEOREM OneRuleStays ==
  ASSUME \A d \in InitialDocs : OneEach(d)
  PROVE  Spec => []OneRulePerHost
<1>1. OneInv => OneRulePerHost
  BY DEF OneInv, OneEach, Clash, OneRulePerHost
<1>2. OneEach(<<>>)
  BY DEF OneEach
<1>3. Init => OneInv
  BY <1>2 DEF Init, OneInv
<1>4. TypeOK /\ Lists /\ OneInv /\ [Next]_vars => OneInv'
  <2> SUFFICES ASSUME TypeOK, Lists, OneInv, [Next]_vars
               PROVE  OneInv'
    OBVIOUS
  <2>1. OneEach(doc')
    <3>1. CASE doc' = doc
      BY <3>1 DEF OneInv
    <3>2. ASSUME NEW w \in Workers, op[w] \in Op, copy[w] \in Seq(Rule),
                 doc' = NormalizeIngress(Mutate(op[w], copy[w]))
          PROVE  OneEach(doc')
      BY <3>2, MutateRules, OneEachMutate, OneEachNormalize DEF OneInv
    <3>3. QED
      BY <3>1, <3>2, OnlyPuts
  <2>2. OneEach(StripCatchAll(Decode(doc)))
    <3>1. /\ Decode(doc) \in Seq(Rule)
          /\ DOMAIN Decode(doc) = DOMAIN doc
          /\ \A i \in DOMAIN doc : Decode(doc)[i].host = doc[i].host
                                   /\ Decode(doc)[i].path = doc[i].path
      BY DecodeRules DEF Lists
    <3>2. OneEach(Decode(doc))
      BY <3>1, Zenon DEF OneInv, OneEach, Clash
    <3>3. QED
      BY <3>1, <3>2, OneEachKept DEF StripCatchAll
  <2>3. ASSUME NEW w \in Workers
        PROVE  OneEach(copy'[w])
    <3>1. copy'[w] \in {copy[w], <<>>, StripCatchAll(Decode(doc))}
      BY OnlyReads DEF Lists
    <3>2. QED
      BY <3>1, <2>2, <1>2 DEF OneInv
  <2>4. QED
    BY <2>1, <2>3 DEF OneInv
<1>5. QED
  BY <1>1, <1>3, <1>4, TypeCorrect, ListsStay, PTL DEF Spec

-----------------------------------------------------------------------------
\* Where the API stores no setting the struct does not name, decoding keeps
\* the document as it is.
LEMMA DecodeWhole ==
  ASSUME Extras = {}, NEW d \in Seq(Rule)
  PROVE  Decode(d) = d
<1>1. \A r \in Rule : [r EXCEPT !.extra = NoExtra] = r
  BY DEF Rule
<1>2. \A i \in DOMAIN d : d[i] \in Rule
  OBVIOUS
<1>3. d = [i \in DOMAIN d |-> d[i]]
  OBVIOUS
<1>4. QED
  BY <1>1, <1>2, <1>3, Zenon DEF Decode

\* The rules that concern a hostname in any spelling.
Of(g) == {r \in Rule : EqualFold(r.host, g)}

\* An update leaves the rules of another hostname as they are, the rules
\* without a hostname included.
LEMMA UpdateConcernsOne ==
  ASSUME Extras = {}, NEW d, Ended(d), NEW o \in Op,
         NEW g \in Hosts \cup {NoHost}, ~EqualFold(g, o.host)
  PROVE  RulesFor(UpdateOf(o, d), g) = RulesFor(d, g)
<1> DEFINE W == {r \in Rule : ~EqualFold(r.host, o.host)}
           End(s) == IF CatchAll \in Of(g) THEN Append(s, CatchAll) ELSE s
<1>1. PICK b \in Seq(Proper) : d = Append(b, CatchAll)
  BY DEF Ended
<1>2. b \in Seq(Rule) /\ d \in Seq(Rule) /\ CatchAll \notin Proper
  BY <1>1, MadeRules DEF Proper
<1>3. Decode(d) = d
  BY <1>2, DecodeWhole
<1>4. StripCatchAll(d) = b
  <2>1. Kept(d, Proper) = Kept(b, Proper)
    BY <1>1, <1>2, MadeRules, KeptAppend
  <2>2. Kept(b, Proper) = b
    BY KeptWhole
  <2>3. QED
    BY <2>1, <2>2 DEF StripCatchAll, Proper
<1>5. WithoutHost(b, o.host) = Kept(b, W) /\ Kept(b, W) \in Seq(Rule)
  BY <1>2, KeptRules DEF WithoutHost
<1>6. Kept(Mutate(o, b), Of(g)) = Kept(b, Of(g)) /\ Mutate(o, b) \in Seq(Rule)
  <2>1. Kept(Kept(b, W), Of(g)) = Kept(b, Of(g))
    <3>1. W \cap Of(g) = Of(g)
      BY DEF Of, EqualFold
    <3>2. QED
      BY <1>2, <3>1, KeptKept
  <2>2. CASE Mutate(o, b) = WithoutHost(b, o.host)
    BY <1>5, <2>1, <2>2
  <2>3. CASE /\ o.service \in Services
             /\ Mutate(o, b) = Append(WithoutHost(b, o.host), NewRule(o.host, o.service))
    <3> DEFINE n == NewRule(o.host, o.service)
    <3>1. n \in Rule /\ n.host = o.host
      BY <1>2, <2>3, MutateRules, MadeRules DEF Proper, NewRule
    <3>2. n \notin Of(g)
      BY <3>1 DEF Of, EqualFold
    <3> HIDE DEF n
    <3>3. Kept(Append(Kept(b, W), n), Of(g)) = Kept(Kept(b, W), Of(g))
      BY <1>5, <3>1, <3>2, KeptAppend
    <3>4. Mutate(o, b) = Append(Kept(b, W), n)
      BY <1>5, <2>3 DEF n
    <3>5. Mutate(o, b) \in Seq(Rule)
      BY <1>2, MutateRules
    <3> HIDE DEF W
    <3>6. QED
      BY <2>1, <3>3, <3>4, <3>5
  <2>4. QED
    BY <1>2, <2>2, <2>3, MutateRules
<1> DEFINE m == Mutate(o, b)
<1>7. Kept(Kept(m, Proper), Of(g)) = Kept(m, Proper \cap Of(g))
  BY <1>6, KeptKept
<1>8. Kept(m, Proper \cap Of(g)) = Kept(m, Of(g))
  \* No rule of m is the catch-all.
  <2>1. m \in Seq(Proper)
    <3>1. Kept(b, W) \in Seq(Proper \cap W)
      BY KeptFrom
    <3>2. Kept(b, W) \in Seq(Proper)
      BY <3>1
    <3>3. o.service \in Services => NewRule(o.host, o.service) \in Proper
      BY <1>2, MutateRules, MadeRules
    <3>4. \/ m = Kept(b, W)
          \/ /\ o.service \in Services
             /\ m = Append(Kept(b, W), NewRule(o.host, o.service))
      BY <1>2, <1>5, MutateRules
    <3> HIDE DEF W, m
    <3>5. QED
      BY <3>2, <3>3, <3>4
  <2> HIDE DEF m
  <2>2. Kept(m, Proper) = m
    BY <2>1, KeptWhole
  <2>3. Kept(Kept(m, Proper), Of(g)) = Kept(m, Proper \cap Of(g))
    BY <2>1, KeptKept
  <2>4. QED
    BY <2>2, <2>3
<1>9. RulesFor(d, g) = End(Kept(b, Of(g)))
  BY <1>1, <1>2, MadeRules, KeptAppend DEF RulesFor, Of
<1>10. RulesFor(UpdateOf(o, d), g) = End(Kept(Kept(m, Proper), Of(g)))
  <2>1. UpdateOf(o, d) = Append(Kept(m, Proper), CatchAll)
    BY <1>3, <1>4 DEF UpdateOf, NormalizeIngress, StripCatchAll, Proper
  <2>2. Kept(m, Proper) \in Seq(Rule)
    BY <1>6, KeptRules
  <2> HIDE DEF m
  <2>3. QED
    BY <2>1, <2>2, MadeRules, KeptAppend DEF RulesFor, Of
<1>11. QED
  BY <1>6, <1>7, <1>8, <1>9, <1>10

\* The document stays one that NormalizeIngress makes.
DocEnded == Ended(doc)

LEMMA EndedStays ==
  ASSUME \A d \in InitialDocs : Ended(d)
  PROVE  Spec => []DocEnded
<1>1. Init => DocEnded
  BY DEF Init, DocEnded
<1>2. TypeOK /\ Lists /\ DocEnded /\ [Next]_vars => DocEnded'
  <2> SUFFICES ASSUME TypeOK, Lists, Ended(doc), [Next]_vars
               PROVE  Ended(doc')
    BY DEF DocEnded
  <2>1. ASSUME NEW w \in Workers, op[w] \in Op, copy[w] \in Seq(Rule),
               doc' = NormalizeIngress(Mutate(op[w], copy[w]))
        PROVE  Ended(doc')
    BY <2>1, MutateRules, NormalizeEnds
  <2>2. QED
    BY <2>1, OnlyPuts
<1>3. QED
  BY <1>1, <1>2, TypeCorrect, ListsStay, PTL DEF Spec

\* When all workers share a client and the API stores nothing the struct does
\* not name, adding or removing a hostname stores the rules of every other one
\* as they were, in their order: two concurrent calls do not disturb each
\* other, nor the routes somebody made by hand.
THEOREM OthersStay ==
  ASSUME SingleClient, Extras = {}, \A d \in InitialDocs : Ended(d)
  PROVE  Spec => OthersUntouched
<1> DEFINE Alone == \E h \in Hosts : \A g \in Hosts \cup {NoHost} :
                      ~EqualFold(g, h) => RulesFor(doc', g) = RulesFor(doc, g)
<1>1. DocEnded /\ [\E o \in Op : doc' = UpdateOf(o, doc)]_doc => [Alone]_doc
  <2> SUFFICES ASSUME Ended(doc), NEW o \in Op, doc' = UpdateOf(o, doc)
               PROVE  Alone
    BY DEF DocEnded
  <2>1. o.host \in Hosts
    BY DEF Op
  <2>2. \A g \in Hosts \cup {NoHost} :
          ~EqualFold(g, o.host) => RulesFor(doc', g) = RulesFor(doc, g)
    BY UpdateConcernsOne
  <2>3. QED
    BY <2>1, <2>2
<1>2. QED
  BY <1>1, UpdatesAreAtomic, EndedStays, PTL DEF AtomicUpdates, OthersUntouched
=============================================================================
