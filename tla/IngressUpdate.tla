---------------------------- MODULE IngressUpdate ---------------------------
(***************************************************************************)
(* Client.UpdateIngress: the read-modify-write of the routing document.    *)
(*                                                                         *)
(* The configurations endpoint replaces the whole document, so the client  *)
(* reads it, changes its copy and writes it back.  A goroutine (a worker)  *)
(* runs the cycle under the ingressMu of ITS client: workers that share a  *)
(* client share the lock, workers of different clients do not.  A request  *)
(* may fail outright (an API error, never retried), or be lost, in which   *)
(* case Client.do tries it again up to MaxRetries times; a lost PUT may    *)
(* have been applied or not.                                               *)
(***************************************************************************)
EXTENDS IngressRules

CONSTANTS
  Workers,      \* goroutines that add and remove routes
  Clients,      \* cloudflare.Client values
  ClientOf,     \* the client each worker uses
  MaxRetries,   \* maxRetries of Client.do
  InitialDocs,  \* documents a tunnel may start with
  None          \* no holder, no operation

ASSUME ClientsAssumption ==
  /\ ClientOf \in [Workers -> Clients]
  /\ None \notin Workers \cup Op
  /\ MaxRetries \in Nat
  /\ InitialDocs \subseteq Seq(Rule)

VARIABLES
  doc,      \* the document the API stores
  holder,   \* ingressMu of each client: its holder, or None
  pc,       \* where each worker is
  op,       \* the mutation a worker was called with, or None
  copy,     \* the rules a worker read, without the catch-all
  attempt   \* attempts of the current request already lost

vars == <<doc, holder, pc, op, copy, attempt>>

Init ==
  /\ doc \in InitialDocs
  /\ holder = [c \in Clients |-> None]
  /\ pc = [w \in Workers |-> "idle"]
  /\ op = [w \in Workers |-> None]
  /\ copy = [w \in Workers |-> <<>>]
  /\ attempt = [w \in Workers |-> 0]

-----------------------------------------------------------------------------
\* Mutant of Return: a path that forgets the Unlock.
ReturnLocked(w) ==
  /\ pc' = [pc EXCEPT ![w] = "idle"]
  /\ op' = [op EXCEPT ![w] = None]
  /\ copy' = [copy EXCEPT ![w] = <<>>]
  /\ attempt' = [attempt EXCEPT ![w] = 0]
  /\ UNCHANGED holder

\* The call returns: the deferred Unlock, and the locals are gone.
Return(w) ==
  /\ holder' = [holder EXCEPT ![ClientOf[w]] = None]
  /\ pc' = [pc EXCEPT ![w] = "idle"]
  /\ op' = [op EXCEPT ![w] = None]
  /\ copy' = [copy EXCEPT ![w] = <<>>]
  /\ attempt' = [attempt EXCEPT ![w] = 0]

\* AddRouteWithOrigin or RemoveRoute calls UpdateIngress.
Call(w, o) ==
  /\ pc[w] = "idle"
  /\ pc' = [pc EXCEPT ![w] = "locking"]
  /\ op' = [op EXCEPT ![w] = o]
  /\ UNCHANGED <<doc, holder, copy, attempt>>

\* Mutant of Lock: the lock is not waited for.
LockAnyway(w) ==
  /\ pc[w] = "locking"
  /\ holder' = [holder EXCEPT ![ClientOf[w]] = w]
  /\ pc' = [pc EXCEPT ![w] = "reading"]
  /\ UNCHANGED <<doc, op, copy, attempt>>

Lock(w) ==
  /\ pc[w] = "locking"
  /\ holder[ClientOf[w]] = None
  /\ holder' = [holder EXCEPT ![ClientOf[w]] = w]
  /\ pc' = [pc EXCEPT ![w] = "reading"]
  /\ UNCHANGED <<doc, op, copy, attempt>>

\* TunnelConfig answers.
Read(w) ==
  /\ pc[w] = "reading"
  /\ copy' = [copy EXCEPT ![w] = StripCatchAll(Decode(doc))]
  /\ pc' = [pc EXCEPT ![w] = "writing"]
  /\ attempt' = [attempt EXCEPT ![w] = 0]
  /\ UNCHANGED <<doc, holder, op>>

\* PutTunnelConfig reaches the API: the document is replaced.
Put(w) == doc' = NormalizeIngress(Mutate(op[w], copy[w]))

Write(w) ==
  /\ pc[w] = "writing"
  /\ Put(w)
  /\ Return(w)

\* A request is lost and will be tried again.
Retry(w) ==
  /\ pc[w] \in {"reading", "writing"}
  /\ attempt[w] < MaxRetries
  /\ attempt' = [attempt EXCEPT ![w] = @ + 1]
  /\ doc' = doc \/ (pc[w] = "writing" /\ Put(w))
  /\ UNCHANGED <<holder, pc, op, copy>>

\* The request is refused, or its last attempt is lost: the call fails.
Fail(w) ==
  /\ pc[w] \in {"reading", "writing"}
  /\ \/ doc' = doc
     \/ pc[w] = "writing" /\ attempt[w] = MaxRetries /\ Put(w)
  /\ Return(w)

Next ==
  \E w \in Workers :
    \/ \E o \in Op : Call(w, o)
    \/ Lock(w)
    \/ Read(w)
    \/ Write(w)
    \/ Retry(w)
    \/ Fail(w)

Progress(w) == Read(w) \/ Write(w) \/ Retry(w) \/ Fail(w)

\* Every request is bounded by the client's timeout, so a worker that holds
\* the lock always goes on; a Go mutex does not starve a waiter.
Fairness ==
  \A w \in Workers : WF_vars(Progress(w)) /\ SF_vars(Lock(w))

Spec == Init /\ [][Next]_vars /\ Fairness

-----------------------------------------------------------------------------
TypeOK ==
  /\ holder \in [Clients -> Workers \cup {None}]
  /\ pc \in [Workers -> {"idle", "locking", "reading", "writing"}]
  /\ op \in [Workers -> Op \cup {None}]
  /\ \A w \in Workers : op[w] = None <=> pc[w] = "idle"
  /\ attempt \in [Workers -> 0..MaxRetries]

InCycle(w) == pc[w] \in {"reading", "writing"}

\* Every worker uses the same client.
SingleClient == \A v, w \in Workers : ClientOf[v] = ClientOf[w]

\* The lock and the workers agree: whoever is inside the cycle holds the lock
\* of its client, on every path out of it (UpdateIngress's deferred Unlock).
LockHeld ==
  \A w \in Workers : InCycle(w) <=> holder[ClientOf[w]] = w

\* What a worker is about to write is computed from the document as it is
\* now: a copy never goes stale between the read and the write, and a write
\* that is sent again after a lost reply only repeats itself.
CopyIsFresh ==
  \A w \in Workers :
    pc[w] = "writing" =>
      \/ copy[w] = StripCatchAll(Decode(doc))
      \/ doc = NormalizeIngress(Mutate(op[w], copy[w]))

\* Each change of the document is one whole update, as if nothing ran beside
\* it: two concurrent route additions never lose one of them.
AtomicUpdates == [][\E o \in Op : doc' = UpdateOf(o, doc)]_doc

\* One update concerns one hostname: the rules of every other hostname,
\* those with a path included, are stored afterwards exactly as before.
OthersUntouched ==
  [][\E h \in Hosts : \A g \in Hosts \cup {NoHost} :
        ~EqualFold(g, h) => RulesFor(doc', g) = RulesFor(doc, g)]_doc

\* The API rejects a document whose last rule is not the catch-all, and
\* cloudflared never reaches a rule behind it: it is last and nowhere else.
CatchAllLast ==
  /\ doc # <<>>
  /\ \A i \in DOMAIN doc : IsCatchAll(doc[i]) <=> i = Len(doc)

\* Repeated adds are idempotent: two rules without a path never claim one
\* hostname, whatever the spelling each was added under (AddRoute's comment).
OneRulePerHost ==
  \A i, j \in DOMAIN doc :
    /\ doc[i].path = NoPath
    /\ doc[j].path = NoPath
    /\ Fold[doc[i].host] = Fold[doc[j].host]
    => i = j

\* Every call comes back, so the lock is never kept for ever.
CallsReturn == \A w \in Workers : (pc[w] = "locking") ~> (pc[w] = "idle")
=============================================================================
