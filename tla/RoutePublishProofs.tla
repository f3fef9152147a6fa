-------------------------- MODULE RoutePublishProofs --------------------------
(***************************************************************************)
(* What Publish and Unpublish report is true, and what is not ours is left *)
(* alone: proofs for any names, workers, records, retries and zone owner.  *)
(***************************************************************************)
EXTENDS RoutePublish, SequenceTheorems, TLAPS

-----------------------------------------------------------------------------
(* The inductive invariant.                                                *)

\* Ids are given out in order, and what is ours was marked.
RecordsMarked ==
  \A h \in Hosts :
    dns[h] # NoRecord => dns[h].id <= created /\ (dns[h].ours => dns[h].marked)

\* What a worker means to change it found, marked; a record with that id at the
\* name is that record still, whoever edited it since.
FoundMarked(w) ==
  /\ pc[w] \in {"update", "delete"} => found[w] # NoRecord
  /\ pc[w] = "idle" => found[w] = NoRecord /\ lookup[w] = 1
  /\ pc[w] # "idle" => result[w] = "none"
  /\ pc[w] \in Unpublishing => "client" \in given[w]
  /\ pc[w] \in Unpublishing \ {"remove"} => "zone" \in given[w]
  /\ found[w] # NoRecord =>
       /\ found[w].id <= created /\ found[w].type = "CNAME"
       /\ found[w].ours /\ found[w].marked
       /\ StillThere(w) => dns[host[w]].marked

\* No other worker works on the name of one that is alone.
AloneThere(w) ==
  alone[w] => \A v \in Workers \ {w} : pc[v] = "idle" \/ host[v] # host[w]

OursAt(h) == dns[h] # NoRecord /\ dns[h].type = "CNAME" /\ dns[h].ours

\* What a worker that is alone knows of its name from the calls it has made.
Knows(w) ==
  /\ pc[w] = "find" /\ dns[host[w]] # NoRecord =>
       \A i \in DOMAIN ConflictTypes : i < lookup[w] => dns[host[w]].type # ConflictTypes[i]
  /\ pc[w] = "create" /\ dns[host[w]] # NoRecord => PointsHere(dns[host[w]])
  /\ pc[w] \in {"refind", "add"} => PointsHere(dns[host[w]])
  /\ pc[w] = "remove" /\ clean[w] /\ "zone" \in given[w] => ~OursAt(host[w])
  /\ result[w] = "published" => PointsHere(dns[host[w]]) /\ host[w] \in ingress
  /\ result[w] = "removed" =>
       /\ "client" \in given[w]
       /\ "zone" \in given[w] => ~OursAt(host[w])
       /\ "tunnel" \in given[w] => host[w] \notin ingress

IInv ==
  /\ TypeOK /\ RecordsMarked
  /\ \A w \in Workers : FoundMarked(w) /\ AloneThere(w) /\ (alone[w] => Knows(w))

-----------------------------------------------------------------------------
(* The calls and what they do to the cloud.                                *)

CloudTypes ==
  /\ dns \in [Hosts -> Record \cup {NoRecord}]
  /\ created \in 1..MaxRecords
  /\ ingress \subseteq Hosts

LocalTypes ==
  /\ pc \in [Workers -> Publishing \cup Unpublishing \cup {"idle"}]
  /\ host \in [Workers -> Hosts]
  /\ given \in [Workers -> SUBSET Everything]
  /\ lookup \in [Workers -> DOMAIN ConflictTypes]
  /\ found \in [Workers -> Record \cup {NoRecord}]
  /\ attempt \in [Workers -> 0..MaxRetries]
  /\ clean \in [Workers -> BOOLEAN]
  /\ result \in [Workers -> {"none", "published", "removed", "conflict", "error", "leftovers"}]
  /\ aimed \in [Workers -> BOOLEAN]
  /\ alone \in [Workers -> BOOLEAN]

\* The type invariant has a part for the cloud and one for the workers.
LEMMA TwoTypes == TypeOK <=> CloudTypes /\ LocalTypes
BY DEF TypeOK, CloudTypes, LocalTypes

\* The three types that conflict with a route, in the order of the lookups.
LEMMA TypeOrder ==
  /\ DOMAIN ConflictTypes = 1..3 /\ Len(ConflictTypes) = 3
  /\ ConflictTypes[1] = "CNAME" /\ ConflictTypes[2] = "A" /\ ConflictTypes[3] = "AAAA"
  /\ Types = {"CNAME", "A", "AAAA"}
<1>1. DOMAIN ConflictTypes = 1..3 /\ Len(ConflictTypes) = 3
  BY DEF ConflictTypes
<1>2. ConflictTypes[1] = "CNAME" /\ ConflictTypes[2] = "A" /\ ConflictTypes[3] = "AAAA"
  BY DEF ConflictTypes
<1>3. \A i \in 1..3 : i = 1 \/ i = 2 \/ i = 3
  OBVIOUS
<1> QED
  BY <1>1, <1>2, <1>3 DEF Types

\* A record's fields, and the records the calls write.
LEMMA RecordFields ==
  ASSUME NEW r \in Record
  PROVE  /\ r.id \in 1..MaxRecords /\ r.type \in Types
         /\ r.ours \in BOOLEAN /\ r.marked \in BOOLEAN /\ r # NoRecord
BY PublishAssumption DEF Record

\* A record that is repointed.
LEMMA Repointed ==
  ASSUME NEW r \in Record, NEW s, s = [r EXCEPT !.content = Target]
  PROVE  /\ s \in Record /\ s.content = Target
         /\ s.id = r.id /\ s.type = r.type /\ s.ours = r.ours /\ s.marked = r.marked
BY DEF Record

\* A call changes nothing but its worker's name.
LEMMA EffectElsewhere ==
  ASSUME CloudTypes, LocalTypes, NEW w \in Workers, Effect(w) \/ UNCHANGED cloud
  PROVE  \A h \in Hosts \ {host[w]} : dns'[h] = dns[h] /\ (h \in ingress' <=> h \in ingress)
BY DEF Effect, PutNew, Repoint, Erase, Claim, Disclaim, cloud, CloudTypes, LocalTypes

\* What a call may make of the record at its worker's name.
LEMMA EffectHere ==
  ASSUME CloudTypes, LocalTypes, NEW w \in Workers, Effect(w), FoundMarked(w)
  PROVE  /\ \/ dns' = dns /\ created' = created /\ pc[w] \in {"add", "remove"}
            \/ /\ pc[w] = "create" /\ dns[host[w]] = NoRecord /\ created' = created + 1
               /\ dns'[host[w]] \in Record /\ PointsHere(dns'[host[w]])
               /\ dns'[host[w]].id = created' /\ dns'[host[w]].marked
            \/ /\ pc[w] = "update" /\ StillThere(w) /\ created' = created
               /\ dns'[host[w]] \in Record /\ PointsHere(dns'[host[w]])
               /\ dns'[host[w]].id = found[w].id /\ dns'[host[w]].marked
            \/ /\ pc[w] = "delete" /\ StillThere(w) /\ created' = created
               /\ dns'[host[w]] = NoRecord
         /\ CloudTypes'
<1> DEFINE h == host[w]
<1>1. h \in Hosts /\ dns[h] \in Record \cup {NoRecord} /\ created \in Nat /\ MaxRecords \in Nat
  BY PublishAssumption DEF CloudTypes, LocalTypes
<1>2. CASE pc[w] = "create" /\ PutNew(w)
  <2> DEFINE r == [id |-> created + 1, type |-> "CNAME", content |-> Target,
                   ours |-> TRUE, marked |-> TRUE]
  <2>1. created + 1 \in 1..MaxRecords /\ created' = created + 1
    BY <1>1, <1>2 DEF PutNew, CloudTypes
  <2>2. r \in Record /\ r.id = created + 1 /\ r.marked /\ PointsHere(r)
    <3>1. r.id = created + 1 /\ r.marked /\ r.type = "CNAME" /\ r.content = Target
      OBVIOUS
    <3>2. r \in Record
      BY <2>1, TypeOrder DEF Record
    <3> QED
      BY <3>1, <3>2, RecordFields DEF PointsHere
  <2>3. dns[h] = NoRecord /\ dns' = [dns EXCEPT ![h] = r] /\ ingress' = ingress
    BY <1>2 DEF PutNew
  <2> HIDE DEF r
  <2>4. dns'[h] = r
    BY <1>1, <2>3 DEF CloudTypes
  <2>5. CloudTypes'
    BY <1>1, <2>1, <2>2, <2>3 DEF CloudTypes
  <2> QED
    BY <1>2, <2>1, <2>2, <2>3, <2>4, <2>5
<1>3. CASE pc[w] = "update" /\ Repoint(w)
  <2> DEFINE r == [found[w] EXCEPT !.content = Target]
  <2>1. found[w] \in Record /\ found[w].type = "CNAME" /\ found[w].marked
    BY <1>3 DEF LocalTypes, FoundMarked
  <2>2. r \in Record /\ r.content = Target /\ r.type = "CNAME" /\ r.id = found[w].id /\ r.marked
    BY <2>1, Repointed
  <2>3. StillThere(w) /\ dns' = [dns EXCEPT ![h] = r] /\ created' = created /\ ingress' = ingress
    BY <1>3 DEF Repoint
  <2> HIDE DEF r
  <2>4. dns'[h] = r /\ PointsHere(r)
    BY <1>1, <2>2, <2>3, RecordFields DEF CloudTypes, PointsHere
  <2>5. CloudTypes'
    BY <1>1, <2>2, <2>3 DEF CloudTypes
  <2> QED
    BY <1>3, <2>2, <2>3, <2>4, <2>5
<1>4. CASE pc[w] = "delete" /\ Erase(w)
  BY <1>1, <1>4 DEF Erase, CloudTypes
<1>5. CASE pc[w] = "add" /\ Claim(w)
  BY <1>1, <1>5 DEF Claim, CloudTypes
<1>6. CASE pc[w] = "remove" /\ Disclaim(w)
  BY <1>1, <1>6 DEF Disclaim, CloudTypes
<1> QED
  BY <1>2, <1>3, <1>4, <1>5, <1>6 DEF Effect

\* What the owner of the zone may make of a record.
LEMMA OutsideHere ==
  ASSUME CloudTypes, NEW h \in Hosts, Outside(h)
  PROVE  /\ CloudTypes' /\ \A g \in Hosts \ {h} : dns'[g] = dns[g]
         /\ ingress' = ingress
         /\ \/ /\ dns[h] = NoRecord /\ created' = created + 1
               /\ dns'[h] \in Record /\ dns'[h].id = created' /\ ~dns'[h].ours
            \/ /\ dns[h] \in Record /\ created' = created /\ dns'[h] \in Record
               /\ dns'[h].id = dns[h].id /\ dns'[h].marked = dns[h].marked /\ ~dns'[h].ours
            \/ dns[h] \in Record /\ created' = created /\ dns'[h] = NoRecord
<1>a. dns[h] \in Record \cup {NoRecord} /\ created \in Nat /\ MaxRecords \in Nat
  BY PublishAssumption DEF CloudTypes
<1>1. CASE OutsiderCreates(h)
  <2>1. PICK t \in Types, c \in OtherTargets :
          dns' = [dns EXCEPT ![h] = [id |-> created + 1, type |-> t, content |-> c,
                                     ours |-> FALSE, marked |-> FALSE]]
    BY <1>1 DEF OutsiderCreates
  <2> DEFINE r == [id |-> created + 1, type |-> t, content |-> c, ours |-> FALSE, marked |-> FALSE]
  <2>2. dns[h] = NoRecord /\ created' = created + 1 /\ created' \in 1..MaxRecords /\ ingress' = ingress
    BY <1>a, <1>1 DEF OutsiderCreates, CloudTypes
  <2>3. r \in Record /\ r.id = created + 1 /\ r.ours = FALSE
    <3>1. r.id = created + 1 /\ r.ours = FALSE
      OBVIOUS
    <3>2. created + 1 \in 1..MaxRecords /\ c \in OtherTargets \cup {Target}
      BY <2>2
    <3> QED
      BY <3>1, <3>2 DEF Record
  <2>4. dns' = [dns EXCEPT ![h] = r]
    BY <2>1
  <2> HIDE DEF r
  <2> QED
    BY <2>2, <2>3, <2>4 DEF CloudTypes
<1>2. CASE OutsiderEdits(h)
  <2>1. PICK c \in OtherTargets : dns' = [dns EXCEPT ![h].content = c, ![h].ours = FALSE]
    BY <1>2 DEF OutsiderEdits
  <2>2. dns[h] \in Record /\ created' = created /\ ingress' = ingress
    BY <1>a, <1>2 DEF OutsiderEdits
  <2>3. /\ dns'[h] \in Record /\ dns'[h].id = dns[h].id
        /\ dns'[h].marked = dns[h].marked /\ dns'[h].ours = FALSE
    BY <2>1, <2>2 DEF CloudTypes, Record
  <2>4. \A g \in Hosts \ {h} : dns'[g] = dns[g]
    BY <2>1 DEF CloudTypes
  <2>5. dns' \in [Hosts -> Record \cup {NoRecord}]
    <3>1. DOMAIN dns' = Hosts /\ dns' = [g \in Hosts |-> dns'[g]]
      BY <2>1 DEF CloudTypes
    <3> QED
      BY <2>3, <2>4, <3>1 DEF CloudTypes
  <2> QED
    BY <2>2, <2>3, <2>4, <2>5 DEF CloudTypes
<1>3. CASE OutsiderDeletes(h)
  BY <1>a, <1>3 DEF OutsiderDeletes, CloudTypes
<1> QED
  BY <1>1, <1>2, <1>3 DEF Outside

-----------------------------------------------------------------------------
(* Types.                                                                  *)

\* A worker that goes on keeps the types.
LEMMA GotoTypes ==
  ASSUME LocalTypes, NEW w \in Workers, NEW call \in Publishing \cup Unpublishing, Goto(w, call)
  PROVE  /\ pc' \in [Workers -> Publishing \cup Unpublishing \cup {"idle"}]
         /\ attempt' \in [Workers -> 0..MaxRetries]
         /\ UNCHANGED <<host, given, result, alone>>
BY PublishAssumption DEF Goto, LocalTypes

\* And so does one that returns.
LEMMA ReturnTypes ==
  ASSUME LocalTypes, NEW w \in Workers,
         NEW r \in {"published", "removed", "conflict", "error", "leftovers"}, Return(w, r)
  PROVE  LocalTypes'
BY PublishAssumption, TypeOrder DEF Return, LocalTypes

\* DNS is done: on to the ingress, or the call is over.
LEMMA DnsDoneTypes ==
  ASSUME LocalTypes, NEW w \in Workers, NEW ok \in BOOLEAN, DnsDone(w, ok)
  PROVE  LocalTypes'
<1>1. CASE Goto(w, "remove") /\ clean' = [clean EXCEPT ![w] = ok] /\ UNCHANGED <<lookup, found, aimed>>
  <2>1. "remove" \in Publishing \cup Unpublishing
    BY DEF Unpublishing
  <2>2. clean' \in [Workers -> BOOLEAN]
    BY <1>1 DEF LocalTypes
  <2> QED
    BY <1>1, <2>1, <2>2, GotoTypes DEF LocalTypes
<1>2. CASE Return(w, Report(ok))
  <2>1. Report(ok) \in {"published", "removed", "conflict", "error", "leftovers"}
    BY DEF Report
  <2> QED
    BY <1>2, <2>1, ReturnTypes
<1> QED
  BY <1>1, <1>2 DEF DnsDone

\* Every step of a worker keeps its types.
LEMMA StepLocal ==
  ASSUME CloudTypes, LocalTypes, NEW w \in Workers, Step(w)
  PROVE  LocalTypes'
<1>a. {"create", "find", "add", "update", "refind", "remove", "delete"} \subseteq Publishing \cup Unpublishing
  BY DEF Publishing, Unpublishing
<1>1. CASE LookupFree(w)
  <2>1. lookup' \in [Workers -> DOMAIN ConflictTypes]
    BY <1>1, TypeOrder DEF LookupFree, LocalTypes
  <2>2. UNCHANGED <<found, clean, aimed>> /\ (Goto(w, "find") \/ Goto(w, "create"))
    BY <1>1 DEF LookupFree
  <2> QED
    BY <1>a, <2>1, <2>2, GotoTypes DEF LocalTypes
<1>2. CASE LookupTaken(w)
  <2> DEFINE r == Find(host[w], ConflictTypes[lookup[w]])
  <2>1. r \in Record \cup {NoRecord}
    BY DEF Find, CloudTypes, LocalTypes
  <2>2. CASE Goto(w, "add") /\ aimed' = [aimed EXCEPT ![w] = TRUE] /\ UNCHANGED <<lookup, found, clean>>
    BY <1>a, <2>2, GotoTypes DEF LocalTypes
  <2>3. CASE Goto(w, "update") /\ found' = [found EXCEPT ![w] = r] /\ UNCHANGED <<lookup, clean, aimed>>
    BY <1>a, <2>1, <2>3, GotoTypes DEF LocalTypes
  <2>4. CASE Return(w, "conflict")
    BY <2>4, ReturnTypes
  <2> QED
    BY <1>2, <2>2, <2>3, <2>4 DEF LookupTaken
<1>3. CASE Create(w) \/ Update(w)
  <2>1. Goto(w, "add") /\ aimed' = [aimed EXCEPT ![w] = TRUE] /\ UNCHANGED <<lookup, found, clean>>
    BY <1>3 DEF Create, Update
  <2> QED
    BY <1>a, <2>1, GotoTypes DEF LocalTypes
<1>4. CASE AlreadyExists(w)
  BY <1>a, <1>4, GotoTypes DEF AlreadyExists, LocalTypes
<1>5. CASE Refind(w)
  <2>1. PointsHere(Find(host[w], "CNAME")) \in BOOLEAN
    BY DEF PointsHere
  <2>2. aimed' \in [Workers -> BOOLEAN]
    BY <1>5, <2>1 DEF Refind, LocalTypes
  <2> QED
    BY <1>a, <1>5, <2>2, GotoTypes DEF Refind, LocalTypes
<1>6. CASE AddRoute(w)
  BY <1>6, ReturnTypes DEF AddRoute
<1>7. CASE FindOwn(w)
  <2> DEFINE r == Find(host[w], "CNAME")
  <2>1. r \in Record \cup {NoRecord}
    BY DEF Find, CloudTypes, LocalTypes
  <2>2. CASE DnsDone(w, TRUE) \/ DnsDone(w, FALSE)
    BY <2>2, DnsDoneTypes
  <2>3. CASE Goto(w, "delete") /\ found' = [found EXCEPT ![w] = r] /\ UNCHANGED <<lookup, clean, aimed>>
    BY <1>a, <2>1, <2>3, GotoTypes DEF LocalTypes
  <2> QED
    BY <1>7, <2>2, <2>3 DEF FindOwn
<1>8. CASE Delete(w)
  BY <1>8, DnsDoneTypes DEF Delete
<1>9. CASE RemoveRoute(w)
  <2>1. Return(w, "removed") \/ Return(w, "leftovers")
    BY <1>9 DEF RemoveRoute, Report
  <2> QED
    BY <2>1, ReturnTypes
<1>10. CASE Retry(w)
  <2>1. attempt' \in [Workers -> 0..MaxRetries]
    BY <1>10, PublishAssumption DEF Retry, LocalTypes
  <2> QED
    BY <1>10, <2>1 DEF Retry, LocalTypes
<1>11. CASE Fail(w)
  <2>1. CASE Return(w, "error") \/ Return(w, "leftovers")
    BY <2>1, ReturnTypes
  <2>2. CASE DnsDone(w, FALSE)
    BY <2>2, DnsDoneTypes
  <2> QED
    BY <1>11, <2>1, <2>2 DEF Fail
<1> QED
  BY <1>1, <1>2, <1>3, <1>4, <1>5, <1>6, <1>7, <1>8, <1>9, <1>10, <1>11 DEF Step

\* A worker's step makes its call, or loses it before it is made.
LEMMA StepIsCall ==
  ASSUME NEW w \in Workers, Step(w)
  PROVE  (Effect(w) \/ UNCHANGED cloud) /\ pc[w] # "idle"
BY DEF Step, LookupFree, LookupTaken, Create, AlreadyExists, Refind, Update, AddRoute, FindOwn,
       Delete, RemoveRoute, Retry, Fail, Effect, Publishing

\* Publish and Unpublish begin with a call.
LEMMA BeginTypes ==
  ASSUME LocalTypes, NEW w \in Workers, NEW h \in Hosts, NEW a \in SUBSET Everything,
         NEW call \in {"find", "findOwn", "remove", "idle"},
         NEW r \in {"none", "removed", "error", "leftovers"},
         Begin(w, h, a, call, r)
  PROVE  LocalTypes'
<1>1. call \in Publishing \cup Unpublishing \cup {"idle"}
  BY DEF Publishing, Unpublishing
<1>2. alone' \in [Workers -> BOOLEAN]
  BY DEF Begin, Disturbed, LocalTypes
<1> QED
  BY <1>1, <1>2 DEF Begin, LocalTypes

-----------------------------------------------------------------------------
(* What is marked stays marked.                                            *)

\* Records are created in the order of their ids, and a record of which it was
\* known that it is marked stays so, or its name has another record.
MarksKept ==
  /\ created' \in Nat /\ created <= created'
  /\ RecordsMarked'
  /\ \A h \in Hosts, r \in Record :
       r.id <= created /\ (dns[h] # NoRecord /\ dns[h].id = r.id => dns[h].marked) =>
         (dns'[h] # NoRecord /\ dns'[h].id = r.id => dns'[h].marked)

\* Every change of the cloud keeps the marks.
LEMMA AllKeepMarks ==
  ASSUME CloudTypes, LocalTypes, RecordsMarked, \A w \in Workers : FoundMarked(w),
         \/ UNCHANGED cloud
         \/ \E w \in Workers : Effect(w)
         \/ \E h \in Hosts : Outside(h)
  PROVE  MarksKept
<1>a. created \in Nat /\ \A h \in Hosts : dns[h] \in Record \cup {NoRecord}
  BY PublishAssumption DEF CloudTypes
<1>b. \A r \in Record : r.id \in Nat /\ r # NoRecord /\ r.ours \in BOOLEAN /\ r.marked \in BOOLEAN
  BY RecordFields, PublishAssumption
<1>1. CASE UNCHANGED cloud
  BY <1>a, <1>1 DEF cloud, MarksKept, RecordsMarked
<1>2. ASSUME NEW w \in Workers, Effect(w) PROVE MarksKept
  <2>1. host[w] \in Hosts /\ FoundMarked(w)
    BY DEF LocalTypes
  <2>2. \A h \in Hosts \ {host[w]} : dns'[h] = dns[h]
    BY <1>2, EffectElsewhere
  <2>3. created' = created \/ created' = created + 1
    BY <1>2, <2>1, EffectHere
  <2>4. \/ dns'[host[w]] = dns[host[w]]
        \/ dns'[host[w]] = NoRecord
        \/ /\ dns'[host[w]] \in Record /\ dns'[host[w]].marked
           /\ dns'[host[w]].id # created' => dns'[host[w]].id = found[w].id /\ StillThere(w)
    BY <1>2, <2>1, EffectHere
  <2>5. StillThere(w) => dns[host[w]] # NoRecord /\ dns[host[w]].id = found[w].id
    BY DEF StillThere
  <2>6. dns'[host[w]] # NoRecord /\ dns'[host[w]] # dns[host[w]] =>
          dns'[host[w]].id <= created' /\ dns'[host[w]].marked
    BY <1>a, <1>b, <2>1, <2>3, <2>4, <2>5 DEF RecordsMarked
  <2>7. RecordsMarked'
    BY <1>a, <1>b, <2>1, <2>2, <2>3, <2>6 DEF RecordsMarked
  <2> QED
    BY <1>a, <1>b, <2>2, <2>3, <2>6, <2>7 DEF MarksKept
<1>3. ASSUME NEW h \in Hosts, Outside(h) PROVE MarksKept
  <2>1. \A g \in Hosts \ {h} : dns'[g] = dns[g]
    BY <1>3, OutsideHere
  <2>2. \/ /\ dns[h] = NoRecord /\ created' = created + 1
           /\ dns'[h] \in Record /\ dns'[h].id = created' /\ ~dns'[h].ours
        \/ /\ dns[h] \in Record /\ created' = created /\ dns'[h] \in Record
           /\ dns'[h].id = dns[h].id /\ dns'[h].marked = dns[h].marked /\ ~dns'[h].ours
        \/ dns[h] \in Record /\ created' = created /\ dns'[h] = NoRecord
    BY <1>3, OutsideHere
  <2>3. created' \in Nat /\ created <= created'
    BY <1>a, <2>2
  <2>4. RecordsMarked'
    <3>1. ASSUME NEW g \in Hosts, dns'[g] # NoRecord
          PROVE  dns'[g].id <= created' /\ (dns'[g].ours => dns'[g].marked)
      <4>1. CASE g = h
        BY <1>a, <1>b, <2>2, <3>1, <4>1 DEF RecordsMarked
      <4>2. CASE g # h
        BY <1>a, <1>b, <2>1, <2>3, <3>1, <4>2 DEF RecordsMarked
      <4> QED
        BY <4>1, <4>2
    <3> QED
      BY <3>1 DEF RecordsMarked
  <2>5. ASSUME NEW g \in Hosts, NEW r \in Record, r.id <= created,
               dns[g] # NoRecord /\ dns[g].id = r.id => dns[g].marked,
               dns'[g] # NoRecord, dns'[g].id = r.id
        PROVE  dns'[g].marked
    <3>1. CASE g = h
      BY <1>a, <1>b, <2>2, <2>5, <3>1
    <3>2. CASE g # h
      BY <2>1, <2>5, <3>2
    <3> QED
      BY <3>1, <3>2
  <2> QED
    BY <2>3, <2>4, <2>5 DEF MarksKept
<1> QED
  BY <1>1, <1>2, <1>3

\* A worker that does not move knows as much about the mark as before.
LEMMA StillMarked ==
  ASSUME LocalTypes, CloudTypes, MarksKept, NEW w \in Workers, FoundMarked(w),
         host'[w] = host[w], found'[w] = found[w],
         pc'[w] \in {"update", "delete"} => found[w] # NoRecord,
         pc'[w] = "idle" => found[w] = NoRecord /\ lookup'[w] = 1,
         pc'[w] # "idle" => result'[w] = "none",
         pc'[w] \in Unpublishing => "client" \in given'[w],
         pc'[w] \in Unpublishing \ {"remove"} => "zone" \in given'[w]
  PROVE  FoundMarked(w)'
<1>1. created \in Nat /\ host[w] \in Hosts /\ found[w] \in Record \cup {NoRecord}
  BY PublishAssumption DEF CloudTypes, LocalTypes
<1>2. ASSUME found[w] # NoRecord
      PROVE  /\ found[w].id <= created'
             /\ dns'[host[w]] # NoRecord /\ dns'[host[w]].id = found[w].id => dns'[host[w]].marked
  <2>1. found[w].id <= created /\ found[w] \in Record /\ found[w].id \in Nat
    BY <1>1, <1>2, RecordFields DEF FoundMarked
  <2>2. dns[host[w]] # NoRecord /\ dns[host[w]].id = found[w].id => dns[host[w]].marked
    BY <1>2 DEF FoundMarked, StillThere
  <2>3. found[w].id <= created'
    BY <1>1, <2>1 DEF MarksKept
  <2>4. dns'[host[w]] # NoRecord /\ dns'[host[w]].id = found[w].id => dns'[host[w]].marked
    BY <1>1, <2>1, <2>2 DEF MarksKept
  <2> QED
    BY <2>3, <2>4
<1> QED
  BY <1>2 DEF FoundMarked, StillThere

\* Whoever found a record of ours knows it is marked.
LEMMA JustFound ==
  ASSUME CloudTypes, LocalTypes, RecordsMarked, NEW w \in Workers, UNCHANGED <<cloud, host, given, result>>,
         pc[w] # "idle", FoundMarked(w), pc'[w] \in {"update", "delete"},
         dns[host[w]] # NoRecord, dns[host[w]].type = "CNAME", dns[host[w]].ours,
         found'[w] = dns[host[w]], pc'[w] = "delete" => pc[w] = "findOwn"
  PROVE  FoundMarked(w)'
BY DEF FoundMarked, StillThere, RecordsMarked, cloud, LocalTypes, Unpublishing

\* A worker that returns has nothing found.
LEMMA ReturnMarked ==
  ASSUME LocalTypes, NEW w \in Workers, NEW r, Return(w, r)
  PROVE  FoundMarked(w)'
BY DEF LocalTypes, Return, FoundMarked, Unpublishing

\* What a worker's step leaves to the others.
LEMMA StepOthers ==
  ASSUME LocalTypes, NEW w \in Workers, Step(w), NEW v \in Workers \ {w}
  PROVE  UNCHANGED <<pc[v], lookup[v], found[v], clean[v], result[v]>>
BY DEF Step, LookupFree, LookupTaken, Create, AlreadyExists, Refind, Update, AddRoute, FindOwn,
       Delete, RemoveRoute, Retry, Fail, DnsDone, Goto, Return, LocalTypes

\* No step of a worker moves anybody to another name.
LEMMA StepNames ==
  ASSUME NEW w \in Workers, Step(w)
  PROVE  UNCHANGED <<host, given, alone>>
BY DEF Step, LookupFree, LookupTaken, Create, AlreadyExists, Refind, Update, AddRoute, FindOwn,
       Delete, RemoveRoute, Retry, Fail, DnsDone, Goto, Return

\* Every step of a worker keeps what it knows of the mark.
LEMMA StepMarked ==
  ASSUME CloudTypes, LocalTypes, RecordsMarked, NEW w \in Workers, FoundMarked(w), Step(w), MarksKept
  PROVE  FoundMarked(w)'
<1>a. pc[w] # "idle" /\ result[w] = "none" /\ host' = host /\ given' = given
  BY StepIsCall, StepNames DEF FoundMarked
<1>b. dns[host[w]] \in Record \cup {NoRecord}
  BY DEF CloudTypes, LocalTypes
<1>c. ASSUME NEW call \in {"find", "create", "refind", "add", "remove"}, Goto(w, call), found' = found,
             call = "remove" => pc[w] \in Unpublishing
      PROVE  FoundMarked(w)'
  <2>1. pc'[w] = call /\ result'[w] = "none" /\ found'[w] = found[w] /\ host'[w] = host[w]
    BY <1>a, <1>c DEF Goto, LocalTypes
  <2>2. call \in Unpublishing => call = "remove" /\ "client" \in given'[w]
    BY <1>a, <1>c DEF Unpublishing, FoundMarked
  <2> QED
    BY <2>1, <2>2, StillMarked
<1>d. ASSUME NEW ok \in BOOLEAN, DnsDone(w, ok), pc[w] \in Unpublishing
      PROVE  FoundMarked(w)'
  BY <1>c, <1>d, ReturnMarked DEF DnsDone
<1>1. CASE LookupFree(w)
  BY <1>1, <1>c DEF LookupFree
<1>2. CASE LookupTaken(w)
  <2> DEFINE r == Find(host[w], ConflictTypes[lookup[w]])
  <2>1. CASE Goto(w, "add") /\ found' = found
    BY <1>c, <2>1
  <2>2. CASE OwnedByUs(r) /\ r.type = "CNAME" /\ Goto(w, "update") /\ found' = [found EXCEPT ![w] = r]
    <3>1. r = dns[host[w]] /\ dns[host[w]] # NoRecord /\ dns[host[w]].ours /\ dns[host[w]].type = "CNAME"
      BY <2>2 DEF Find, OwnedByUs
    <3>2. UNCHANGED <<cloud, host, given, result>> /\ pc'[w] = "update" /\ found'[w] = dns[host[w]]
      BY <1>2, <2>2, <3>1 DEF LookupTaken, Goto, LocalTypes
    <3> QED
      BY <1>a, <3>1, <3>2, JustFound
  <2>3. CASE Return(w, "conflict")
    BY <2>3, ReturnMarked
  <2> QED
    BY <1>2, <2>1, <2>2, <2>3 DEF LookupTaken
<1>3. CASE Create(w) \/ AlreadyExists(w) \/ Refind(w) \/ Update(w)
  BY <1>3, <1>c DEF Create, AlreadyExists, Refind, Update
<1>8. CASE Delete(w)
  BY <1>8, <1>d DEF Delete, Unpublishing
<1>4. CASE AddRoute(w) \/ RemoveRoute(w)
  BY <1>4, ReturnMarked DEF AddRoute, RemoveRoute
<1>5. CASE FindOwn(w)
  <2> DEFINE r == Find(host[w], "CNAME")
  <2>1. CASE DnsDone(w, TRUE) \/ DnsDone(w, FALSE)
    BY <1>5, <1>d, <2>1 DEF FindOwn, Unpublishing
  <2>2. CASE r # NoRecord /\ OwnedByUs(r) /\ Goto(w, "delete") /\ found' = [found EXCEPT ![w] = r]
    <3>1. r = dns[host[w]] /\ dns[host[w]] # NoRecord /\ dns[host[w]].ours /\ dns[host[w]].type = "CNAME"
      BY <2>2 DEF Find, OwnedByUs
    <3>2. UNCHANGED <<cloud, host, given, result>> /\ pc[w] = "findOwn" /\ pc'[w] = "delete" /\ found'[w] = dns[host[w]]
      BY <1>5, <2>2, <3>1 DEF FindOwn, Goto, LocalTypes
    <3> QED
      BY <1>a, <3>1, <3>2, JustFound
  <2> QED
    BY <1>5, <2>1, <2>2 DEF FindOwn
<1>6. CASE Retry(w)
  <2>1. UNCHANGED <<pc, given, found, lookup, result>>
    BY <1>6 DEF Retry
  <2> QED
    BY <1>a, <2>1, StillMarked DEF FoundMarked
<1>7. CASE Fail(w)
  BY <1>7, <1>d, ReturnMarked DEF Fail, Unpublishing
<1> QED
  BY <1>1, <1>2, <1>3, <1>4, <1>5, <1>6, <1>7, <1>8 DEF Step

-----------------------------------------------------------------------------
(* What a worker that is alone knows.                                      *)

\* Nothing it knows changes while its name is left as it is.
LEMMA KnowsStill ==
  ASSUME NEW w \in Workers, Knows(w), dns'[host[w]] = dns[host[w]],
         host[w] \in ingress' <=> host[w] \in ingress,
         UNCHANGED <<pc[w], host[w], given[w], lookup[w], clean[w], result[w]>>
  PROVE  Knows(w)'
BY DEF Knows, PointsHere, OursAt

\* It may go on when what the next call presumes is true.
LEMMA KnowsNext ==
  ASSUME LocalTypes, NEW w \in Workers, FoundMarked(w), host' = host,
         NEW call \in Publishing \cup Unpublishing, Goto(w, call), pc[w] # "idle",
         call = "find" /\ dns'[host[w]] # NoRecord =>
           \A i \in DOMAIN ConflictTypes : i < lookup'[w] => dns'[host[w]].type # ConflictTypes[i],
         call = "create" /\ dns'[host[w]] # NoRecord => PointsHere(dns'[host[w]]),
         call \in {"refind", "add"} => PointsHere(dns'[host[w]]),
         call = "remove" /\ clean'[w] /\ "zone" \in given'[w] => ~(dns'[host[w]] # NoRecord /\ dns'[host[w]].type = "CNAME"
                                           /\ dns'[host[w]].ours)
  PROVE  Knows(w)'
<1>1. pc'[w] = call /\ result'[w] = "none"
  BY DEF Goto, FoundMarked, LocalTypes
<1> QED
  BY <1>1 DEF Knows, PointsHere, OursAt

\* When all lookups found nothing the name is free.
LEMMA KnowsFree ==
  ASSUME CloudTypes, LocalTypes, NEW w \in Workers, Knows(w), pc[w] = "find",
         Find(host[w], ConflictTypes[lookup[w]]) = NoRecord, dns[host[w]] # NoRecord
  PROVE  /\ lookup[w] < Len(ConflictTypes)
         /\ \A i \in DOMAIN ConflictTypes : i < lookup[w] + 1 => dns[host[w]].type # ConflictTypes[i]
<1>1. dns[host[w]] \in Record /\ lookup[w] \in 1..3
  BY TypeOrder DEF CloudTypes, LocalTypes
<1>2. dns[host[w]].type \in {"CNAME", "A", "AAAA"}
  BY <1>1, RecordFields, TypeOrder
<1>3. \A i \in 1..3 : i < lookup[w] => dns[host[w]].type # ConflictTypes[i]
  BY TypeOrder DEF Knows
<1>4. dns[host[w]].type # ConflictTypes[lookup[w]]
  BY <1>1 DEF Find
<1>5. \A i \in 1..3 : i < lookup[w] + 1 => i < lookup[w] \/ i = lookup[w]
  BY <1>1
<1>6. \A i \in 1..3 : i < lookup[w] + 1 => dns[host[w]].type # ConflictTypes[i]
  BY <1>3, <1>4, <1>5
<1>7. lookup[w] # 3
  BY <1>2, <1>6, TypeOrder
<1> QED
  BY <1>1, <1>6, <1>7, TypeOrder

\* Every step of a worker that is alone keeps what it knows.
LEMMA StepKnows ==
  ASSUME CloudTypes, LocalTypes, NEW w \in Workers, FoundMarked(w), Knows(w), Step(w)
  PROVE  Knows(w)'
<1> DEFINE h == host[w]
<1>a. pc[w] # "idle" /\ result[w] = "none" /\ host' = host /\ given' = given /\ h \in Hosts
  BY StepIsCall, StepNames DEF FoundMarked, LocalTypes
<1>b. dns[h] \in Record \cup {NoRecord}
  BY <1>a DEF CloudTypes
<1>c. {"create", "find", "add", "update", "refind", "remove", "delete"} \subseteq Publishing \cup Unpublishing
  BY DEF Publishing, Unpublishing
<1>d. ASSUME NEW r \in {"conflict", "error", "leftovers"}, Return(w, r) PROVE Knows(w)'
  <2>1. pc'[w] = "idle" /\ result'[w] = r
    BY <1>d DEF Return, LocalTypes
  <2> QED
    BY <2>1 DEF Knows
<1>e. ASSUME NEW ok \in BOOLEAN, DnsDone(w, ok), pc[w] \in Unpublishing \ {"remove"},
             ok => ~(dns'[h] # NoRecord /\ dns'[h].type = "CNAME" /\ dns'[h].ours)
      PROVE  Knows(w)'
  <2>1. CASE Goto(w, "remove") /\ clean' = [clean EXCEPT ![w] = ok]
    <3>1. clean'[w] = ok
      BY <2>1 DEF LocalTypes
    <3> QED
      BY <1>a, <1>c, <1>e, <2>1, <3>1, KnowsNext
  <2>2. CASE "tunnel" \notin given[w] /\ Return(w, Report(ok))
    <3>1. pc'[w] = "idle" /\ result'[w] = Report(ok)
      BY <2>2 DEF Return, LocalTypes
    <3>2. "client" \in given'[w] /\ "tunnel" \notin given'[w]
      BY <1>a, <1>e, <2>2 DEF FoundMarked
    <3>3. host'[w] = h
      BY <1>a
    <3>4. CASE ok
      <4>1. result'[w] = "removed" /\ ~OursAt(h)'
        BY <1>a, <1>e, <3>1, <3>4 DEF Report, OursAt
      <4> QED
        BY <3>1, <3>2, <3>3, <4>1 DEF Knows, OursAt
    <3>5. CASE ~ok
      BY <3>1, <3>5 DEF Report, Knows
    <3> QED
      BY <3>4, <3>5
  <2> QED
    BY <1>e, <2>1, <2>2 DEF DnsDone
<1>1. CASE LookupFree(w)
  <2>1. pc[w] = "find" /\ Find(h, ConflictTypes[lookup[w]]) = NoRecord /\ dns' = dns
    BY <1>1 DEF LookupFree, cloud
  <2>2. CASE dns[h] # NoRecord
    <3>1. /\ lookup[w] < Len(ConflictTypes)
          /\ \A i \in DOMAIN ConflictTypes : i < lookup[w] + 1 => dns[h].type # ConflictTypes[i]
      BY <2>1, <2>2, KnowsFree
    <3>2. lookup'[w] = lookup[w] + 1 /\ Goto(w, "find")
      BY <1>1, <3>1 DEF LookupFree, LocalTypes
    <3> QED
      BY <1>a, <1>c, <2>1, <3>1, <3>2, KnowsNext
  <2>3. CASE dns[h] = NoRecord
    <3>1. Goto(w, "find") \/ Goto(w, "create")
      BY <1>1 DEF LookupFree
    <3> QED
      BY <1>a, <1>c, <2>1, <2>3, <3>1, KnowsNext
  <2> QED
    BY <2>2, <2>3
<1>2. CASE LookupTaken(w)
  <2> DEFINE r == Find(h, ConflictTypes[lookup[w]])
  <2>1. dns' = dns /\ (r # NoRecord => r = dns[h])
    BY <1>2 DEF LookupTaken, cloud, Find
  <2>2. CASE r # NoRecord /\ PointsHere(r) /\ Goto(w, "add")
    BY <1>a, <1>c, <2>1, <2>2, KnowsNext
  <2>3. CASE Goto(w, "update")
    BY <1>a, <1>c, <2>3, KnowsNext
  <2>4. CASE Return(w, "conflict")
    BY <1>d, <2>4
  <2> QED
    BY <1>2, <2>2, <2>3, <2>4 DEF LookupTaken
<1>3. CASE Create(w) \/ Update(w)
  <2>1. Effect(w) /\ pc[w] \in {"create", "update"} /\ Goto(w, "add")
    BY <1>3 DEF Create, Update, Effect
  <2>2. PointsHere(dns'[h])
    BY <2>1, EffectHere
  <2> QED
    BY <1>a, <1>c, <2>1, <2>2, KnowsNext
<1>4. CASE AlreadyExists(w)
  <2>1. PointsHere(dns[h]) /\ dns' = dns /\ Goto(w, "refind")
    BY <1>4 DEF AlreadyExists, Knows, cloud
  <2> QED
    BY <1>a, <1>c, <2>1, KnowsNext
<1>5. CASE Refind(w)
  <2>1. PointsHere(dns[h]) /\ dns' = dns /\ Goto(w, "add")
    BY <1>5 DEF Refind, Knows, cloud
  <2> QED
    BY <1>a, <1>c, <2>1, KnowsNext
<1>6. CASE AddRoute(w)
  <2>1. PointsHere(dns[h]) /\ dns' = dns /\ h \in ingress'
    BY <1>6 DEF AddRoute, Knows, Claim
  <2>2. pc'[w] = "idle" /\ result'[w] = "published"
    BY <1>6 DEF AddRoute, Return, LocalTypes
  <2> QED
    BY <1>a, <2>1, <2>2 DEF Knows, PointsHere
<1>7. CASE FindOwn(w)
  <2> DEFINE r == Find(h, "CNAME")
  <2>1. dns' = dns
    BY <1>7 DEF FindOwn, cloud
  <2>2. CASE r = NoRecord /\ DnsDone(w, TRUE)
    <3>1. ~(dns[h] # NoRecord /\ dns[h].type = "CNAME")
      BY <2>2 DEF Find
    <3> QED
      BY <1>7, <1>e, <2>1, <2>2, <3>1 DEF FindOwn, Unpublishing
  <2>3. CASE DnsDone(w, FALSE)
    BY <1>7, <1>e, <2>3 DEF FindOwn, Unpublishing
  <2>4. CASE Goto(w, "delete")
    BY <1>a, <1>c, <2>4, KnowsNext
  <2> QED
    BY <1>7, <2>2, <2>3, <2>4 DEF FindOwn
<1>8. CASE Delete(w)
  <2>1. Effect(w) /\ pc[w] = "delete" /\ DnsDone(w, TRUE)
    BY <1>8 DEF Delete, Effect
  <2>2. dns'[h] = NoRecord
    BY <2>1, EffectHere
  <2> QED
    BY <1>e, <2>1, <2>2 DEF Unpublishing
<1>9. CASE RemoveRoute(w)
  <2>1. /\ dns' = dns /\ h \notin ingress' /\ "client" \in given[w]
        /\ clean[w] /\ "zone" \in given[w] => ~OursAt(h)
    BY <1>9 DEF RemoveRoute, Disclaim, Knows, FoundMarked, Unpublishing
  <2>2. CASE clean[w]
    <3>1. pc'[w] = "idle" /\ result'[w] = "removed"
      BY <1>9, <2>2 DEF RemoveRoute, Report, Return, LocalTypes
    <3> QED
      BY <1>a, <2>1, <2>2, <3>1 DEF Knows, OursAt
  <2>3. CASE ~clean[w]
    BY <1>9, <1>d, <2>3 DEF RemoveRoute, Report
  <2> QED
    BY <2>2, <2>3
<1>10. CASE Retry(w)
  <2>1. UNCHANGED <<pc, host, given, lookup, clean, result>> /\ (Effect(w) \/ UNCHANGED cloud)
    BY <1>10 DEF Retry
  <2>2. CASE UNCHANGED cloud
    BY <2>1, <2>2, KnowsStill DEF cloud
  <2>3. CASE Effect(w) /\ pc[w] \in {"create", "update"}
    <3>1. PointsHere(dns'[h])
      BY <2>3, EffectHere
    <3> QED
      BY <1>a, <2>1, <2>3, <3>1 DEF Knows, PointsHere
  <2>4. CASE Effect(w) /\ pc[w] = "delete"
    BY <1>a, <2>1, <2>4 DEF Knows
  <2>5. CASE Effect(w) /\ pc[w] \in {"add", "remove"}
    <3>1. dns' = dns
      BY <2>5, EffectHere
    <3> QED
      BY <1>a, <2>1, <2>5, <3>1 DEF Knows, PointsHere, OursAt
  <2> QED
    BY <2>1, <2>2, <2>3, <2>4, <2>5 DEF Effect
<1>11. CASE Fail(w)
  <2>1. CASE Return(w, "error") \/ Return(w, "leftovers")
    BY <1>d, <2>1
  <2>2. CASE pc[w] \in {"findOwn", "delete"} /\ DnsDone(w, FALSE)
    BY <1>e, <2>2 DEF Unpublishing
  <2> QED
    BY <1>11, <2>1, <2>2 DEF Fail
<1> QED
  BY <1>1, <1>2, <1>3, <1>4, <1>5, <1>6, <1>7, <1>8, <1>9, <1>10, <1>11 DEF Step

-----------------------------------------------------------------------------
(* The theorems.                                                           *)

\* The invariant holds of any zone and any ingress QuickFlare starts with.
LEMMA Starts == Init => IInv
<1> SUFFICES ASSUME Init PROVE IInv
  OBVIOUS
<1>1. \A h \in Hosts : dns[h] # NoRecord =>
        dns[h] \in Record /\ dns[h].id = 1 /\ dns[h].marked = dns[h].ours
  <2>1. 1 \in 1..MaxRecords
    BY PublishAssumption
  <2> QED
    BY <2>1 DEF Init, Record
<1>2. CloudTypes
  <2>1. 1 \in 1..MaxRecords
    BY PublishAssumption
  <2>2. dns \in [Hosts -> Record \cup {NoRecord}]
    BY <1>1 DEF Init
  <2> QED
    BY <2>1, <2>2 DEF Init, CloudTypes
<1>3. LocalTypes
  BY PublishAssumption, TypeOrder DEF Init, LocalTypes
<1>4. RecordsMarked
  BY <1>1 DEF RecordsMarked, Init
<1>5. \A w \in Workers : FoundMarked(w) /\ AloneThere(w) /\ (alone[w] => Knows(w))
  BY DEF Init, FoundMarked, AloneThere, Unpublishing
<1> QED
  BY <1>2, <1>3, <1>4, <1>5, TwoTypes DEF IInv

\* Publish or Unpublish begins.
LEMMA BeginInv ==
  ASSUME IInv, NEW w \in Workers, NEW h \in Hosts, NEW a \in SUBSET Everything,
         Publish(w, h, a) \/ Unpublish(w, h, a)
  PROVE  IInv'
<1>a. CloudTypes /\ LocalTypes /\ RecordsMarked /\ \A v \in Workers : FoundMarked(v)
  BY TwoTypes DEF IInv
<1>0. PICK call \in {"find", "findOwn", "remove", "idle"}, r \in {"none", "removed", "error", "leftovers"} :
        /\ Begin(w, h, a, call, r)
        /\ call # "idle" => r = "none"
        /\ r = "removed" => a = {"client"}
        /\ call \in {"findOwn", "remove"} => "client" \in a
        /\ call = "findOwn" => "zone" \in a
        /\ call = "remove" => "zone" \notin a
  BY DEF Publish, Unpublish
<1>b. pc[w] = "idle" /\ UNCHANGED <<cloud, lookup, found, clean>>
  BY <1>0 DEF Begin
<1>c. pc'[w] = call /\ host'[w] = h /\ given'[w] = a /\ result'[w] = r
  BY <1>0, <1>a DEF Begin, LocalTypes
<1>d. \A v \in Workers \ {w} :
        UNCHANGED <<pc[v], host[v], given[v], result[v]>> /\ (alone'[v] => alone[v] /\ host[v] # h)
  BY <1>0, <1>a DEF Begin, Disturbed, LocalTypes
<1>e. alone'[w] => \A v \in Workers \ {w} : pc[v] = "idle" \/ host[v] # h
  BY <1>0, <1>a DEF Begin, Disturbed, LocalTypes
<1>1. TypeOK'
  <2>1. CloudTypes'
    BY <1>a, <1>b DEF cloud, CloudTypes
  <2>2. LocalTypes'
    BY <1>0, <1>a, BeginTypes
  <2> QED
    BY <2>1, <2>2 DEF TypeOK, CloudTypes, LocalTypes
<1>2. RecordsMarked'
  BY <1>a, <1>b DEF RecordsMarked, cloud
<1>3. MarksKept
  BY <1>a, <1>b, AllKeepMarks
<1>4. ASSUME NEW v \in Workers \ {w}
      PROVE  FoundMarked(v)' /\ AloneThere(v)' /\ (alone'[v] => Knows(v)')
  <2>1. FoundMarked(v)'
    BY <1>a, <1>b, <1>3, <1>d, StillMarked DEF FoundMarked
  <2>2. AloneThere(v)'
    BY <1>c, <1>d DEF AloneThere, IInv
  <2>3. ASSUME alone'[v] PROVE Knows(v)'
    <3>1. Knows(v)
      BY <1>d, <2>3 DEF IInv
    <3> QED
      BY <1>b, <1>d, <3>1, KnowsStill DEF cloud
  <2> QED
    BY <2>1, <2>2, <2>3
<1>5. FoundMarked(w)'
  BY <1>0, <1>a, <1>b, <1>c DEF FoundMarked, Unpublishing
<1>6. AloneThere(w)'
  BY <1>c, <1>d, <1>e DEF AloneThere
<1>7. Knows(w)'
  <2>1. lookup'[w] = 1
    BY <1>a, <1>b DEF FoundMarked
  <2>2. \A i \in DOMAIN ConflictTypes : ~(i < 1)
    BY TypeOrder
  <2>3. /\ call \notin {"create", "refind", "add"} /\ r # "published"
        /\ call = "remove" => "zone" \notin a
        /\ r = "removed" => a = {"client"}
    BY <1>0
  <2> QED
    BY <1>c, <2>1, <2>2, <2>3 DEF Knows
<1> QED
  BY <1>1, <1>2, <1>4, <1>5, <1>6, <1>7 DEF IInv

\* A worker takes a step.
LEMMA StepInv ==
  ASSUME IInv, NEW w \in Workers, Step(w)
  PROVE  IInv'
<1>a. CloudTypes /\ LocalTypes /\ RecordsMarked /\ \A v \in Workers : FoundMarked(v)
  BY TwoTypes DEF IInv
<1>b. (Effect(w) \/ UNCHANGED cloud) /\ pc[w] # "idle" /\ UNCHANGED <<host, given, alone>>
  BY StepIsCall, StepNames
<1>1. TypeOK'
  <2>1. CloudTypes'
    BY <1>a, <1>b, EffectHere DEF cloud, CloudTypes
  <2>2. LocalTypes'
    BY <1>a, StepLocal
  <2> QED
    BY <2>1, <2>2 DEF TypeOK, CloudTypes, LocalTypes
<1>2. MarksKept
  BY <1>a, <1>b, AllKeepMarks
<1>3. RecordsMarked'
  BY <1>2 DEF MarksKept
<1>4. FoundMarked(w)'
  BY <1>a, <1>2, StepMarked
<1>5. alone'[w] => Knows(w)'
  BY <1>a, <1>b, StepKnows DEF IInv
<1>6. AloneThere(w)'
  BY <1>a, <1>b, StepOthers DEF AloneThere, IInv
<1>7. ASSUME NEW v \in Workers \ {w}
      PROVE  FoundMarked(v)' /\ AloneThere(v)' /\ (alone'[v] => Knows(v)')
  <2>1. UNCHANGED <<pc[v], lookup[v], found[v], clean[v], result[v]>>
    BY <1>a, StepOthers
  <2>2. FoundMarked(v)'
    BY <1>a, <1>b, <1>2, <2>1, StillMarked DEF FoundMarked
  <2>3. AloneThere(v)'
    <3>1. \A u \in Workers \ {v} : pc[u] = "idle" => pc'[u] = "idle"
      BY <1>a, <1>b, StepOthers
    <3> QED
      BY <1>b, <3>1 DEF AloneThere, IInv
  <2>4. ASSUME alone'[v] PROVE Knows(v)'
    <3>1. Knows(v) /\ host[w] # host[v]
      BY <1>b, <2>4 DEF IInv, AloneThere
    <3>2. dns'[host[v]] = dns[host[v]] /\ (host[v] \in ingress' <=> host[v] \in ingress)
      BY <1>a, <1>b, <3>1, EffectElsewhere DEF LocalTypes
    <3> QED
      BY <1>b, <2>1, <3>1, <3>2, KnowsStill
  <2> QED
    BY <2>2, <2>3, <2>4
<1> QED
  BY <1>1, <1>3, <1>4, <1>5, <1>6, <1>7 DEF IInv

\* The zone's owner touches a record.
LEMMA OutsideInv ==
  ASSUME IInv, NEW h \in Hosts, Outside(h)
  PROVE  IInv'
<1>a. CloudTypes /\ LocalTypes /\ RecordsMarked /\ \A v \in Workers : FoundMarked(v)
  BY TwoTypes DEF IInv
<1>b. UNCHANGED locals /\ ingress' = ingress /\ \A g \in Hosts \ {h} : dns'[g] = dns[g]
  BY <1>a, OutsideHere DEF Outside
<1>c. alone' \in [Workers -> BOOLEAN] /\ \A v \in Workers : alone'[v] => alone[v] /\ host[v] # h
  BY <1>a DEF Outside, Disturbed, LocalTypes
<1>1. TypeOK'
  <2>1. CloudTypes'
    BY <1>a, OutsideHere
  <2>2. LocalTypes'
    BY <1>a, <1>b, <1>c DEF LocalTypes, locals
  <2> QED
    BY <2>1, <2>2 DEF TypeOK, CloudTypes, LocalTypes
<1>2. MarksKept
  BY <1>a, AllKeepMarks
<1>3. RecordsMarked'
  BY <1>2 DEF MarksKept
<1>4. ASSUME NEW v \in Workers
      PROVE  FoundMarked(v)' /\ AloneThere(v)' /\ (alone'[v] => Knows(v)')
  <2>1. FoundMarked(v)'
    BY <1>a, <1>b, <1>2, StillMarked DEF FoundMarked, locals
  <2>2. AloneThere(v)'
    BY <1>b, <1>c DEF AloneThere, IInv, locals
  <2>3. ASSUME alone'[v] PROVE Knows(v)'
    <3>1. Knows(v) /\ dns'[host[v]] = dns[host[v]]
      BY <1>a, <1>b, <1>c, <2>3 DEF IInv, LocalTypes
    <3> QED
      BY <1>b, <3>1, KnowsStill DEF locals
  <2> QED
    BY <2>1, <2>2, <2>3
<1> QED
  BY <1>1, <1>3, <1>4 DEF IInv

\* Nothing moves.
LEMMA StutterInv == IInv /\ UNCHANGED vars => IInv'
BY DEF IInv, TypeOK, RecordsMarked, FoundMarked, AloneThere, Knows, StillThere, PointsHere, OursAt,
       vars, cloud, locals

\* The invariant holds throughout.
THEOREM PublishInvariant == Spec => []IInv
<1>1. IInv /\ [Next]_vars => IInv'
  <2>1. Arguments \subseteq SUBSET Everything
    BY PublishAssumption
  <2> QED
    BY <2>1, BeginInv, StepInv, OutsideInv, StutterInv DEF Next
<1> QED
  BY <1>1, Starts, PTL DEF Spec

\* The variables keep their types, whatever calls fail or are sent again and
\* whatever the zone's owner does.
THEOREM PublishTypeCorrect == Spec => []TypeOK
<1>1. IInv => TypeOK
  BY DEF IInv
<1> QED
  BY <1>1, PublishInvariant, PTL

\* QuickFlare never overwrites, repoints or deletes a record that never carried
\* its comment: between OwnedByUs and the call that follows, the name may have
\* been given to another record, whose id the call does not have.
THEOREM ForeignRecordsStay == Spec => ForeignRecordsUntouched
<1> DEFINE A == \/ \E h \in Hosts : Outside(h)
                \/ \A h \in Hosts : dns[h] # NoRecord /\ dns'[h] # dns[h] => dns[h].marked
<1>1. ASSUME IInv, Next PROVE A \/ dns' = dns
  <2>a. CloudTypes /\ LocalTypes /\ \A v \in Workers : FoundMarked(v)
    BY <1>1, TwoTypes DEF IInv
  <2>1. ASSUME NEW w \in Workers, NEW h \in Hosts, NEW a \in Arguments,
               Publish(w, h, a) \/ Unpublish(w, h, a)
        PROVE  dns' = dns
    BY <2>1 DEF Publish, Unpublish, Begin, cloud
  <2>2. ASSUME NEW w \in Workers, Step(w) PROVE A
    <3>1. Effect(w) \/ UNCHANGED cloud
      BY <2>2, StepIsCall
    <3>2. \A h \in Hosts \ {host[w]} : dns'[h] = dns[h]
      BY <2>a, <3>1, EffectElsewhere
    <3>3. dns[host[w]] # NoRecord /\ dns'[host[w]] # dns[host[w]] => dns[host[w]].marked
      <4>1. CASE UNCHANGED cloud
        BY <4>1 DEF cloud
      <4>2. CASE Effect(w)
        <5>1. \/ dns' = dns \/ dns[host[w]] = NoRecord
              \/ pc[w] \in {"update", "delete"} /\ StillThere(w)
          BY <2>a, <4>2, EffectHere
        <5> QED
          BY <2>a, <5>1 DEF FoundMarked
      <4> QED
        BY <3>1, <4>1, <4>2
    <3> QED
      BY <3>2, <3>3
  <2> QED
    BY <1>1, <2>1, <2>2 DEF Next
<1>2. IInv /\ [Next]_vars => [A]_dns
  BY <1>1 DEF vars, cloud
<1> QED
  BY <1>2, PublishInvariant, PTL DEF Spec, ForeignRecordsUntouched

\* When PublishWithOrigin reports success and nobody else touched the name, the
\* name points at the tunnel and the ingress maps it, though some of its calls
\* were lost and sent again.
THEOREM PublishReportsTruth == Spec => []PublishedIsReachable
<1>1. IInv => PublishedIsReachable
  BY DEF IInv, Knows, PublishedIsReachable
<1> QED
  BY <1>1, PublishInvariant, PTL

\* When Unpublish reports no problem and nobody else touched the name, it had a
\* client, and it left no record of ours if it was given the zone and no ingress
\* rule if it was given the tunnel.  Without the ids it says the same.
THEOREM UnpublishReportsTruth == Spec => []RemovedIsGone
<1>1. IInv => RemovedIsGone
  BY DEF IInv, Knows, OursAt, NoneOfOurs, RemovedIsGone
<1> QED
  BY <1>1, PublishInvariant, PTL
=============================================================================
