---------------------------- MODULE RoutePublish ----------------------------
(***************************************************************************)
(* core.PublishWithOrigin and core.Unpublish: turning a route into a DNS   *)
(* record plus an ingress rule, and tearing both down again.               *)
(*                                                                         *)
(* Every API call is a step of its own.  Beside the workers that run       *)
(* Publish and Unpublish there is an outsider, the owner of the zone, who  *)
(* may create, edit or delete records at any moment.  A call may be        *)
(* refused, or lost and tried again (Client.do), and a lost call may have  *)
(* been carried out.  The ingress update is one step here; IngressUpdate   *)
(* shows what makes it one.                                                *)
(***************************************************************************)
EXTENDS Naturals, Sequences

CONSTANTS
  Hosts,       \* hostnames of one zone
  Workers,     \* goroutines and processes that publish and unpublish
  Target,      \* the CNAME content that names this tunnel
  OtherTargets,\* any other content a record may have
  NoRecord,    \* the name is free
  Outsider,    \* what the zone's owner does: create, edit, delete
  Arguments,   \* which of client, zone and tunnel a call may be given
  MaxRecords,  \* bound on the records ever created
  MaxRetries   \* maxRetries of Client.do

ConflictTypes == <<"CNAME", "A", "AAAA">>

Types == {ConflictTypes[i] : i \in DOMAIN ConflictTypes}

\* "ours": the record carries QuickFlare's comment.  "marked" is history: it
\* has carried it at some time.
Record == [id : 1..MaxRecords, type : Types, content : OtherTargets \cup {Target},
           ours : BOOLEAN, marked : BOOLEAN]

\* A client that is connected, a zone id and a tunnel id.
Everything == {"client", "zone", "tunnel"}

ASSUME PublishAssumption ==
  /\ Target \notin OtherTargets
  /\ NoRecord \notin Record
  /\ Outsider \subseteq {"create", "edit", "delete"}
  /\ Arguments \subseteq SUBSET Everything
  /\ MaxRecords \in Nat \ {0}
  /\ MaxRetries \in Nat

VARIABLES
  dns,      \* the record at each name, or NoRecord
  created,  \* records created so far; the last one's id
  ingress,  \* hostnames the tunnel's ingress maps
  pc,       \* the API call each worker is about to make
  host,     \* the hostname it works on
  given,    \* which of its other arguments are not nil and not empty
  lookup,   \* index into conflictTypes of the next lookup
  found,    \* the record it found
  attempt,  \* attempts of the current call already lost
  clean,    \* Unpublish: no problem noted so far
  result,   \* what the last call returned
  aimed,    \* history: the worker saw its name aimed at the tunnel
  alone     \* history: nobody else touched the name since the call began

cloud == <<dns, created, ingress>>
locals == <<pc, host, given, lookup, found, attempt, clean, result, aimed>>
vars == <<cloud, locals, alone>>

Publishing == {"find", "create", "refind", "update", "add"}
Unpublishing == {"findOwn", "delete", "remove"}

Init ==
  /\ dns \in [Hosts -> {NoRecord} \cup
                [id : {1}, type : Types, content : OtherTargets \cup {Target},
                 ours : BOOLEAN, marked : BOOLEAN]]
  /\ \A h \in Hosts :
       dns[h] # NoRecord => /\ dns[h].marked = dns[h].ours
                            /\ dns[h].ours => dns[h].type = "CNAME"
  /\ created = 1
  /\ ingress \in SUBSET Hosts
  /\ pc = [w \in Workers |-> "idle"]
  /\ host \in [Workers -> Hosts]
  /\ given = [w \in Workers |-> {}]
  /\ lookup = [w \in Workers |-> 1]
  /\ found = [w \in Workers |-> NoRecord]
  /\ attempt = [w \in Workers |-> 0]
  /\ clean = [w \in Workers |-> TRUE]
  /\ result = [w \in Workers |-> "none"]
  /\ aimed = [w \in Workers |-> FALSE]
  /\ alone = [w \in Workers |-> FALSE]

-----------------------------------------------------------------------------
(* Moving a worker from one API call to the next.                          *)

Goto(w, call) ==
  /\ pc' = [pc EXCEPT ![w] = call]
  /\ attempt' = [attempt EXCEPT ![w] = 0]
  /\ UNCHANGED <<host, given, result, alone>>

Return(w, r) ==
  /\ pc' = [pc EXCEPT ![w] = "idle"]
  /\ result' = [result EXCEPT ![w] = r]
  /\ lookup' = [lookup EXCEPT ![w] = 1]
  /\ found' = [found EXCEPT ![w] = NoRecord]
  /\ attempt' = [attempt EXCEPT ![w] = 0]
  /\ clean' = [clean EXCEPT ![w] = TRUE]
  /\ aimed' = [aimed EXCEPT ![w] = FALSE]
  /\ UNCHANGED <<host, given, alone>>

\* Somebody touches h: whoever worked or works on it is no longer alone.
Disturbed(h) == [v \in Workers |-> alone[v] /\ host[v] # h]

\* A call with the arguments a, which starts with its first API call or, when
\* that is "idle", returns r without one.
Begin(w, h, a, call, r) ==
  /\ pc[w] = "idle"
  /\ pc' = [pc EXCEPT ![w] = call]
  /\ host' = [host EXCEPT ![w] = h]
  /\ given' = [given EXCEPT ![w] = a]
  /\ result' = [result EXCEPT ![w] = r]
  /\ alone' = [Disturbed(h) EXCEPT
                ![w] = \A v \in Workers \ {w} : pc[v] = "idle" \/ host[v] # h]
  /\ UNCHANGED <<cloud, lookup, found, attempt, clean, aimed>>

\* PublishWithOrigin needs all its arguments; it starts with EnsureRouteCNAME.
Publish(w, h, a) ==
  \/ a = Everything /\ Begin(w, h, a, "find", "none")
  \/ a # Everything /\ Begin(w, h, a, "idle", "error")

\* Without a client Unpublish reports so at once.  Without a zone id it leaves
\* DNS out, without a tunnel id the ingress, and notes neither.
Unpublish(w, h, a) ==
  \/ "client" \notin a /\ Begin(w, h, a, "idle", "leftovers")
  \/ {"client", "zone"} \subseteq a /\ Begin(w, h, a, "findOwn", "none")
  \/ a = {"client", "tunnel"} /\ Begin(w, h, a, "remove", "none")
  \/ a = {"client"} /\ Begin(w, h, a, "idle", "removed")

-----------------------------------------------------------------------------
(* EnsureRouteCNAME.                                                       *)

\* FindDNSRecord: the record of one type at the name.
Find(h, t) ==
  IF dns[h] # NoRecord /\ dns[h].type = t THEN dns[h] ELSE NoRecord

PointsHere(r) == r # NoRecord /\ r.type = "CNAME" /\ r.content = Target

\* Mutant of OwnedByUs: any record that points at a tunnel will do.
AnyTunnelRecord(r) == r # NoRecord /\ r.type = "CNAME"

OwnedByUs(r) == r # NoRecord /\ r.ours

\* Mutant of LookupFree: only the first conflicting type is looked at again
\* and again.
LookupAgain(w) ==
  /\ pc[w] = "find"
  /\ Find(host[w], ConflictTypes[lookup[w]]) = NoRecord
  /\ lookup' = [lookup EXCEPT ![w] = (@ % Len(ConflictTypes)) + 1]
  /\ Goto(w, "find")
  /\ UNCHANGED <<cloud, found, clean, aimed>>

\* One lookup of HostnameConflict finds nothing: go on with the next type, or
\* the name is free.
LookupFree(w) ==
  /\ pc[w] = "find"
  /\ Find(host[w], ConflictTypes[lookup[w]]) = NoRecord
  /\ IF lookup[w] < Len(ConflictTypes)
     THEN lookup' = [lookup EXCEPT ![w] = @ + 1] /\ Goto(w, "find")
     ELSE UNCHANGED lookup /\ Goto(w, "create")
  /\ UNCHANGED <<cloud, found, clean, aimed>>

\* A lookup finds a record: it already points here, or it is ours to move, or
\* the name is taken.
LookupTaken(w) ==
  LET r == Find(host[w], ConflictTypes[lookup[w]]) IN
  /\ pc[w] = "find"
  /\ r # NoRecord
  /\ \/ /\ PointsHere(r)
        /\ Goto(w, "add")
        /\ aimed' = [aimed EXCEPT ![w] = TRUE]
        /\ UNCHANGED <<lookup, found, clean>>
     \/ /\ ~PointsHere(r) /\ OwnedByUs(r) /\ r.type = "CNAME"
        /\ Goto(w, "update")
        /\ found' = [found EXCEPT ![w] = r]
        /\ UNCHANGED <<lookup, clean, aimed>>
     \/ /\ ~PointsHere(r) /\ ~(OwnedByUs(r) /\ r.type = "CNAME")
        /\ Return(w, "conflict")
  /\ UNCHANGED cloud

\* The effect of CreateDNSRecord on a free name.
PutNew(w) ==
  /\ dns[host[w]] = NoRecord
  /\ created < MaxRecords
  /\ created' = created + 1
  /\ dns' = [dns EXCEPT ![host[w]] =
               [id |-> created + 1, type |-> "CNAME", content |-> Target,
                ours |-> TRUE, marked |-> TRUE]]
  /\ UNCHANGED ingress

Create(w) ==
  /\ pc[w] = "create"
  /\ PutNew(w)
  /\ Goto(w, "add")
  /\ aimed' = [aimed EXCEPT ![w] = TRUE]
  /\ UNCHANGED <<lookup, found, clean>>

\* The name was taken since it was looked up: IsAlreadyExists.
AlreadyExists(w) ==
  /\ pc[w] = "create"
  /\ dns[host[w]] # NoRecord
  /\ Goto(w, "refind")
  /\ UNCHANGED <<cloud, lookup, found, clean, aimed>>

\* Whatever the second lookup answers, a record or none, counts as success.
Refind(w) ==
  /\ pc[w] = "refind"
  /\ Goto(w, "add")
  /\ aimed' = [aimed EXCEPT ![w] = PointsHere(Find(host[w], "CNAME"))]
  /\ UNCHANGED <<cloud, lookup, found, clean>>

\* The API finds a record by its id, so one created anew at the same name is
\* not it.
StillThere(w) ==
  dns[host[w]] # NoRecord /\ dns[host[w]].id = found[w].id

\* UpdateDNSRecord overwrites the record with the copy found, repointed.
Repoint(w) ==
  /\ StillThere(w)
  /\ dns' = [dns EXCEPT ![host[w]] = [found[w] EXCEPT !.content = Target]]
  /\ UNCHANGED <<created, ingress>>

\* Mutant of Update: the record found is sent back as it is.
UpdateUnchanged(w) ==
  /\ pc[w] = "update"
  /\ StillThere(w)
  /\ UNCHANGED cloud
  /\ Goto(w, "add")
  /\ aimed' = [aimed EXCEPT ![w] = TRUE]
  /\ UNCHANGED <<lookup, found, clean>>

Update(w) ==
  /\ pc[w] = "update"
  /\ Repoint(w)
  /\ Goto(w, "add")
  /\ aimed' = [aimed EXCEPT ![w] = TRUE]
  /\ UNCHANGED <<lookup, found, clean>>

\* AddRouteWithOrigin.
Claim(w) ==
  /\ ingress' = ingress \cup {host[w]}
  /\ UNCHANGED <<dns, created>>

AddRoute(w) ==
  /\ pc[w] = "add"
  /\ Claim(w)
  /\ Return(w, "published")

-----------------------------------------------------------------------------
(* Unpublish.                                                              *)

Report(ok) == IF ok THEN "removed" ELSE "leftovers"

\* Unpublish is through with DNS; ok says that it noted no problem.
DnsDone(w, ok) ==
  \/ /\ "tunnel" \in given[w]
     /\ Goto(w, "remove")
     /\ clean' = [clean EXCEPT ![w] = ok]
     /\ UNCHANGED <<lookup, found, aimed>>
  \/ "tunnel" \notin given[w] /\ Return(w, Report(ok))

\* Already gone, not ours to delete (a problem to report), or ours.
FindOwn(w) ==
  LET r == Find(host[w], "CNAME") IN
  /\ pc[w] = "findOwn"
  /\ \/ r = NoRecord /\ DnsDone(w, TRUE)
     \/ r # NoRecord /\ ~OwnedByUs(r) /\ DnsDone(w, FALSE)
     \/ r # NoRecord /\ OwnedByUs(r) /\ Goto(w, "delete")
          /\ found' = [found EXCEPT ![w] = r] /\ UNCHANGED <<lookup, clean, aimed>>
  /\ UNCHANGED cloud

\* DeleteDNSRecord, by id.
Erase(w) ==
  /\ StillThere(w)
  /\ dns' = [dns EXCEPT ![host[w]] = NoRecord]
  /\ UNCHANGED <<created, ingress>>

Delete(w) ==
  /\ pc[w] = "delete"
  /\ Erase(w)
  /\ DnsDone(w, TRUE)

\* RemoveRoute.
Disclaim(w) ==
  /\ ingress' = ingress \ {host[w]}
  /\ UNCHANGED <<dns, created>>

RemoveRoute(w) ==
  /\ pc[w] = "remove"
  /\ Disclaim(w)
  /\ Return(w, Report(clean[w]))

-----------------------------------------------------------------------------
(* Calls that do not come back as they should.                             *)

\* What the call a worker is making does on the other side.
Effect(w) ==
  \/ pc[w] = "create" /\ PutNew(w)
  \/ pc[w] = "update" /\ Repoint(w)
  \/ pc[w] = "delete" /\ Erase(w)
  \/ pc[w] = "add" /\ Claim(w)
  \/ pc[w] = "remove" /\ Disclaim(w)

Retry(w) ==
  /\ pc[w] # "idle"
  /\ attempt[w] < MaxRetries
  /\ attempt' = [attempt EXCEPT ![w] = @ + 1]
  /\ Effect(w) \/ UNCHANGED cloud
  /\ UNCHANGED <<pc, host, given, lookup, found, clean, result, aimed, alone>>

\* Mutant of Fail: a failed DNS call is not noted.
FailQuietly(w) ==
  /\ Effect(w) \/ UNCHANGED cloud
  /\ \/ pc[w] \in Publishing /\ Return(w, "error")
     \/ pc[w] \in {"findOwn", "delete"} /\ DnsDone(w, TRUE)
     \/ pc[w] = "remove" /\ Return(w, "leftovers")

\* A failed call ends Publish.  It is a problem Unpublish notes, and only its
\* last call ends it.
Fail(w) ==
  /\ Effect(w) \/ UNCHANGED cloud
  /\ \/ pc[w] \in Publishing /\ Return(w, "error")
     \/ pc[w] \in {"findOwn", "delete"} /\ DnsDone(w, FALSE)
     \/ pc[w] = "remove" /\ Return(w, "leftovers")

-----------------------------------------------------------------------------
(* The zone's owner, in the dashboard.                                     *)

OutsiderCreates(h) ==
  /\ "create" \in Outsider
  /\ dns[h] = NoRecord
  /\ created < MaxRecords
  /\ created' = created + 1
  /\ \E t \in Types, c \in OtherTargets :
       dns' = [dns EXCEPT ![h] = [id |-> created + 1, type |-> t, content |-> c,
                                  ours |-> FALSE, marked |-> FALSE]]
  /\ UNCHANGED ingress

OutsiderEdits(h) ==
  /\ "edit" \in Outsider
  /\ dns[h] # NoRecord
  /\ \E c \in OtherTargets :
       dns' = [dns EXCEPT ![h].content = c, ![h].ours = FALSE]
  /\ UNCHANGED <<created, ingress>>

OutsiderDeletes(h) ==
  /\ "delete" \in Outsider
  /\ dns[h] # NoRecord
  /\ dns' = [dns EXCEPT ![h] = NoRecord]
  /\ UNCHANGED <<created, ingress>>

Outside(h) ==
  /\ OutsiderCreates(h) \/ OutsiderEdits(h) \/ OutsiderDeletes(h)
  /\ alone' = Disturbed(h)
  /\ UNCHANGED locals

-----------------------------------------------------------------------------
Step(w) ==
  \/ LookupFree(w) \/ LookupTaken(w)
  \/ Create(w) \/ AlreadyExists(w) \/ Refind(w) \/ Update(w) \/ AddRoute(w)
  \/ FindOwn(w) \/ Delete(w) \/ RemoveRoute(w)
  \/ Retry(w) \/ Fail(w)

Next ==
  \/ \E w \in Workers, h \in Hosts, a \in Arguments : Publish(w, h, a) \/ Unpublish(w, h, a)
  \/ \E w \in Workers : Step(w)
  \/ \E h \in Hosts : Outside(h)

\* Every API call is bounded by a context with a timeout.
Spec == Init /\ [][Next]_vars /\ \A w \in Workers : WF_vars(Step(w))

-----------------------------------------------------------------------------
TypeOK ==
  /\ dns \in [Hosts -> Record \cup {NoRecord}]
  /\ created \in 1..MaxRecords
  /\ ingress \subseteq Hosts
  /\ pc \in [Workers -> Publishing \cup Unpublishing \cup {"idle"}]
  /\ host \in [Workers -> Hosts]
  /\ given \in [Workers -> SUBSET Everything]
  /\ lookup \in [Workers -> DOMAIN ConflictTypes]
  /\ found \in [Workers -> Record \cup {NoRecord}]
  /\ attempt \in [Workers -> 0..MaxRetries]
  /\ clean \in [Workers -> BOOLEAN]
  /\ result \in [Workers -> {"none", "published", "removed", "conflict",
                             "error", "leftovers"}]
  /\ aimed \in [Workers -> BOOLEAN]
  /\ alone \in [Workers -> BOOLEAN]

\* A record that never carried QuickFlare's comment is never overwritten,
\* repointed or deleted by it, whatever the zone's owner and other workers do
\* between the check and the call (dns.go's OwnedByUs, ARCHITECTURE.md 4).
ForeignRecordsUntouched ==
  [][ \/ \E h \in Hosts : Outside(h)
      \/ \A h \in Hosts :
           dns[h] # NoRecord /\ dns'[h] # dns[h] => dns[h].marked ]_dns

\* Publish that returns nil means the hostname works, for as long as nobody
\* else touches it: DNS names the tunnel and the ingress maps the hostname,
\* however many of its calls were lost and sent again.
PublishedIsReachable ==
  \A w \in Workers :
    result[w] = "published" /\ alone[w] =>
      PointsHere(dns[host[w]]) /\ host[w] \in ingress

\* No CNAME of ours is at h.
NoneOfOurs(h) == dns[h] # NoRecord /\ dns[h].type = "CNAME" => ~dns[h].ours

\* An empty slice from Unpublish means everything went that it had the id for:
\* no record of ours when it was given the zone, no ingress rule when it was
\* given the tunnel, for as long as nobody interferes and however many of its
\* calls were lost and sent again; and it had a client to ask.
RemovedIsGone ==
  \A w \in Workers :
    result[w] = "removed" /\ alone[w] =>
      /\ "client" \in given[w]
      /\ "zone" \in given[w] => NoneOfOurs(host[w])
      /\ "tunnel" \in given[w] => host[w] \notin ingress

\* What provision.go:102 says of an empty slice: everything went.  It is not so
\* when an id was empty.
EmptyMeansGone ==
  \A w \in Workers :
    result[w] = "removed" /\ alone[w] => NoneOfOurs(host[w]) /\ host[w] \notin ingress

\* Publish never claims a hostname in the ingress while the name points
\* somewhere else, as far as it can know: it saw the name aimed at the tunnel
\* after it began, and a hostname that answers for something else is reported.
ClaimsOnlyAimedNames ==
  \A w \in Workers : pc[w] = "add" => aimed[w]

\* Publish and Unpublish always come back.
CallsReturn == \A w \in Workers : (pc[w] # "idle") ~> (pc[w] = "idle")
=============================================================================
