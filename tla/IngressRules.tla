---------------------------- MODULE IngressRules ----------------------------
(***************************************************************************)
(* The routing document of a remotely managed tunnel and the pure          *)
(* functions internal/cloudflare/tunnel.go applies to it.                  *)
(*                                                                         *)
(* A document is a sequence of rules.  Order matters to cloudflared, so it *)
(* is kept.  A rule's known fields are folded into three: the hostname,    *)
(* the path, and "service", which stands for the service together with the *)
(* origin settings the application understands.  "extra" stands for the    *)
(* origin settings the API stores but the Go struct has no field for.      *)
(***************************************************************************)
EXTENDS Sequences, Naturals

CONSTANTS
  Hosts,            \* hostnames as they are spelled
  NoHost,           \* the empty hostname
  Fold,             \* the case-folded form of every hostname
  Paths,            \* non-empty path patterns
  NoPath,           \* the empty path
  Services,         \* local services a rule can name
  CatchAllService,  \* http_status:404
  Extras,           \* origin settings outside the Go struct
  NoExtra           \* none of them set

ASSUME HostsAssumption ==
  /\ NoHost \notin Hosts
  /\ Fold \in [Hosts \cup {NoHost} -> Hosts \cup {NoHost}]
  /\ \A h \in Hosts : Fold[h] # NoHost
  /\ Fold[NoHost] = NoHost

ASSUME FieldsAssumption ==
  /\ NoPath \notin Paths
  /\ NoExtra \notin Extras
  /\ CatchAllService \notin Services

Rule == [host    : Hosts \cup {NoHost},
         path    : Paths \cup {NoPath},
         service : Services \cup {CatchAllService},
         extra   : Extras \cup {NoExtra}]

NewRule(h, s) ==
  [host |-> h, path |-> NoPath, service |-> s, extra |-> NoExtra]

CatchAll == NewRule(NoHost, CatchAllService)

\* Mutant of EqualFold: hostnames compared as they are spelled.
SameSpelling(g, h) == g = h

\* strings.EqualFold on hostnames.
EqualFold(g, h) == Fold[g] = Fold[h]

IsCatchAll(r) == r.host = NoHost /\ r.path = NoPath

\* What json.Unmarshal keeps of a document: a field the struct does not name
\* is dropped.
Decode(doc) == [i \in DOMAIN doc |-> [doc[i] EXCEPT !.extra = NoExtra]]

\* What a loop over the rules appends that keeps those in S: SelectSeq, in a
\* form one can reason about.
Kept(rules, S) ==
  LET kept[n \in 0..Len(rules)] ==
        IF n = 0 THEN <<>>
        ELSE IF rules[n] \in S THEN Append(kept[n-1], rules[n]) ELSE kept[n-1]
  IN  kept[Len(rules)]

\* Mutant of StripCatchAll: every rule without a hostname goes.
StripHostless(rules) == Kept(rules, {r \in Rule : r.host # NoHost})

StripCatchAll(rules) == Kept(rules, {r \in Rule : ~IsCatchAll(r)})

\* Mutant of NormalizeIngress: the catch-all is not put back.
NormalizeBare(rules) == StripCatchAll(rules)

NormalizeIngress(rules) == Append(StripCatchAll(rules), CatchAll)

WithoutHost(rules, h) == Kept(rules, {r \in Rule : ~EqualFold(r.host, h)})

-----------------------------------------------------------------------------
(* The two mutations callers pass to UpdateIngress.                        *)

Op == [kind : {"add"}, host : Hosts, service : Services]
        \cup [kind : {"remove"}, host : Hosts]

Mutate(o, rules) ==
  IF o.kind = "add"
  THEN Append(WithoutHost(rules, o.host), NewRule(o.host, o.service))
  ELSE WithoutHost(rules, o.host)

\* One whole UpdateIngress, as if nothing ran beside it.
UpdateOf(o, doc) ==
  NormalizeIngress(Mutate(o, StripCatchAll(Decode(doc))))

\* The rules of a document that concern one hostname, in order.
RulesFor(doc, h) == Kept(doc, {r \in Rule : EqualFold(r.host, h)})
=============================================================================
