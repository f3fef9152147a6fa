-------------------------- MODULE MCIngressUpdate ---------------------------
(* Small instances of IngressUpdate: two spellings of one hostname, a      *)
(* second hostname, one path rule.                                         *)
EXTENDS IngressUpdate, TLC

MCHosts == {"app", "APP", "db"}
MCFold == ("app" :> "app") @@ ("APP" :> "app") @@ ("db" :> "db") @@ ("" :> "")

R(h, p, s, x) == [host |-> h, path |-> p, service |-> s, extra |-> x]

\* An empty tunnel, and one somebody already edited by hand.
MCInitialDocs ==
  { <<R("", "", "404", "-")>>,
    <<R("APP", "", "s1", "-"), R("db", "/x", "s1", "-"), R("", "/y", "s1", "-"),
      R("", "", "404", "-")>> }

\* A tunnel whose rule carries an origin setting QuickFlare does not know.
MCForeignDocs ==
  { <<R("db", "", "s1", "proxyType"), R("", "", "404", "-")>> }

MCOneClient == [w \in Workers |-> "c1"]
MCTwoClients == ("w1" :> "c1") @@ ("w2" :> "c2")
=============================================================================
