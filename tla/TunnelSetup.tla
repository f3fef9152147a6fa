----------------------------- MODULE TunnelSetup -----------------------------
(***************************************************************************)
(* Every cloudflared process of the application, from the handler that     *)
(* wants it to the exit that has to take it along.                         *)
(*                                                                         *)
(* ensureTunnel starts a generation: a goroutine that asks Cloudflare for  *)
(* the tunnel, starts a supervised connector and hands it to the Gio loop  *)
(* by a post.  A newer generation, or a pause, supersedes it meanwhile.    *)
(* startQuick does the same for an anonymous link.  What is started is     *)
(* registered with the closers, which Shutdown runs once, on the tray's    *)
(* goroutine.  A connector is the one Connector promises and Supervisor    *)
(* implements; the process of a quick link lives at most once.             *)
(***************************************************************************)
EXTENDS Naturals, Sequences

CONSTANTS
  MaxGen,    \* bound on the tunnel generations
  Quicks,    \* quick links the user opens
  PostCap,   \* capacity of the post channel (32 in the code)
  Env        \* what may go wrong

Gens == 1..MaxGen

\* Generations and links are told apart by their type.
Procs == Gens \X {"tunnel"} \cup Quicks \X {"quick"}

Tun(g) == <<g, "tunnel">>

Link(q) == <<q, "quick">>

ASSUME SetupAssumption ==
  /\ MaxGen \in Nat /\ PostCap \in Nat
  \* The channel may be full; a process may not be in the job when the
  \* application exits: the job could not be set up, or not be given the
  \* process yet.
  /\ Env \subseteq {"full", "jobless"}

VARIABLES
  phase,     \* "up", "quitting", "closed" after the closers ran, "down"
  client,    \* cf # nil
  disabled,  \* routes are paused
  gen,       \* tunnelGen
  tunnel,    \* the generation whose connector p.tunnel is, or 0 for nil
  cut,       \* generations whose setup's context has ended
  setup,     \* where each generation's goroutine is
  entry,     \* Status of each quick entry, "none" before, "removed" after
  opening,   \* where each link's goroutine is
  posts,     \* the post channel
  closers,   \* p.closers
  life,      \* a connector or link: "new", "running", "stopped"
  process    \* its process exists

panel == <<client, disabled, gen, tunnel>>
tasks == <<cut, setup, opening>>
procs == <<life, process>>
vars == <<phase, panel, tasks, entry, posts, closers, procs>>

Post ==
  [kind : {"verified", "pause", "resume", "reload"}]
    \cup [kind : {"ready"}, gen : Gens]
    \cup [kind : {"opened", "failed"}, quick : Quicks]

Init ==
  /\ phase = "up"
  /\ client = FALSE /\ disabled \in BOOLEAN
  /\ gen = 0 /\ tunnel = 0 /\ cut = {}
  /\ setup = [g \in Gens |-> "none"]
  /\ entry = [q \in Quicks |-> "none"]
  /\ opening = [q \in Quicks |-> "none"]
  /\ posts = <<>> /\ closers = {}
  /\ life = [p \in Procs |-> "new"]
  /\ process = [p \in Procs |-> FALSE]

-----------------------------------------------------------------------------
(* Small steps the handlers share.                                         *)

\* dispatch drops what a full channel cannot take.  Without "full" the channel's
\* 32 places are taken to be enough: the poster waits where PostCap has fewer.
Dispatch(p) ==
  IF Len(posts) < PostCap
  THEN posts' = Append(posts, p)
  ELSE "full" \in Env /\ UNCHANGED posts

\* Tunnel.Stop, Quick.Close and QuickEntry.close: a context is cancelled.
Stopped(ps) ==
  [p \in Procs |->
     IF p \in ps /\ life[p] = "running" THEN "stopped" ELSE life[p]]

Installed == {Tun(g) : g \in {tunnel} \cap Gens}

\* Mutant of EnsureTunnel: the previous connector is left to its generation.
EnsureTunnelBeside ==
  /\ gen < MaxGen
  /\ gen' = gen + 1
  /\ cut' = cut \cup ({gen} \cap Gens)
  /\ tunnel' = 0
  /\ life' = life
  /\ setup' = [setup EXCEPT ![gen'] = "calls"]

\* ensureTunnel, with a client and while routes are not paused.
EnsureTunnel ==
  /\ gen < MaxGen
  /\ gen' = gen + 1
  /\ cut' = cut \cup ({gen} \cap Gens)
  /\ tunnel' = 0
  /\ life' = Stopped(Installed)
  /\ setup' = [setup EXCEPT ![gen'] = "calls"]

-----------------------------------------------------------------------------
(* The setup goroutine of a generation.                                    *)

\* FindOrCreateTunnel and TunnelToken answer, or fail, or time out; then the
\* context is looked at for the last time.
Calls(g) ==
  /\ setup[g] = "calls"
  /\ \/ g \notin cut /\ setup' = [setup EXCEPT ![g] = "start"]
     \/ setup' = [setup EXCEPT ![g] = "over"]
  /\ UNCHANGED <<phase, panel, cut, opening, entry, posts, closers, procs>>

\* sup.Start.
StartConnector(g) ==
  /\ setup[g] = "start"
  /\ setup' = [setup EXCEPT ![g] = "register"]
  /\ life' = [life EXCEPT ![Tun(g)] = "running"]
  /\ UNCHANGED <<phase, panel, cut, opening, entry, posts, closers, process>>

\* Mutant of Register: only the panel knows the connector.
RegisterNothing(g) ==
  /\ setup[g] = "register"
  /\ setup' = [setup EXCEPT ![g] = "answer"]
  /\ closers' = closers
  /\ UNCHANGED <<phase, panel, cut, opening, entry, posts, procs>>

Register(g) ==
  /\ setup[g] = "register"
  /\ setup' = [setup EXCEPT ![g] = "answer"]
  /\ closers' = closers \cup {Tun(g)}
  /\ UNCHANGED <<phase, panel, cut, opening, entry, posts, procs>>

Answer(g) ==
  /\ setup[g] = "answer"
  /\ setup' = [setup EXCEPT ![g] = "over"]
  /\ Dispatch([kind |-> "ready", gen |-> g])
  /\ UNCHANGED <<phase, panel, cut, opening, entry, closers, procs>>

-----------------------------------------------------------------------------
(* The goroutine of a quick link: StartQuick, then its post.               *)

\* cmd.Start, which refuses a cancelled context.
OpenLink(q) ==
  /\ opening[q] = "start"
  /\ \/ /\ life[Link(q)] = "running"
        /\ opening' = [opening EXCEPT ![q] = "wait"]
        /\ process' = [process EXCEPT ![Link(q)] = TRUE]
     \/ /\ opening' = [opening EXCEPT ![q] = "failed"]
        /\ UNCHANGED process
  /\ UNCHANGED <<phase, panel, cut, setup, entry, posts, closers, life>>

\* The address was found.
LinkFound(q) ==
  /\ opening[q] = "wait" /\ process[Link(q)]
  /\ opening' = [opening EXCEPT ![q] = "opened"]
  /\ UNCHANGED <<phase, panel, cut, setup, entry, posts, closers, procs>>

\* Mutant of LinkGivenUp: a link that took too long is left alone.
LinkForgotten(q) ==
  /\ opening[q] = "wait"
  /\ opening' = [opening EXCEPT ![q] = "failed"]
  /\ life' = life
  /\ UNCHANGED <<phase, panel, cut, setup, entry, posts, closers, process>>

\* The process ended, the entry was closed, or the wait timed out: Close.
LinkGivenUp(q) ==
  /\ opening[q] = "wait"
  /\ opening' = [opening EXCEPT ![q] = "failed"]
  /\ life' = Stopped({Link(q)})
  /\ UNCHANGED <<phase, panel, cut, setup, entry, posts, closers, process>>

LinkAnswers(q, outcome) ==
  /\ opening[q] = outcome
  /\ opening' = [opening EXCEPT ![q] = "over"]
  /\ Dispatch([kind |-> outcome, quick |-> q])
  /\ UNCHANGED <<phase, panel, cut, setup, entry, closers, procs>>

-----------------------------------------------------------------------------
(* Processes.                                                              *)

\* Mutant of Spawn: a connector that was stopped starts one more process.
SpawnOnceMore(g) ==
  /\ life[Tun(g)] # "new" /\ ~process[Tun(g)]
  /\ process' = [process EXCEPT ![Tun(g)] = TRUE]
  /\ UNCHANGED <<phase, panel, tasks, entry, posts, closers, life>>

\* A running connector starts its process, and starts it again when it ended.
\* superviseProcess is part of the step: an exit between cmd.Start and it is the
\* exit of "jobless".  A stop between cmd.Start's look at the context and its
\* return is felt when it returns, as Supervisor shows, and comes after the step.
Spawn(g) ==
  /\ life[Tun(g)] = "running" /\ ~process[Tun(g)]
  /\ process' = [process EXCEPT ![Tun(g)] = TRUE]
  /\ UNCHANGED <<phase, panel, tasks, entry, posts, closers, life>>

\* A process ends of its own accord, or because its context was cancelled.
Ends(p) ==
  /\ process[p] /\ phase # "down"
  /\ process' = [process EXCEPT ![p] = FALSE]
  /\ UNCHANGED <<phase, panel, tasks, entry, posts, closers, life>>

-----------------------------------------------------------------------------
(* The Gio loop: closures and clicks.                                      *)

Run(kind) ==
  /\ phase # "down"
  /\ posts # <<>> /\ Head(posts).kind = kind
  /\ posts' = Tail(posts)

\* The closure that ends a verification.
RunVerified ==
  /\ Run("verified")
  /\ client' = TRUE
  /\ IF disabled
     THEN UNCHANGED <<gen, tunnel, cut, setup, life>>
     ELSE EnsureTunnel
  /\ UNCHANGED <<phase, disabled, opening, entry, closers, process>>

\* ReloadFromDisk: a tunnel that is there is set up anew.
RunReload ==
  /\ Run("reload")
  /\ IF ~disabled /\ tunnel # 0
     THEN EnsureTunnel
     ELSE UNCHANGED <<gen, tunnel, cut, setup, life>>
  /\ UNCHANGED <<phase, client, disabled, opening, entry, closers, process>>

\* setDisabled(true), when routes are not paused already.
RunPause ==
  /\ Run("pause")
  /\ disabled' = TRUE
  /\ IF disabled
     THEN UNCHANGED <<tunnel, life>>
     ELSE tunnel' = 0 /\ life' = Stopped(Installed)
  /\ UNCHANGED <<phase, client, gen, tasks, entry, closers, process>>

\* setDisabled(false), when they are paused.
RunResume ==
  /\ Run("resume")
  /\ disabled' = FALSE
  /\ IF disabled /\ client
     THEN EnsureTunnel
     ELSE UNCHANGED <<gen, tunnel, cut, setup, life>>
  /\ UNCHANGED <<phase, client, opening, entry, closers, process>>

\* The connector of a generation is installed, or stopped if it is unwanted.
RunReady ==
  LET g == Head(posts).gen IN
  /\ Run("ready")
  /\ IF gen # g \/ disabled
     THEN life' = Stopped({Tun(g)}) /\ UNCHANGED tunnel
     ELSE tunnel' = g /\ UNCHANGED life
  /\ UNCHANGED <<phase, client, disabled, gen, tasks, entry, closers, process>>

\* A link is open, or could not be; its entry may be gone from the list.
RunLink(outcome) ==
  LET q == Head(posts).quick IN
  /\ Run(outcome)
  /\ entry' = [entry EXCEPT ![q] = IF @ = "removed" THEN @ ELSE outcome]
  /\ UNCHANGED <<phase, panel, tasks, closers, procs>>

\* startQuick.
StartQuick(q) ==
  /\ phase # "down"
  /\ entry[q] = "none"
  /\ entry' = [entry EXCEPT ![q] = "starting"]
  /\ opening' = [opening EXCEPT ![q] = "start"]
  /\ life' = [life EXCEPT ![Link(q)] = "running"]
  /\ closers' = closers \cup {Link(q)}
  /\ UNCHANGED <<phase, panel, cut, setup, posts, process>>

\* Mutant of CloseQuick: only a link that has opened is closed.
CloseOpened(qs) ==
  /\ phase # "down"
  /\ \A q \in qs : entry[q] \in {"starting", "opened", "failed"}
  /\ entry' = [q \in Quicks |-> IF q \in qs THEN "removed" ELSE entry[q]]
  /\ life' = Stopped({Link(q) : q \in {x \in qs : entry[x] = "opened"}})
  /\ UNCHANGED <<phase, panel, tasks, posts, closers, process>>

\* stopQuick, or stopAllQuick when the window is destroyed.
CloseQuick(qs) ==
  /\ phase # "down"
  /\ \A q \in qs : entry[q] \in {"starting", "opened", "failed"}
  /\ entry' = [q \in Quicks |-> IF q \in qs THEN "removed" ELSE entry[q]]
  /\ life' = Stopped({Link(q) : q \in qs})
  /\ UNCHANGED <<phase, panel, tasks, posts, closers, process>>

-----------------------------------------------------------------------------
(* The user, the network and the exit.                                     *)

\* startVerify's goroutine answers; SetDisabled and ReloadFromDisk are called
\* from the tray or by IPC.  One of each at a time is a bound.
Asked(kind) ==
  /\ phase # "down"
  /\ \A i \in DOMAIN posts : posts[i].kind # kind
  /\ Dispatch([kind |-> kind])
  /\ UNCHANGED <<phase, panel, tasks, entry, closers, procs>>

\* Shutdown begins; the deletion worker is waited for.
Quit ==
  /\ phase = "up"
  /\ phase' = "quitting"
  /\ UNCHANGED <<panel, tasks, entry, posts, closers, procs>>

\* The closers registered so far are taken and run.
RunClosers ==
  /\ phase = "quitting"
  /\ phase' = "closed"
  /\ closers' = {}
  /\ life' = Stopped(closers)
  /\ UNCHANGED <<panel, tasks, entry, posts, process>>

\* os.Exit.  Every process is bound to the job right after its start, if there
\* is a job, and the kernel kills what is bound.  Without one, a process whose
\* context was cancelled is killed only if its goroutine got that far.
Exit ==
  /\ phase = "closed"
  /\ phase' = "down"
  /\ process' = [p \in Procs |-> "jobless" \in Env /\ process[p]]
  /\ UNCHANGED <<panel, tasks, entry, posts, closers, life>>

SetupStep(g) == Calls(g) \/ StartConnector(g) \/ Register(g) \/ Answer(g)

LinkStep(q) ==
  \/ OpenLink(q) \/ LinkFound(q) \/ LinkGivenUp(q)
  \/ LinkAnswers(q, "opened") \/ LinkAnswers(q, "failed")

LoopStep ==
  \/ RunVerified \/ RunReload \/ RunPause \/ RunResume \/ RunReady
  \/ RunLink("opened") \/ RunLink("failed")

Stay == phase = "down" /\ UNCHANGED vars

Next ==
  \/ phase # "down" /\ \/ \E g \in Gens : SetupStep(g) \/ Spawn(g)
                       \/ \E q \in Quicks : LinkStep(q)
  \/ \E p \in Procs : Ends(p)
  \/ LoopStep
  \/ \E q \in Quicks : StartQuick(q)
  \/ \E qs \in SUBSET Quicks \ {{}} : CloseQuick(qs)
  \/ \E kind \in {"verified", "pause", "resume", "reload"} : Asked(kind)
  \/ Quit \/ RunClosers \/ Exit \/ Stay

\* Goroutines are scheduled, their calls end, and a cancelled process is
\* killed, as long as the application runs.
Fairness ==
  /\ \A g \in Gens : WF_vars(phase # "down" /\ SetupStep(g))
  /\ \A q \in Quicks : WF_vars(phase # "down" /\ LinkStep(q))
  /\ \A p \in Procs : WF_vars(life[p] = "stopped" /\ Ends(p))

Spec == Init /\ [][Next]_vars /\ Fairness

-----------------------------------------------------------------------------
PanelTypes ==
  /\ phase \in {"up", "quitting", "closed", "down"}
  /\ client \in BOOLEAN /\ disabled \in BOOLEAN
  /\ gen \in 0..MaxGen /\ tunnel \in 0..MaxGen

TaskTypes ==
  /\ cut \subseteq Gens
  /\ setup \in [Gens -> {"none", "calls", "start", "register", "answer", "over"}]
  /\ opening \in [Quicks -> {"none", "start", "wait", "opened", "failed", "over"}]
  /\ entry \in [Quicks -> {"none", "starting", "opened", "failed", "removed"}]
  /\ posts \in Seq(Post) /\ Len(posts) <= PostCap

ProcTypes ==
  /\ closers \subseteq Procs
  /\ life \in [Procs -> {"new", "running", "stopped"}]
  /\ process \in [Procs -> BOOLEAN]

TypeOK == PanelTypes /\ TaskTypes /\ ProcTypes

\* The goroutine of a generation, or its post, still has to settle what becomes
\* of its connector.
InFlight(g) ==
  \/ setup[g] \in {"register", "answer"}
  \/ \E i \in DOMAIN posts : posts[i] = [kind |-> "ready", gen |-> g]

\* A connector runs because it is the installed one of the newest generation,
\* and routes are not paused; or else its fate is still to be settled.  So a
\* re-verification, a pause and a resume, however they overlap, leave no
\* connector behind (ensureTunnel's comment: without stopping the previous one
\* "every re-verify left another cloudflared running").
NoStrayConnector ==
  \A g \in Gens :
    life[Tun(g)] = "running" =>
      InFlight(g) \/ (tunnel = g /\ gen = g /\ ~disabled)

\* The process of a quick link is one the user can see and close, or is being
\* killed: closing an entry that is still opening, and a link that took too
\* long, leave nothing behind.
LinksAreListed ==
  \A q \in Quicks :
    process[Link(q)] =>
      life[Link(q)] = "stopped" \/ entry[q] \in {"starting", "opened"}

\* Closing an entry revokes its link: the process ends and none follows.
ClosedLinkDies ==
  \A q \in Quicks :
    (entry[q] = "removed") ~> (phase = "down" \/ [](~process[Link(q)]))

\* What was started and not stopped is known to the closers, but for the moment
\* between a connector's start and its registration, until they have run.
ClosersKnowAll ==
  phase \in {"up", "quitting"} =>
    \A p \in Procs :
      life[p] = "running" =>
        p \in closers \/ \E g \in Gens : p = Tun(g) /\ setup[g] = "register"

Conn(p) == INSTANCE Connector WITH life <- life[p], process <- process[p]

\* What the panel relies on and does with its connectors is what a connector
\* promises.
ConnectorsKeepPromise ==
  [][phase' # "down" =>
       \A p \in Procs : [Conn(p)!Next]_<<life[p], process[p]>>]_vars

\* "Shutdown stops every cloudflared process QuickFlare started."
QuitLeavesNothing == phase = "down" => \A p \in Procs : ~process[p]
=============================================================================
