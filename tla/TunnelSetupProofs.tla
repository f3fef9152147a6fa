--------------------------- MODULE TunnelSetupProofs ---------------------------
(***************************************************************************)
(* No cloudflared is left that nobody will stop: proofs for any number of  *)
(* generations and quick links and any capacity of the post channel.       *)
(***************************************************************************)
EXTENDS TunnelSetup, SequenceTheorems, TLAPS

-----------------------------------------------------------------------------
(* The inductive invariant.                                                *)

\* A closure waits in the channel.
Pending(p) == \E i \in DOMAIN posts : posts[i] = p

Ready(g) == [kind |-> "ready", gen |-> g]

Reply(q, outcome) == [kind |-> outcome, quick |-> q]

\* Generations begin in their order, and each starts its connector once.
BegunInOrder ==
  \A g \in Gens :
    /\ g > gen => setup[g] = "none"
    /\ setup[g] \in {"none", "calls", "start"} => life[Tun(g)] = "new"

\* What is installed is the newest generation, while routes are not paused.
InstalledIsNewest == tunnel # 0 => tunnel = gen /\ ~disabled

\* The entry of a link is made with its goroutine and its context, and its
\* goroutine replies once.
LinkBegun(q) ==
  /\ entry[q] = "none" <=> opening[q] = "none"
  /\ entry[q] = "none" <=> life[Link(q)] = "new"
  /\ opening[q] # "over" =>
       /\ entry[q] \in {"none", "starting", "removed"}
       /\ ~Pending(Reply(q, "opened")) /\ ~Pending(Reply(q, "failed"))

\* No process before the goroutine starts it, and none that goes on when the
\* link is known to have failed, or was closed.
LinkEnds(q) ==
  /\ opening[q] \in {"none", "start"} => ~process[Link(q)]
  /\ entry[q] = "removed" => life[Link(q)] = "stopped"
  /\ opening[q] = "failed" \/ Pending(Reply(q, "failed")) \/ entry[q] = "failed" =>
       ~process[Link(q)] \/ life[Link(q)] = "stopped"

Main ==
  /\ BegunInOrder /\ InstalledIsNewest
  /\ \A q \in Quicks : LinkBegun(q) /\ LinkEnds(q)
  /\ ClosersKnowAll

IInv == TypeOK /\ Main

-----------------------------------------------------------------------------
(* Names of processes, and what stopping some of them does.                *)

\* Connectors and links are processes, and each has its own.
LEMMA ProcNames ==
  /\ \A g \in Gens : Tun(g) \in Procs
  /\ \A q \in Quicks : Link(q) \in Procs
  /\ \A g, h \in Gens : Tun(g) = Tun(h) => g = h
  /\ \A q, r \in Quicks : Link(q) = Link(r) => q = r
  /\ \A g \in Gens, q \in Quicks : Tun(g) # Link(q)
  /\ \A p \in Procs : (\E g \in Gens : p = Tun(g)) \/ (\E q \in Quicks : p = Link(q))
BY DEF Procs, Tun, Link

\* Only what runs can be stopped.
LEMMA StoppedLife ==
  ASSUME ProcTypes, NEW ps
  PROVE  /\ Stopped(ps) \in [Procs -> {"new", "running", "stopped"}]
         /\ \A p \in Procs :
              /\ Stopped(ps)[p] \in {life[p], "stopped"}
              /\ Stopped(ps)[p] # life[p] => p \in ps /\ life[p] = "running"
              /\ p \in ps => Stopped(ps)[p] # "running"
              /\ Stopped(ps)[p] = "new" <=> life[p] = "new"
              /\ life[p] = "stopped" => Stopped(ps)[p] = "stopped"
BY DEF ProcTypes, Stopped

-----------------------------------------------------------------------------
(* The post channel.                                                       *)

PostsType == posts \in Seq(Post) /\ Len(posts) <= PostCap

\* What is dispatched is pending, unless a full channel dropped it, and nothing
\* else changes.
LEMMA Dispatched ==
  ASSUME NEW p \in Post, PostsType, Dispatch(p)
  PROVE  /\ PostsType'
         /\ \A r : Pending(r) => Pending(r)'
         /\ \A r : Pending(r)' => Pending(r) \/ r = p
         /\ "full" \notin Env => Pending(p)'
<1>1. CASE Len(posts) < PostCap
  <2>1. posts' = Append(posts, p)
    BY <1>1 DEF Dispatch
  <2>2. posts' \in Seq(Post) /\ Len(posts') = Len(posts) + 1 /\ Len(posts) \in Nat
    BY <2>1, AppendProperties, LenProperties DEF PostsType
  <2>3. PostsType'
    BY <1>1, <2>2, SetupAssumption DEF PostsType
  <2>4. /\ \A i \in 1..Len(posts) : posts'[i] = posts[i]
        /\ posts'[Len(posts) + 1] = p
    BY <2>1, AppendProperties DEF PostsType
  <2>5. DOMAIN posts = 1..Len(posts) /\ DOMAIN posts' = 1..Len(posts')
    BY <2>2, LenProperties DEF PostsType
  <2> QED
    BY <2>2, <2>3, <2>4, <2>5 DEF Pending
<1>2. CASE ~(Len(posts) < PostCap)
  BY <1>2 DEF Dispatch, PostsType, Pending
<1> QED
  BY <1>1, <1>2

\* A closure that is taken was pending, and the others still are.
LEMMA Taken ==
  ASSUME PostsType, posts # <<>>, posts' = Tail(posts)
  PROVE  /\ PostsType' /\ Head(posts) \in Post /\ Pending(Head(posts))
         /\ \A r : Pending(r)' => Pending(r)
         /\ \A r : Pending(r) => Pending(r)' \/ r = Head(posts)
<1>1. /\ Tail(posts) \in Seq(Post) /\ Len(Tail(posts)) = Len(posts) - 1
      /\ Len(posts) \in Nat \ {0}
      /\ DOMAIN posts = 1..Len(posts) /\ DOMAIN Tail(posts) = 1..(Len(posts) - 1)
  BY HeadTailProperties, EmptySeq, LenProperties DEF PostsType
<1>2. /\ Head(posts) = posts[1] /\ Head(posts) \in Post
      /\ \A i \in 1..(Len(posts) - 1) : Tail(posts)[i] = posts[i + 1]
  BY HeadTailProperties DEF PostsType
<1>3. PostsType'
  BY <1>1, SetupAssumption DEF PostsType
<1>4. \A r : Pending(r)' => Pending(r)
  BY <1>1, <1>2 DEF Pending
<1>5. Pending(Head(posts))
  BY <1>1, <1>2 DEF Pending
<1>6. ASSUME NEW r, Pending(r), r # Head(posts) PROVE Pending(r)'
  <2>1. PICK i \in DOMAIN posts : posts[i] = r
    BY <1>6 DEF Pending
  <2>2. i # 1
    BY <1>2, <1>6, <2>1
  <2>3. i - 1 \in 1..(Len(posts) - 1) /\ Tail(posts)[i - 1] = r
    BY <1>1, <1>2, <2>1, <2>2
  <2> QED
    BY <1>1, <2>3 DEF Pending
<1> QED
  BY <1>2, <1>3, <1>4, <1>5, <1>6

\* The closures there are, told apart by their kind.
LEMMA PostKinds ==
  /\ \A kind \in {"verified", "pause", "resume", "reload"} : [kind |-> kind] \in Post
  /\ \A g \in Gens : Ready(g) \in Post /\ Ready(g).kind = "ready" /\ Ready(g).gen = g
  /\ \A q \in Quicks, o \in {"opened", "failed"} :
       Reply(q, o) \in Post /\ Reply(q, o).kind = o /\ Reply(q, o).quick = q
  /\ \A p \in Post :
       /\ p.kind = "ready" => p.gen \in Gens /\ p = Ready(p.gen)
       /\ p.kind \in {"opened", "failed"} => p.quick \in Quicks /\ p = Reply(p.quick, p.kind)
BY DEF Post, Ready, Reply

-----------------------------------------------------------------------------
(* Types.                                                                  *)

\* A handler's new generation keeps the types, and is a generation.
LEMMA EnsureTypes ==
  ASSUME TypeOK, EnsureTunnel
  PROVE  /\ gen' = gen + 1 /\ gen' \in Gens /\ tunnel' = 0 /\ cut' \subseteq Gens
         /\ setup' = [setup EXCEPT ![gen'] = "calls"] /\ life' = Stopped(Installed)
         /\ setup' \in [Gens -> {"none", "calls", "start", "register", "answer", "over"}]
         /\ life' \in [Procs -> {"new", "running", "stopped"}]
<1>1. gen' = gen + 1 /\ gen \in 0..MaxGen /\ gen < MaxGen
  BY DEF EnsureTunnel, TypeOK, PanelTypes
<1>2. gen' \in Gens
  BY <1>1, SetupAssumption DEF Gens
<1>3. life' \in [Procs -> {"new", "running", "stopped"}]
  BY StoppedLife DEF EnsureTunnel, TypeOK
<1> QED
  BY <1>1, <1>2, <1>3 DEF EnsureTunnel, TypeOK, TaskTypes

\* The panel's part stays as it is.
LEMMA PanelStill ==
  PanelTypes /\ phase' = phase /\ UNCHANGED panel => PanelTypes'
BY DEF PanelTypes, panel

\* Every step keeps the types.
LEMMA StepType == TypeOK /\ [Next]_vars => TypeOK'
<1> SUFFICES ASSUME TypeOK, [Next]_vars PROVE TypeOK'
  OBVIOUS
<1>a. PanelTypes /\ TaskTypes /\ ProcTypes /\ PostsType
  BY DEF TypeOK, TaskTypes, PostsType
<1>b. 0 \in 0..MaxGen /\ Gens \subseteq 0..MaxGen
  BY SetupAssumption DEF Gens
<1> USE <1>a DEF TypeOK
<1>1. ASSUME NEW g \in Gens, Calls(g) PROVE TypeOK'
  BY <1>1, PanelStill DEF Calls, TaskTypes, ProcTypes, procs
<1>2. ASSUME NEW g \in Gens, StartConnector(g) PROVE TypeOK'
  BY <1>2, PanelStill, ProcNames DEF StartConnector, TaskTypes, ProcTypes
<1>3. ASSUME NEW g \in Gens, Register(g) PROVE TypeOK'
  BY <1>3, PanelStill, ProcNames DEF Register, TaskTypes, ProcTypes, procs
<1>4. ASSUME NEW g \in Gens, Answer(g) PROVE TypeOK'
  <2>1. PostsType'
    BY <1>4, Dispatched, PostKinds DEF Answer, Ready
  <2> QED
    BY <1>4, <2>1, PanelStill DEF Answer, TaskTypes, ProcTypes, procs, PostsType
<1>5. ASSUME NEW q \in Quicks, OpenLink(q) PROVE TypeOK'
  <2>1. opening' \in [Quicks -> {"none", "start", "wait", "opened", "failed", "over"}]
    BY <1>5 DEF OpenLink, TaskTypes
  <2>2. process' \in [Procs -> BOOLEAN]
    BY <1>5 DEF OpenLink, ProcTypes
  <2> QED
    BY <1>5, <2>1, <2>2, PanelStill DEF OpenLink, TaskTypes, ProcTypes
<1>6. ASSUME NEW q \in Quicks, LinkFound(q) PROVE TypeOK'
  BY <1>6, PanelStill DEF LinkFound, TaskTypes, ProcTypes, procs
<1>7. ASSUME NEW q \in Quicks, LinkGivenUp(q) PROVE TypeOK'
  BY <1>7, PanelStill, StoppedLife DEF LinkGivenUp, TaskTypes, ProcTypes
<1>8. ASSUME NEW q \in Quicks, NEW o \in {"opened", "failed"}, LinkAnswers(q, o) PROVE TypeOK'
  <2>1. PostsType'
    BY <1>8, Dispatched, PostKinds DEF LinkAnswers, Reply
  <2> QED
    BY <1>8, <2>1, PanelStill DEF LinkAnswers, TaskTypes, ProcTypes, procs, PostsType
<1>9. ASSUME NEW g \in Gens, Spawn(g) PROVE TypeOK'
  BY <1>9, PanelStill, ProcNames DEF Spawn, TaskTypes, ProcTypes, tasks
<1>10. ASSUME NEW p \in Procs, Ends(p) PROVE TypeOK'
  BY <1>10, PanelStill DEF Ends, TaskTypes, ProcTypes, tasks
<1>11. ASSUME NEW kind, Run(kind) PROVE PostsType' /\ Head(posts) \in Post /\ Head(posts).kind = kind
  BY <1>11, Taken DEF Run
<1>12. CASE RunVerified
  <2>1. PostsType' /\ UNCHANGED <<phase, disabled, opening, entry, closers, process>> /\ client' = TRUE
    BY <1>11, <1>12 DEF RunVerified
  <2>2. CASE UNCHANGED <<gen, tunnel, cut, setup, life>>
    BY <2>1, <2>2 DEF PanelTypes, TaskTypes, ProcTypes, PostsType
  <2>3. CASE EnsureTunnel
    BY <1>b, <2>1, <2>3, EnsureTypes DEF PanelTypes, TaskTypes, ProcTypes, PostsType
  <2> QED
    BY <1>12, <2>2, <2>3 DEF RunVerified
<1>13. CASE RunReload
  <2>1. PostsType' /\ UNCHANGED <<phase, client, disabled, opening, entry, closers, process>>
    BY <1>11, <1>13 DEF RunReload
  <2>2. CASE UNCHANGED <<gen, tunnel, cut, setup, life>>
    BY <2>1, <2>2 DEF PanelTypes, TaskTypes, ProcTypes, PostsType
  <2>3. CASE EnsureTunnel
    BY <1>b, <2>1, <2>3, EnsureTypes DEF PanelTypes, TaskTypes, ProcTypes, PostsType
  <2> QED
    BY <1>13, <2>2, <2>3 DEF RunReload
<1>14. CASE RunPause
  <2>1. PostsType' /\ disabled' = TRUE /\ UNCHANGED <<phase, client, gen, cut, setup, opening, entry, closers, process>>
    BY <1>11, <1>14 DEF RunPause, tasks
  <2>2. tunnel' \in {0, tunnel} /\ life' \in {life, Stopped(Installed)}
    BY <1>14 DEF RunPause
  <2>3. life' \in [Procs -> {"new", "running", "stopped"}]
    BY <2>2, StoppedLife DEF ProcTypes
  <2> QED
    BY <1>b, <2>1, <2>2, <2>3 DEF PanelTypes, TaskTypes, ProcTypes, PostsType
<1>15. CASE RunResume
  <2>1. PostsType' /\ disabled' = FALSE /\ UNCHANGED <<phase, client, opening, entry, closers, process>>
    BY <1>11, <1>15 DEF RunResume
  <2>2. CASE UNCHANGED <<gen, tunnel, cut, setup, life>>
    BY <2>1, <2>2 DEF PanelTypes, TaskTypes, ProcTypes, PostsType
  <2>3. CASE EnsureTunnel
    BY <1>b, <2>1, <2>3, EnsureTypes DEF PanelTypes, TaskTypes, ProcTypes, PostsType
  <2> QED
    BY <1>15, <2>2, <2>3 DEF RunResume
<1>16. CASE RunReady
  <2> DEFINE g == Head(posts).gen
  <2>1. Run("ready")
    BY <1>16 DEF RunReady
  <2>2. PostsType' /\ g \in Gens /\ UNCHANGED <<phase, client, disabled, gen, cut, setup, opening, entry, closers, process>>
    BY <1>11, <1>16, <2>1, PostKinds DEF RunReady, tasks
  <2>3. tunnel' \in {g, tunnel} /\ life' \in {life, Stopped({Tun(g)})}
    BY <1>16 DEF RunReady
  <2>4. life' \in [Procs -> {"new", "running", "stopped"}]
    BY <2>3, StoppedLife DEF ProcTypes
  <2> QED
    BY <1>b, <2>2, <2>3, <2>4 DEF PanelTypes, TaskTypes, ProcTypes, PostsType
<1>17. ASSUME NEW o \in {"opened", "failed"}, RunLink(o) PROVE TypeOK'
  <2>1. Run(o)
    BY <1>17 DEF RunLink
  <2>2. PostsType' /\ Head(posts).quick \in Quicks
    BY <1>11, <2>1, PostKinds
  <2>3. entry' \in [Quicks -> {"none", "starting", "opened", "failed", "removed"}]
    BY <1>17 DEF RunLink, TaskTypes
  <2> QED
    BY <1>17, <2>2, <2>3, PanelStill DEF RunLink, TaskTypes, ProcTypes, PostsType, tasks, procs
<1>18. ASSUME NEW q \in Quicks, StartQuick(q) PROVE TypeOK'
  BY <1>18, PanelStill, ProcNames DEF StartQuick, TaskTypes, ProcTypes
<1>19. ASSUME NEW qs, CloseQuick(qs) PROVE TypeOK'
  <2>1. entry' \in [Quicks -> {"none", "starting", "opened", "failed", "removed"}]
    BY <1>19 DEF CloseQuick, TaskTypes
  <2>2. life' \in [Procs -> {"new", "running", "stopped"}]
    BY <1>19, StoppedLife DEF CloseQuick, ProcTypes
  <2> QED
    BY <1>19, <2>1, <2>2, PanelStill DEF CloseQuick, TaskTypes, ProcTypes, tasks
<1>20. ASSUME NEW kind \in {"verified", "pause", "resume", "reload"}, Asked(kind) PROVE TypeOK'
  <2>1. PostsType'
    BY <1>20, Dispatched, PostKinds DEF Asked
  <2> QED
    BY <1>20, <2>1, PanelStill DEF Asked, TaskTypes, ProcTypes, PostsType, tasks, procs
<1>21. CASE Quit
  BY <1>21 DEF Quit, PanelTypes, TaskTypes, ProcTypes, panel, tasks, procs
<1>22. CASE RunClosers
  <2>1. life' \in [Procs -> {"new", "running", "stopped"}]
    BY <1>22, StoppedLife DEF RunClosers, ProcTypes
  <2> QED
    BY <1>22, <2>1 DEF RunClosers, PanelTypes, TaskTypes, ProcTypes, panel, tasks
<1>23. CASE Exit
  <2>1. process' = [p \in Procs |-> "jobless" \in Env /\ process[p]]
    BY <1>23 DEF Exit
  <2>2. process' \in [Procs -> BOOLEAN]
    BY <2>1
  <2> QED
    BY <1>23, <2>2 DEF Exit, PanelTypes, TaskTypes, ProcTypes, panel, tasks
<1>24. CASE UNCHANGED vars
  BY <1>24 DEF PanelTypes, TaskTypes, ProcTypes, vars, panel, tasks, procs
<1> QED
  BY <1>1, <1>2, <1>3, <1>4, <1>5, <1>6, <1>7, <1>8, <1>9, <1>10, <1>12, <1>13, <1>14, <1>15,
     <1>16, <1>17, <1>18, <1>19, <1>20, <1>21, <1>22, <1>23, <1>24
     DEF Next, SetupStep, LinkStep, LoopStep, Stay

-----------------------------------------------------------------------------
(* Generations and what is installed.                                      *)

\* A closure that runs was the head of the channel; the others stay.
LEMMA RunFrame ==
  ASSUME PostsType, NEW kind, Run(kind)
  PROVE  /\ Head(posts) \in Post /\ Head(posts).kind = kind /\ Pending(Head(posts))
         /\ \A r : Pending(r)' => Pending(r)
         /\ \A r : Pending(r) => Pending(r)' \/ r = Head(posts)
         /\ \A r : Pending(r) /\ r.kind # kind => Pending(r)'
BY Taken DEF Run

\* What a handler that begins a generation, or none, does to the connectors.
Began == EnsureTunnel \/ UNCHANGED <<gen, tunnel, cut, setup, life>>

\* A new generation comes after all others, and leaves no connector installed.
LEMMA BeganInOrder ==
  ASSUME TypeOK, BegunInOrder, InstalledIsNewest, Began,
         disabled' = disabled \/ EnsureTunnel \/ tunnel = 0
  PROVE  BegunInOrder' /\ InstalledIsNewest'
<1>1. CASE EnsureTunnel
  <2>1. \A g \in Gens : life'[Tun(g)] = "new" <=> life[Tun(g)] = "new"
    BY <1>1, EnsureTypes, StoppedLife, ProcNames DEF TypeOK
  <2>2. setup[gen'] = "none" /\ gen' \in Gens /\ gen' = gen + 1 /\ tunnel' = 0 /\ gen \in 0..MaxGen
    BY <1>1, EnsureTypes, SetupAssumption DEF BegunInOrder, TypeOK, PanelTypes
  <2>3. \A g \in Gens : setup'[g] = IF g = gen' THEN "calls" ELSE setup[g]
    BY <1>1, EnsureTypes DEF TypeOK, TaskTypes
  <2>4. \A g \in Gens : g > gen' => g > gen /\ g # gen'
    BY <2>2, SetupAssumption DEF Gens
  <2> QED
    BY <2>1, <2>2, <2>3, <2>4 DEF BegunInOrder, InstalledIsNewest
<1>2. CASE UNCHANGED <<gen, tunnel, cut, setup, life>>
  BY <1>2 DEF BegunInOrder, InstalledIsNewest, EnsureTunnel
<1> QED
  BY <1>1, <1>2 DEF Began

\* Every step keeps the order of the generations.
LEMMA StepOrder ==
  TypeOK /\ BegunInOrder /\ InstalledIsNewest /\ [Next]_vars => BegunInOrder' /\ InstalledIsNewest'
<1> SUFFICES ASSUME TypeOK, BegunInOrder, InstalledIsNewest, [Next]_vars
             PROVE  BegunInOrder' /\ InstalledIsNewest'
  OBVIOUS
<1>a. PanelTypes /\ TaskTypes /\ ProcTypes /\ PostsType
  BY DEF TypeOK, TaskTypes, PostsType
<1>b. ASSUME UNCHANGED <<panel, setup>>, \A g \in Gens : life'[Tun(g)] = "new" <=> life[Tun(g)] = "new"
      PROVE  BegunInOrder' /\ InstalledIsNewest'
  BY <1>b DEF BegunInOrder, InstalledIsNewest, panel
<1>c. ASSUME NEW ps, life' = Stopped(ps)
      PROVE  \A g \in Gens : life'[Tun(g)] = "new" <=> life[Tun(g)] = "new"
  BY <1>a, <1>c, StoppedLife, ProcNames
<1>1. ASSUME NEW g \in Gens, SetupStep(g) PROVE BegunInOrder' /\ InstalledIsNewest'
  <2>1. gen' = gen /\ tunnel' = tunnel /\ disabled' = disabled
    BY <1>1 DEF SetupStep, Calls, StartConnector, Register, Answer, panel
  <2>2. InstalledIsNewest'
    BY <2>1 DEF InstalledIsNewest
  <2>3. \A h \in Gens \ {g} : setup'[h] = setup[h] /\ life'[Tun(h)] = life[Tun(h)]
    BY <1>1, <1>a, ProcNames
       DEF SetupStep, Calls, StartConnector, Register, Answer, procs, TaskTypes, ProcTypes
  <2>4. setup[g] # "none"
    BY <1>1 DEF SetupStep, Calls, StartConnector, Register, Answer
  <2>5. setup'[g] \in {"none", "calls", "start"} => setup[g] = "calls" /\ life' = life
    BY <1>1, <1>a DEF SetupStep, Calls, StartConnector, Register, Answer, procs, TaskTypes
  <2> QED
    BY <2>1, <2>2, <2>3, <2>4, <2>5 DEF BegunInOrder
<1>2. ASSUME NEW g \in Gens, Spawn(g) PROVE BegunInOrder' /\ InstalledIsNewest'
  BY <1>2, <1>b DEF Spawn, tasks
<1>3. ASSUME NEW q \in Quicks, LinkStep(q) PROVE BegunInOrder' /\ InstalledIsNewest'
  BY <1>3, <1>b, <1>c DEF LinkStep, OpenLink, LinkFound, LinkGivenUp, LinkAnswers, procs
<1>4. ASSUME NEW p \in Procs, Ends(p) PROVE BegunInOrder' /\ InstalledIsNewest'
  BY <1>4, <1>b DEF Ends, tasks
<1>5. CASE RunVerified
  BY <1>5, BeganInOrder DEF RunVerified, Began
<1>6. CASE RunReload
  BY <1>6, BeganInOrder DEF RunReload, Began
<1>7. CASE RunPause
  <2>1. tunnel' = 0 /\ UNCHANGED <<gen, setup>>
    BY <1>7 DEF RunPause, tasks, InstalledIsNewest
  <2>2. \A g \in Gens : life'[Tun(g)] = "new" <=> life[Tun(g)] = "new"
    BY <1>7, <1>c DEF RunPause
  <2> QED
    BY <2>1, <2>2 DEF BegunInOrder, InstalledIsNewest
<1>8. CASE RunResume
  <2>1. disabled \in BOOLEAN /\ disabled' = FALSE /\ Began /\ (disabled /\ client => EnsureTunnel)
    BY <1>8, <1>a DEF RunResume, Began, PanelTypes
  <2>2. disabled' = disabled \/ tunnel = 0
    BY <2>1 DEF InstalledIsNewest
  <2> QED
    BY <2>1, <2>2, BeganInOrder
<1>9. CASE RunReady
  <2>1. \A g \in Gens : life'[Tun(g)] = "new" <=> life[Tun(g)] = "new"
    BY <1>9, <1>c DEF RunReady
  <2>2. InstalledIsNewest'
    BY <1>9 DEF RunReady, InstalledIsNewest
  <2> QED
    BY <1>9, <2>1, <2>2 DEF RunReady, tasks, BegunInOrder
<1>10. ASSUME NEW o, RunLink(o) PROVE BegunInOrder' /\ InstalledIsNewest'
  BY <1>10, <1>b DEF RunLink, tasks, procs
<1>11. ASSUME NEW q \in Quicks, StartQuick(q) PROVE BegunInOrder' /\ InstalledIsNewest'
  <2>1. \A g \in Gens : life'[Tun(g)] = life[Tun(g)]
    BY <1>11, <1>a, ProcNames DEF StartQuick, ProcTypes
  <2> QED
    BY <1>11, <1>b, <2>1 DEF StartQuick
<1>12. ASSUME NEW qs, CloseQuick(qs) PROVE BegunInOrder' /\ InstalledIsNewest'
  BY <1>12, <1>b, <1>c DEF CloseQuick, tasks
<1>13. ASSUME NEW kind, Asked(kind) PROVE BegunInOrder' /\ InstalledIsNewest'
  BY <1>13, <1>b DEF Asked, tasks, procs
<1>14. CASE Quit \/ RunClosers \/ Exit \/ UNCHANGED vars
  BY <1>14, <1>b, <1>c DEF Quit, RunClosers, Exit, vars, tasks, procs
<1> QED
  BY <1>1, <1>2, <1>3, <1>4, <1>5, <1>6, <1>7, <1>8, <1>9, <1>10, <1>11, <1>12, <1>13, <1>14
     DEF Next, LoopStep, Stay

-----------------------------------------------------------------------------
(* No connector is left behind.                                            *)

\* A connector that runs is in flight or the installed one, seen from each
\* side of a step.
Kept(g) == tunnel = g /\ gen = g /\ ~disabled

\* A connector whose setup is over stays in flight while its post is pending.
LEMMA StillInFlight ==
  ASSUME NEW g \in Gens, InFlight(g),
         setup'[g] = setup[g] \/ setup'[g] \in {"register", "answer"},
         Pending(Ready(g)) => Pending(Ready(g))'
  PROVE  InFlight(g)'
BY DEF InFlight, Pending, Ready

\* A new generation stops the installed connector and leaves the others in
\* flight.
LEMMA BeganLeavesNone ==
  ASSUME TypeOK, BegunInOrder, InstalledIsNewest, NoStrayConnector, Began,
         disabled' = disabled \/ EnsureTunnel \/ tunnel = 0,
         \A g \in Gens : Pending(Ready(g)) => Pending(Ready(g))'
  PROVE  NoStrayConnector'
<1> SUFFICES ASSUME NEW g \in Gens, life'[Tun(g)] = "running" PROVE InFlight(g)' \/ Kept(g)'
  BY DEF NoStrayConnector, Kept
<1>1. CASE EnsureTunnel
  <2>1. life[Tun(g)] = "running" /\ Tun(g) \notin Installed
    BY <1>1, EnsureTypes, StoppedLife, ProcNames DEF TypeOK
  <2>2. tunnel # g
    BY <2>1 DEF Installed
  <2>3. InFlight(g)
    BY <2>1, <2>2 DEF NoStrayConnector
  <2>4. g # gen'
    <3>1. setup[gen'] = "none"
      BY <1>1, EnsureTypes, SetupAssumption DEF BegunInOrder, TypeOK, PanelTypes
    <3>2. life[Tun(gen')] = "new"
      BY <1>1, <3>1, EnsureTypes DEF BegunInOrder
    <3> QED
      BY <2>1, <3>2
  <2>5. setup'[g] = setup[g]
    BY <1>1, <2>4, EnsureTypes DEF TypeOK, TaskTypes
  <2> QED
    BY <2>3, <2>5, StillInFlight
<1>2. CASE UNCHANGED <<gen, tunnel, cut, setup, life>>
  <2>1. InFlight(g) => InFlight(g)'
    BY <1>2, StillInFlight
  <2>2. CASE tunnel = g
    <3>1. g # 0
      BY SetupAssumption DEF Gens
    <3> QED
      BY <1>2, <2>1, <2>2, <3>1 DEF NoStrayConnector, Kept, EnsureTunnel
  <2>3. CASE tunnel # g
    BY <1>2, <2>1, <2>3 DEF NoStrayConnector
  <2> QED
    BY <2>2, <2>3
<1> QED
  BY <1>1, <1>2 DEF Began

\* Every step leaves a connector that runs in flight, or installed.
LEMMA StepNoStray ==
  ASSUME "full" \notin Env
  PROVE  TypeOK /\ BegunInOrder /\ InstalledIsNewest /\ NoStrayConnector /\ [Next]_vars =>
            NoStrayConnector'
<1> SUFFICES ASSUME TypeOK, BegunInOrder, InstalledIsNewest, NoStrayConnector, [Next]_vars
             PROVE  NoStrayConnector'
  OBVIOUS
<1>a. PanelTypes /\ TaskTypes /\ ProcTypes /\ PostsType
  BY DEF TypeOK, TaskTypes, PostsType
<1>b. ASSUME UNCHANGED <<panel, setup>>,
             \A g \in Gens : life'[Tun(g)] = "running" => life[Tun(g)] = "running",
             \A g \in Gens : Pending(Ready(g)) => Pending(Ready(g))'
      PROVE  NoStrayConnector'
  <2> SUFFICES ASSUME NEW g \in Gens, life'[Tun(g)] = "running" PROVE InFlight(g)' \/ Kept(g)'
    BY DEF NoStrayConnector, Kept
  <2>1. InFlight(g) \/ Kept(g)
    BY <1>b DEF NoStrayConnector, Kept
  <2>2. InFlight(g) => InFlight(g)'
    BY <1>b, StillInFlight
  <2> QED
    BY <1>b, <2>1, <2>2 DEF Kept, panel
<1>c. ASSUME NEW ps, life' = Stopped(ps)
      PROVE  \A p \in Procs : life'[p] = "running" => life[p] = "running" /\ p \notin ps
  BY <1>a, <1>c, StoppedLife
<1>d. UNCHANGED posts => \A r : Pending(r) => Pending(r)'
  BY DEF Pending
<1>e. ASSUME NEW kind, Run(kind), kind # "ready"
      PROVE  \A g \in Gens : Pending(Ready(g)) => Pending(Ready(g))'
  BY <1>a, <1>e, RunFrame, PostKinds
<1>1. ASSUME NEW g \in Gens, SetupStep(g) PROVE NoStrayConnector'
  <2>1. UNCHANGED panel
    BY <1>1 DEF SetupStep, Calls, StartConnector, Register, Answer
  <2>2. \A h \in Gens \ {g} : setup'[h] = setup[h] /\ life'[Tun(h)] = life[Tun(h)]
    BY <1>1, <1>a, ProcNames
       DEF SetupStep, Calls, StartConnector, Register, Answer, procs, TaskTypes, ProcTypes
  <2>3. /\ \A r : Pending(r) => Pending(r)'
        /\ Answer(g) => Pending(Ready(g))'
    <3>1. CASE Answer(g)
      BY <1>a, <3>1, Dispatched, PostKinds DEF Answer, Ready
    <3>2. CASE ~Answer(g)
      BY <1>1, <1>d, <3>2 DEF SetupStep, Calls, StartConnector, Register
    <3> QED
      BY <3>1, <3>2
  <2> SUFFICES ASSUME NEW h \in Gens, life'[Tun(h)] = "running" PROVE InFlight(h)' \/ Kept(h)'
    BY DEF NoStrayConnector, Kept
  <2>4. CASE h # g
    <3>1. InFlight(h) \/ Kept(h)
      BY <2>2, <2>4 DEF NoStrayConnector, Kept
    <3> QED
      BY <2>1, <2>2, <2>3, <2>4, <3>1, StillInFlight DEF Kept, panel
  <2>5. CASE h = g
    <3>1. CASE Calls(g)
      BY <1>a, <2>5, <3>1 DEF Calls, procs, BegunInOrder
    <3>2. CASE StartConnector(g) \/ Register(g)
      <4>1. setup'[g] \in {"register", "answer"}
        BY <1>a, <3>2 DEF StartConnector, Register, TaskTypes
      <4> QED
        BY <2>5, <4>1 DEF InFlight
    <3>3. CASE Answer(g)
      BY <2>3, <2>5, <3>3 DEF InFlight, Pending, Ready
    <3> QED
      BY <1>1, <3>1, <3>2, <3>3 DEF SetupStep
  <2> QED
    BY <2>4, <2>5
<1>2. ASSUME NEW g \in Gens, Spawn(g) PROVE NoStrayConnector'
  BY <1>2, <1>b, <1>d DEF Spawn, tasks
<1>3. ASSUME NEW q \in Quicks, LinkStep(q) PROVE NoStrayConnector'
  <2>1. \A r : Pending(r) => Pending(r)'
    <3>1. ASSUME NEW o \in {"opened", "failed"}, LinkAnswers(q, o)
          PROVE  \A r : Pending(r) => Pending(r)'
      <4>1. Dispatch(Reply(q, o))
        BY <3>1 DEF LinkAnswers, Reply
      <4> QED
        BY <1>a, <4>1, Dispatched, PostKinds
    <3> QED
      BY <1>3, <1>d, <3>1 DEF LinkStep, OpenLink, LinkFound, LinkGivenUp
  <2>2. UNCHANGED <<panel, setup>>
    BY <1>3 DEF LinkStep, OpenLink, LinkFound, LinkGivenUp, LinkAnswers
  <2>3. \A g \in Gens : life'[Tun(g)] = "running" => life[Tun(g)] = "running"
    BY <1>3, <1>c, ProcNames DEF LinkStep, OpenLink, LinkFound, LinkGivenUp, LinkAnswers, procs
  <2> QED
    BY <1>b, <2>1, <2>2, <2>3
<1>4. ASSUME NEW p \in Procs, Ends(p) PROVE NoStrayConnector'
  BY <1>4, <1>b, <1>d DEF Ends, tasks
<1>5. CASE RunVerified
  BY <1>5, <1>e, BeganLeavesNone DEF RunVerified, Began
<1>6. CASE RunReload
  BY <1>6, <1>e, BeganLeavesNone DEF RunReload, Began
<1>7. CASE RunPause
  <2> SUFFICES ASSUME NEW g \in Gens, life'[Tun(g)] = "running" PROVE InFlight(g)'
    BY DEF NoStrayConnector
  <2>1. life[Tun(g)] = "running" /\ ~(~disabled /\ tunnel = g)
    BY <1>7, <1>c, ProcNames DEF RunPause, Installed
  <2>2. InFlight(g)
    BY <2>1 DEF NoStrayConnector
  <2> QED
    BY <1>7, <1>e, <2>2, StillInFlight DEF RunPause, tasks
<1>8. CASE RunResume
  <2>1. disabled \in BOOLEAN /\ disabled' = FALSE /\ Began /\ (disabled /\ client => EnsureTunnel)
    BY <1>8, <1>a DEF RunResume, Began, PanelTypes
  <2>2. disabled' = disabled \/ tunnel = 0
    BY <2>1 DEF InstalledIsNewest
  <2>3. \A g \in Gens : Pending(Ready(g)) => Pending(Ready(g))'
    BY <1>8, <1>e DEF RunResume
  <2> QED
    BY <2>1, <2>2, <2>3, BeganLeavesNone
<1>9. CASE RunReady
  <2> DEFINE r == Head(posts).gen
  <2>1. Run("ready")
    BY <1>9 DEF RunReady
  <2>2. r \in Gens /\ Head(posts) = Ready(r)
    BY <1>a, <2>1, RunFrame, PostKinds
  <2>3. \A g \in Gens \ {r} : Pending(Ready(g)) => Pending(Ready(g))'
    BY <1>a, <2>1, <2>2, RunFrame, PostKinds
  <2>4. UNCHANGED <<setup, gen, disabled>>
    BY <1>9 DEF RunReady, tasks
  <2>5. \/ (gen # r \/ disabled) /\ life' = Stopped({Tun(r)}) /\ tunnel' = tunnel
        \/ gen = r /\ ~disabled /\ tunnel' = r /\ life' = life
    BY <1>9 DEF RunReady
  <2> HIDE DEF r
  <2> SUFFICES ASSUME NEW g \in Gens, life'[Tun(g)] = "running" PROVE InFlight(g)' \/ Kept(g)'
    BY DEF NoStrayConnector, Kept
  <2>6. life[Tun(g)] = "running"
    BY <1>c, <2>5, ProcNames
  <2>7. InFlight(g) \/ Kept(g)
    BY <2>6 DEF NoStrayConnector, Kept
  <2>8. CASE g = r
    BY <1>c, <2>4, <2>5, <2>8, ProcNames DEF Kept
  <2>9. CASE g # r
    <3>1. InFlight(g) => InFlight(g)'
      BY <2>3, <2>4, <2>9, StillInFlight
    <3> QED
      BY <2>4, <2>5, <2>7, <2>9, <3>1 DEF Kept
  <2> QED
    BY <2>8, <2>9
<1>10. ASSUME NEW o \in {"opened", "failed"}, RunLink(o) PROVE NoStrayConnector'
  BY <1>10, <1>b, <1>e DEF RunLink, tasks, procs
<1>11. ASSUME NEW q \in Quicks, StartQuick(q) PROVE NoStrayConnector'
  <2>1. \A g \in Gens : life'[Tun(g)] = life[Tun(g)]
    BY <1>11, <1>a, ProcNames DEF StartQuick, ProcTypes
  <2> QED
    BY <1>11, <1>b, <1>d, <2>1 DEF StartQuick
<1>12. ASSUME NEW qs, CloseQuick(qs) PROVE NoStrayConnector'
  <2>1. \A g \in Gens : life'[Tun(g)] = "running" => life[Tun(g)] = "running"
    BY <1>12, <1>c, ProcNames DEF CloseQuick
  <2> QED
    BY <1>12, <1>b, <1>d, <2>1 DEF CloseQuick, tasks
<1>13. ASSUME NEW kind \in {"verified", "pause", "resume", "reload"}, Asked(kind) PROVE NoStrayConnector'
  <2>1. \A r : Pending(r) => Pending(r)'
    BY <1>13, <1>a, Dispatched, PostKinds DEF Asked
  <2> QED
    BY <1>13, <1>b, <2>1 DEF Asked, tasks, procs
<1>14. CASE Quit \/ RunClosers \/ Exit \/ UNCHANGED vars
  <2>1. UNCHANGED <<panel, setup, posts>>
    BY <1>14 DEF Quit, RunClosers, Exit, vars, tasks
  <2>2. \A g \in Gens : life'[Tun(g)] = "running" => life[Tun(g)] = "running"
    BY <1>14, <1>c, ProcNames DEF Quit, RunClosers, Exit, vars, procs
  <2> QED
    BY <1>b, <1>d, <2>1, <2>2
<1> QED
  BY <1>1, <1>2, <1>3, <1>4, <1>5, <1>6, <1>7, <1>8, <1>9, <1>10, <1>11, <1>12, <1>13, <1>14
     DEF Next, LoopStep, Stay

-----------------------------------------------------------------------------
(* Quick links.                                                            *)

LinkOK(q) == LinkBegun(q) /\ LinkEnds(q)

\* A step that leaves a link's entry and goroutine alone, and at most ends its
\* process, stops it, or takes a reply.
Aside(q) ==
  /\ opening'[q] = opening[q] /\ entry'[q] = entry[q]
  /\ process'[Link(q)] => process[Link(q)]
  /\ life'[Link(q)] = life[Link(q)] \/ (life[Link(q)] = "running" /\ life'[Link(q)] = "stopped")
  /\ \A o \in {"opened", "failed"} : Pending(Reply(q, o))' => Pending(Reply(q, o))

\* Such a step keeps what is known of the link.
LEMMA AsideKeeps ==
  ASSUME NEW q \in Quicks, LinkOK(q), Aside(q)
  PROVE  LinkOK(q)'
BY DEF LinkOK, LinkBegun, LinkEnds, Aside

\* Stopping processes, or none, is such a step when the rest stays.
LEMMA StoppedAside ==
  ASSUME ProcTypes, NEW q \in Quicks, NEW ps, life' = Stopped(ps) \/ life' = life
  PROVE  life'[Link(q)] = life[Link(q)] \/ (life[Link(q)] = "running" /\ life'[Link(q)] = "stopped")
<1>1. life[Link(q)] \in {"new", "running", "stopped"} /\ Link(q) \in Procs
  BY ProcNames DEF ProcTypes
<1> QED
  BY <1>1, StoppedLife

\* Every step of a link's goroutine keeps what is known of the link.
LEMMA LinkStepKeeps ==
  ASSUME TypeOK, NEW q \in Quicks, LinkOK(q), LinkStep(q)
  PROVE  LinkOK(q)'
<1>a. PanelTypes /\ TaskTypes /\ ProcTypes /\ PostsType
  BY DEF TypeOK, TaskTypes, PostsType
<1>b. Link(q) \in Procs
  BY ProcNames
<1>1. CASE OpenLink(q)
  <2>1. /\ opening[q] = "start" /\ opening'[q] \in {"wait", "failed"}
        /\ opening'[q] = "failed" => process' = process
    BY <1>1, <1>a DEF OpenLink, TaskTypes
  <2>2. entry' = entry /\ life' = life /\ \A r : Pending(r)' <=> Pending(r)
    BY <1>1 DEF OpenLink, Pending
  <2> QED
    BY <2>1, <2>2 DEF LinkOK, LinkBegun, LinkEnds
<1>2. CASE LinkFound(q)
  <2>1. opening[q] = "wait" /\ opening'[q] = "opened" /\ UNCHANGED <<entry, life, process>>
    BY <1>2, <1>a DEF LinkFound, TaskTypes, procs
  <2>2. \A r : Pending(r)' <=> Pending(r)
    BY <1>2 DEF LinkFound, Pending
  <2> QED
    BY <2>1, <2>2 DEF LinkOK, LinkBegun, LinkEnds
<1>3. CASE LinkGivenUp(q)
  <2>1. opening[q] = "wait" /\ opening'[q] = "failed" /\ UNCHANGED <<entry, process>>
    BY <1>3, <1>a DEF LinkGivenUp, TaskTypes
  <2>2. \A r : Pending(r)' <=> Pending(r)
    BY <1>3 DEF LinkGivenUp, Pending
  <2>3. life[Link(q)] # "new"
    BY <2>1 DEF LinkOK, LinkBegun
  <2>4. life'[Link(q)] = "stopped"
    BY <1>3, <1>a, <1>b, <2>3, StoppedLife DEF LinkGivenUp, ProcTypes
  <2> QED
    BY <2>1, <2>2, <2>3, <2>4 DEF LinkOK, LinkBegun, LinkEnds
<1>4. ASSUME NEW o \in {"opened", "failed"}, LinkAnswers(q, o) PROVE LinkOK(q)'
  <2>1. opening[q] = o /\ opening'[q] = "over" /\ UNCHANGED <<entry, life, process>>
    BY <1>4, <1>a DEF LinkAnswers, TaskTypes, procs
  <2>2. \A r : Pending(r)' => Pending(r) \/ r = Reply(q, o)
    BY <1>4, <1>a, Dispatched, PostKinds DEF LinkAnswers, Reply
  <2>3. Pending(Reply(q, "failed"))' => o = "failed" \/ Pending(Reply(q, "failed"))
    BY <2>2, PostKinds
  <2> QED
    BY <2>1, <2>3 DEF LinkOK, LinkBegun, LinkEnds
<1> QED
  BY <1>1, <1>2, <1>3, <1>4 DEF LinkStep

\* Every step keeps what is known of each link.
LEMMA StepLinks ==
  TypeOK /\ (\A q \in Quicks : LinkOK(q)) /\ [Next]_vars => \A q \in Quicks : LinkOK(q)'
<1> SUFFICES ASSUME TypeOK, NEW q \in Quicks, LinkOK(q), [Next]_vars PROVE LinkOK(q)'
  OBVIOUS
<1>a. PanelTypes /\ TaskTypes /\ ProcTypes /\ PostsType /\ Link(q) \in Procs
  BY ProcNames DEF TypeOK, TaskTypes, PostsType
<1>b. ASSUME UNCHANGED <<opening, entry>>, process'[Link(q)] => process[Link(q)],
             life'[Link(q)] = life[Link(q)] \/ \E ps : life' = Stopped(ps),
             \A o \in {"opened", "failed"} : Pending(Reply(q, o))' => Pending(Reply(q, o))
      PROVE  LinkOK(q)'
  <2>1. life'[Link(q)] = life[Link(q)] \/ (life[Link(q)] = "running" /\ life'[Link(q)] = "stopped")
    BY <1>a, <1>b, StoppedAside
  <2> QED
    BY <1>b, <2>1, AsideKeeps DEF Aside
<1>c. UNCHANGED posts => \A r : Pending(r)' => Pending(r)
  BY DEF Pending
<1>d. \A kind : Run(kind) => \A r : Pending(r)' => Pending(r)
  BY <1>a, RunFrame
<1>e. EnsureTunnel \/ UNCHANGED <<gen, tunnel, cut, setup, life>> =>
        life'[Link(q)] = life[Link(q)] \/ \E ps : life' = Stopped(ps)
  BY DEF EnsureTunnel
<1>1. ASSUME NEW g \in Gens, SetupStep(g) PROVE LinkOK(q)'
  <2>1. \A r : Pending(r)' => Pending(r) \/ r = Ready(g)
    BY <1>1, <1>a, <1>c, Dispatched, PostKinds
       DEF SetupStep, Calls, StartConnector, Register, Answer, Ready
  <2>2. \A o \in {"opened", "failed"} : Pending(Reply(q, o))' => Pending(Reply(q, o))
    BY <2>1, PostKinds
  <2>3. life'[Link(q)] = life[Link(q)]
    BY <1>1, <1>a, ProcNames
       DEF SetupStep, Calls, StartConnector, Register, Answer, procs, ProcTypes
  <2>4. UNCHANGED <<opening, entry, process>>
    BY <1>1 DEF SetupStep, Calls, StartConnector, Register, Answer, procs
  <2> QED
    BY <1>b, <2>2, <2>3, <2>4
<1>2. ASSUME NEW g \in Gens, Spawn(g) PROVE LinkOK(q)'
  <2>1. process'[Link(q)] = process[Link(q)]
    BY <1>2, <1>a, ProcNames DEF Spawn, ProcTypes
  <2> QED
    BY <1>2, <1>b, <1>c, <2>1 DEF Spawn, tasks
<1>3. ASSUME NEW r \in Quicks, LinkStep(r) PROVE LinkOK(q)'
  <2>1. CASE r = q
    BY <1>3, <2>1, LinkStepKeeps
  <2>2. CASE r # q
    <3>1. opening'[q] = opening[q] /\ entry'[q] = entry[q]
      BY <1>3, <1>a, <2>2 DEF LinkStep, OpenLink, LinkFound, LinkGivenUp, LinkAnswers, TaskTypes
    <3>2. process'[Link(q)] = process[Link(q)]
      BY <1>3, <1>a, <2>2, ProcNames
         DEF LinkStep, OpenLink, LinkFound, LinkGivenUp, LinkAnswers, ProcTypes, procs
    <3>3. life' = Stopped({Link(r)}) \/ life' = life
      BY <1>3 DEF LinkStep, OpenLink, LinkFound, LinkGivenUp, LinkAnswers, procs
    <3>4. life'[Link(q)] = life[Link(q)] \/ (life[Link(q)] = "running" /\ life'[Link(q)] = "stopped")
      BY <1>a, <3>3, StoppedAside
    <3>5. \A o \in {"opened", "failed"} : Pending(Reply(q, o))' => Pending(Reply(q, o))
      <4>1. ASSUME NEW p \in {"opened", "failed"}, LinkAnswers(r, p)
            PROVE  \A x : Pending(x)' => Pending(x) \/ x = Reply(r, p)
        BY <1>a, <4>1, Dispatched, PostKinds DEF LinkAnswers, Reply
      <4>2. CASE OpenLink(r) \/ LinkFound(r) \/ LinkGivenUp(r)
        BY <1>c, <4>2 DEF OpenLink, LinkFound, LinkGivenUp
      <4>3. ASSUME NEW p \in {"opened", "failed"}, NEW o \in {"opened", "failed"}
            PROVE  Reply(q, o) # Reply(r, p)
        BY <2>2, PostKinds
      <4> QED
        BY <1>3, <4>1, <4>2, <4>3 DEF LinkStep
    <3> QED
      BY <3>1, <3>2, <3>4, <3>5, AsideKeeps DEF Aside
  <2> QED
    BY <2>1, <2>2
<1>4. ASSUME NEW p \in Procs, Ends(p) PROVE LinkOK(q)'
  <2>1. process'[Link(q)] => process[Link(q)]
    BY <1>4, <1>a DEF Ends, ProcTypes
  <2> QED
    BY <1>4, <1>b, <1>c, <2>1 DEF Ends, tasks
<1>5. CASE RunVerified
  BY <1>5, <1>b, <1>d, <1>e DEF RunVerified
<1>6. CASE RunReload
  BY <1>6, <1>b, <1>d, <1>e DEF RunReload
<1>7. CASE RunPause
  BY <1>7, <1>b, <1>d DEF RunPause, tasks
<1>8. CASE RunResume
  BY <1>8, <1>b, <1>d, <1>e DEF RunResume
<1>9. CASE RunReady
  BY <1>9, <1>b, <1>d DEF RunReady, tasks
<1>10. ASSUME NEW o \in {"opened", "failed"}, RunLink(o) PROVE LinkOK(q)'
  <2> DEFINE r == Head(posts).quick
  <2>1. Run(o) /\ entry' = [entry EXCEPT ![r] = IF @ = "removed" THEN @ ELSE o]
    BY <1>10 DEF RunLink
  <2>2. r \in Quicks /\ Head(posts) = Reply(r, o) /\ Pending(Reply(r, o))
    BY <1>a, <2>1, RunFrame, PostKinds
  <2>3. UNCHANGED <<opening, life, process>>
    BY <1>10 DEF RunLink, tasks, procs
  <2>4. \A x : Pending(x)' => Pending(x)
    BY <1>d, <2>1
  <2> HIDE DEF r
  <2>5. entry'[q] = IF q = r /\ entry[q] # "removed" THEN o ELSE entry[q]
    BY <1>a, <2>1, <2>2 DEF TaskTypes
  <2>6. CASE q = r
    <3>1. opening[q] = "over" /\ entry[q] # "none"
      BY <2>2, <2>6 DEF LinkOK, LinkBegun
    <3>2. o = "failed" => ~process[Link(q)] \/ life[Link(q)] = "stopped"
      BY <2>2, <2>6 DEF LinkOK, LinkEnds
    <3> QED
      BY <2>3, <2>4, <2>5, <2>6, <3>1, <3>2 DEF LinkOK, LinkBegun, LinkEnds
  <2>7. CASE q # r
    BY <2>3, <2>4, <2>5, <2>7, AsideKeeps DEF Aside
  <2> QED
    BY <2>6, <2>7
<1>11. ASSUME NEW r \in Quicks, StartQuick(r) PROVE LinkOK(q)'
  <2>1. UNCHANGED process /\ \A x : Pending(x)' <=> Pending(x)
    BY <1>11 DEF StartQuick, Pending
  <2>2. CASE q = r
    <3>1. entry[q] = "none" /\ entry'[q] = "starting" /\ opening'[q] = "start" /\ life'[Link(q)] = "running"
      BY <1>11, <1>a, <2>2 DEF StartQuick, TaskTypes, ProcTypes
    <3>2. opening[q] = "none"
      BY <3>1 DEF LinkOK, LinkBegun
    <3> QED
      BY <2>1, <3>1, <3>2 DEF LinkOK, LinkBegun, LinkEnds
  <2>3. CASE q # r
    <3>1. entry'[q] = entry[q] /\ opening'[q] = opening[q] /\ life'[Link(q)] = life[Link(q)]
      BY <1>11, <1>a, <2>3, ProcNames DEF StartQuick, TaskTypes, ProcTypes
    <3> QED
      BY <2>1, <3>1, AsideKeeps DEF Aside
  <2> QED
    BY <2>2, <2>3
<1>12. ASSUME NEW qs \in SUBSET Quicks, CloseQuick(qs) PROVE LinkOK(q)'
  <2>1. UNCHANGED <<opening, process>> /\ \A x : Pending(x)' <=> Pending(x)
    BY <1>12 DEF CloseQuick, Pending, tasks
  <2>2. CASE q \in qs
    <3>1. entry[q] \in {"starting", "opened", "failed"} /\ entry'[q] = "removed"
      BY <1>12, <2>2 DEF CloseQuick
    <3>2. life[Link(q)] # "new"
      BY <3>1 DEF LinkOK, LinkBegun
    <3>3. life' = Stopped({Link(r) : r \in qs}) /\ Link(q) \in {Link(r) : r \in qs}
      BY <1>12, <2>2 DEF CloseQuick
    <3>4. life'[Link(q)] = "stopped"
      BY <1>a, <3>2, <3>3, StoppedLife DEF ProcTypes
    <3> QED
      BY <2>1, <3>1, <3>2, <3>4 DEF LinkOK, LinkBegun, LinkEnds
  <2>3. CASE q \notin qs
    <3>1. entry'[q] = entry[q]
      BY <1>12, <2>3 DEF CloseQuick
    <3>2. life'[Link(q)] = life[Link(q)] \/ (life[Link(q)] = "running" /\ life'[Link(q)] = "stopped")
      BY <1>12, <1>a, StoppedAside DEF CloseQuick
    <3> QED
      BY <2>1, <3>1, <3>2, AsideKeeps DEF Aside
  <2> QED
    BY <2>2, <2>3
<1>13. ASSUME NEW kind \in {"verified", "pause", "resume", "reload"}, Asked(kind) PROVE LinkOK(q)'
  <2>1. \A r : Pending(r)' => Pending(r) \/ r = [kind |-> kind]
    BY <1>13, <1>a, Dispatched, PostKinds DEF Asked
  <2>2. \A o \in {"opened", "failed"} : Pending(Reply(q, o))' => Pending(Reply(q, o))
    BY <2>1, PostKinds
  <2> QED
    BY <1>13, <1>b, <2>2 DEF Asked, tasks, procs
<1>14. CASE Quit \/ RunClosers \/ UNCHANGED vars
  BY <1>14, <1>b, <1>c DEF Quit, RunClosers, vars, tasks, procs
<1>15. CASE Exit
  <2>1. process'[Link(q)] => process[Link(q)]
    BY <1>15, <1>a DEF Exit
  <2> QED
    BY <1>15, <1>b, <1>c, <2>1 DEF Exit, tasks
<1> QED
  BY <1>1, <1>2, <1>3, <1>4, <1>5, <1>6, <1>7, <1>8, <1>9, <1>10, <1>11, <1>12, <1>13, <1>14, <1>15
     DEF Next, LoopStep, Stay

-----------------------------------------------------------------------------
(* What the closers know.                                                  *)

\* Every step keeps what the closers know.
LEMMA StepClosers ==
  TypeOK /\ BegunInOrder /\ ClosersKnowAll /\ [Next]_vars => ClosersKnowAll'
<1> SUFFICES ASSUME TypeOK, BegunInOrder, ClosersKnowAll, [Next]_vars PROVE ClosersKnowAll'
  OBVIOUS
<1>a. PanelTypes /\ TaskTypes /\ ProcTypes
  BY DEF TypeOK
<1>b. ASSUME phase' = phase, closers \subseteq closers',
             \A p \in Procs : life'[p] = "running" => life[p] = "running" \/ p \in closers',
             \A g \in Gens : setup[g] = "register" => setup'[g] = "register" \/ Tun(g) \in closers'
      PROVE  ClosersKnowAll'
  BY <1>b DEF ClosersKnowAll
<1>c. ASSUME NEW ps, life' = Stopped(ps)
      PROVE  \A p \in Procs : life'[p] = "running" => life[p] = "running"
  BY <1>a, <1>c, StoppedLife
<1>d. ASSUME EnsureTunnel \/ UNCHANGED <<gen, tunnel, cut, setup, life>>, phase' = phase, closers' = closers
      PROVE  ClosersKnowAll'
  <2>1. CASE EnsureTunnel
    <3>1. setup' = [setup EXCEPT ![gen'] = "calls"] /\ life' = Stopped(Installed)
      BY <2>1, EnsureTypes
    <3>2. gen' \in Gens /\ setup[gen'] = "none"
      BY <2>1, EnsureTypes, SetupAssumption DEF BegunInOrder, TypeOK, PanelTypes
    <3>3. \A g \in Gens : setup[g] = "register" => setup'[g] = "register"
      BY <1>a, <3>1, <3>2 DEF TaskTypes
    <3> QED
      BY <1>b, <1>c, <1>d, <3>1, <3>3
  <2>2. CASE UNCHANGED <<gen, tunnel, cut, setup, life>>
    BY <1>b, <1>d, <2>2
  <2> QED
    BY <1>d, <2>1, <2>2
<1>1. ASSUME NEW g \in Gens, SetupStep(g) PROVE ClosersKnowAll'
  <2>1. CASE Calls(g)
    BY <1>a, <1>b, <2>1 DEF Calls, procs, TaskTypes
  <2>2. CASE StartConnector(g)
    <3>1. /\ \A h \in Gens : setup[h] = "register" => setup'[h] = "register"
          /\ setup'[g] = "register" /\ UNCHANGED <<phase, closers>>
      BY <1>a, <2>2 DEF StartConnector, TaskTypes
    <3>2. \A p \in Procs : p # Tun(g) => life'[p] = life[p]
      BY <1>a, <2>2 DEF StartConnector, ProcTypes
    <3> QED
      BY <3>1, <3>2 DEF ClosersKnowAll
  <2>3. CASE Register(g)
    BY <1>a, <1>b, <2>3 DEF Register, procs, TaskTypes
  <2>4. CASE Answer(g)
    BY <1>a, <1>b, <2>4 DEF Answer, procs, TaskTypes
  <2> QED
    BY <1>1, <2>1, <2>2, <2>3, <2>4 DEF SetupStep
<1>2. ASSUME NEW g \in Gens, Spawn(g) PROVE ClosersKnowAll'
  BY <1>2, <1>b DEF Spawn, tasks
<1>3. ASSUME NEW q \in Quicks, LinkStep(q) PROVE ClosersKnowAll'
  BY <1>3, <1>b, <1>c DEF LinkStep, OpenLink, LinkFound, LinkGivenUp, LinkAnswers, procs
<1>4. ASSUME NEW p \in Procs, Ends(p) PROVE ClosersKnowAll'
  BY <1>4, <1>b DEF Ends, tasks
<1>5. CASE RunVerified
  BY <1>5, <1>d DEF RunVerified
<1>6. CASE RunReload
  BY <1>6, <1>d DEF RunReload
<1>7. CASE RunPause
  BY <1>7, <1>b, <1>c DEF RunPause, tasks
<1>8. CASE RunResume
  BY <1>8, <1>d DEF RunResume
<1>9. CASE RunReady
  BY <1>9, <1>b, <1>c DEF RunReady, tasks
<1>10. ASSUME NEW o, RunLink(o) PROVE ClosersKnowAll'
  BY <1>10, <1>b DEF RunLink, tasks, procs
<1>11. ASSUME NEW q \in Quicks, StartQuick(q) PROVE ClosersKnowAll'
  <2>1. \A p \in Procs : p # Link(q) => life'[p] = life[p]
    BY <1>11, <1>a DEF StartQuick, ProcTypes
  <2> QED
    BY <1>11, <1>b, <2>1 DEF StartQuick
<1>12. ASSUME NEW qs, CloseQuick(qs) PROVE ClosersKnowAll'
  BY <1>12, <1>b, <1>c DEF CloseQuick, tasks
<1>13. ASSUME NEW kind, Asked(kind) PROVE ClosersKnowAll'
  BY <1>13, <1>b DEF Asked, tasks, procs
<1>14. CASE Quit
  BY <1>14 DEF Quit, ClosersKnowAll, tasks, procs
<1>15. CASE RunClosers \/ Exit
  BY <1>15 DEF RunClosers, Exit, ClosersKnowAll
<1>16. CASE UNCHANGED vars
  BY <1>16, <1>b DEF vars, tasks, procs
<1> QED
  BY <1>1, <1>2, <1>3, <1>4, <1>5, <1>6, <1>7, <1>8, <1>9, <1>10, <1>11, <1>12, <1>13, <1>14, <1>15,
     <1>16 DEF Next, LoopStep, Stay

-----------------------------------------------------------------------------
(* What a connector promises.                                              *)

\* The steps a connector may take, and none.
LEMMA ConnSteps ==
  ASSUME NEW p,
         \/ UNCHANGED <<life[p], process[p]>>
         \/ life[p] = "new" /\ life'[p] = "running" /\ process'[p] = process[p]
         \/ life[p] = "running" /\ ~process[p] /\ process'[p] = TRUE /\ life'[p] = life[p]
         \/ process[p] /\ process'[p] = FALSE /\ life'[p] = life[p]
         \/ life[p] = "running" /\ life'[p] = "stopped" /\ process'[p] = process[p]
  PROVE  [Conn(p)!Next]_<<life[p], process[p]>>
BY DEF Conn!Next, Conn!Start, Conn!Spawn, Conn!Exit, Conn!Stop

\* Every step but the exit of the application is one of each connector's, or
\* none of its.
LEMMA StepConnectors ==
  ASSUME TypeOK, Main, [Next]_vars, phase' # "down", NEW p \in Procs
  PROVE  [Conn(p)!Next]_<<life[p], process[p]>>
<1>a. PanelTypes /\ TaskTypes /\ ProcTypes
  BY DEF TypeOK
<1>b. ASSUME NEW ps, life' = Stopped(ps), process' = process
      PROVE  [Conn(p)!Next]_<<life[p], process[p]>>
  <2>1. life'[p] = life[p] \/ (life[p] = "running" /\ life'[p] = "stopped")
    BY <1>a, <1>b, StoppedLife
  <2> QED
    BY <1>b, <2>1, ConnSteps
<1>c. ASSUME UNCHANGED procs PROVE [Conn(p)!Next]_<<life[p], process[p]>>
  BY <1>c, ConnSteps DEF procs
<1>d. ASSUME EnsureTunnel \/ UNCHANGED <<gen, tunnel, cut, setup, life>>, process' = process
      PROVE  [Conn(p)!Next]_<<life[p], process[p]>>
  BY <1>b, <1>c, <1>d DEF EnsureTunnel, procs
<1>1. ASSUME NEW g \in Gens, SetupStep(g) PROVE [Conn(p)!Next]_<<life[p], process[p]>>
  <2>1. CASE StartConnector(g)
    <3>1. life[Tun(g)] = "new" /\ life' = [life EXCEPT ![Tun(g)] = "running"] /\ process' = process
      BY <2>1 DEF StartConnector, Main, BegunInOrder
    <3>2. life'[p] = life[p] \/ (life[p] = "new" /\ life'[p] = "running")
      BY <1>a, <3>1 DEF ProcTypes
    <3> QED
      BY <3>1, <3>2, ConnSteps
  <2>2. CASE Calls(g) \/ Register(g) \/ Answer(g)
    BY <1>c, <2>2 DEF Calls, Register, Answer
  <2> QED
    BY <1>1, <2>1, <2>2 DEF SetupStep
<1>2. ASSUME NEW g \in Gens, Spawn(g) PROVE [Conn(p)!Next]_<<life[p], process[p]>>
  <2>1. /\ p # Tun(g) => process'[p] = process[p]
        /\ p = Tun(g) => life[p] = "running" /\ ~process[p] /\ process'[p] = TRUE
    BY <1>2, <1>a DEF Spawn, ProcTypes
  <2> QED
    BY <1>2, <2>1, ConnSteps DEF Spawn
<1>3. ASSUME NEW q \in Quicks, LinkStep(q) PROVE [Conn(p)!Next]_<<life[p], process[p]>>
  <2>1. CASE OpenLink(q)
    <3>1. ~process[Link(q)] /\ life' = life
      BY <2>1 DEF OpenLink, Main, LinkEnds
    <3>2. \/ process' = process
          \/ life[Link(q)] = "running" /\ process' = [process EXCEPT ![Link(q)] = TRUE]
      BY <2>1 DEF OpenLink
    <3>3. \/ process'[p] = process[p]
          \/ life[p] = "running" /\ ~process[p] /\ process'[p] = TRUE
      BY <1>a, <3>1, <3>2 DEF ProcTypes
    <3> QED
      BY <3>1, <3>3, ConnSteps
  <2>2. CASE LinkGivenUp(q)
    BY <1>b, <2>2 DEF LinkGivenUp
  <2>3. CASE LinkFound(q) \/ LinkAnswers(q, "opened") \/ LinkAnswers(q, "failed")
    BY <1>c, <2>3 DEF LinkFound, LinkAnswers
  <2> QED
    BY <1>3, <2>1, <2>2, <2>3 DEF LinkStep
<1>4. ASSUME NEW r \in Procs, Ends(r) PROVE [Conn(p)!Next]_<<life[p], process[p]>>
  <2>1. \/ process'[p] = process[p]
        \/ process[p] /\ process'[p] = FALSE
    BY <1>4, <1>a DEF Ends, ProcTypes
  <2> QED
    BY <1>4, <2>1, ConnSteps DEF Ends
<1>5. CASE RunVerified
  BY <1>5, <1>d DEF RunVerified
<1>6. CASE RunReload
  BY <1>6, <1>d DEF RunReload
<1>7. CASE RunPause
  BY <1>7, <1>b, <1>c DEF RunPause, procs
<1>8. CASE RunResume
  BY <1>8, <1>d DEF RunResume
<1>9. CASE RunReady
  BY <1>9, <1>b, <1>c DEF RunReady, procs
<1>10. ASSUME NEW o, RunLink(o) PROVE [Conn(p)!Next]_<<life[p], process[p]>>
  BY <1>10, <1>c DEF RunLink
<1>11. ASSUME NEW q \in Quicks, StartQuick(q) PROVE [Conn(p)!Next]_<<life[p], process[p]>>
  <2>1. life[Link(q)] = "new" /\ life' = [life EXCEPT ![Link(q)] = "running"] /\ process' = process
    BY <1>11 DEF StartQuick, Main, LinkBegun
  <2>2. life'[p] = life[p] \/ (life[p] = "new" /\ life'[p] = "running")
    BY <1>a, <2>1 DEF ProcTypes
  <2> QED
    BY <2>1, <2>2, ConnSteps
<1>12. ASSUME NEW qs, CloseQuick(qs) PROVE [Conn(p)!Next]_<<life[p], process[p]>>
  BY <1>12, <1>b DEF CloseQuick
<1>13. ASSUME NEW kind, Asked(kind) PROVE [Conn(p)!Next]_<<life[p], process[p]>>
  BY <1>13, <1>c DEF Asked
<1>14. CASE Quit \/ RunClosers \/ UNCHANGED vars
  BY <1>14, <1>b, <1>c DEF Quit, RunClosers, vars
<1>15. ~Exit
  BY DEF Exit
<1> QED
  BY <1>1, <1>2, <1>3, <1>4, <1>5, <1>6, <1>7, <1>8, <1>9, <1>10, <1>11, <1>12, <1>13, <1>14, <1>15
     DEF Next, LoopStep, Stay

-----------------------------------------------------------------------------
(* The theorems.                                                           *)

\* The invariant holds when the application starts.
LEMMA Starts == Init => IInv /\ NoStrayConnector
<1> SUFFICES ASSUME Init PROVE IInv /\ NoStrayConnector
  OBVIOUS
<1>1. TypeOK
  <2>1. posts \in Seq(Post) /\ Len(posts) <= PostCap
    <3>1. posts = <<>> /\ posts \in Seq(Post) /\ Len(<<>>) = 0
      BY EmptySeq DEF Init
    <3> QED
      BY <3>1, SetupAssumption
  <2>2. PanelTypes
    <3>1. gen \in 0..MaxGen /\ tunnel \in 0..MaxGen
      BY SetupAssumption DEF Init
    <3>2. client \in BOOLEAN /\ disabled \in BOOLEAN
      BY DEF Init
    <3> QED
      BY <3>1, <3>2 DEF Init, PanelTypes
  <2>3. TaskTypes
    BY <2>1 DEF Init, TaskTypes
  <2>4. ProcTypes
    BY DEF Init, ProcTypes
  <2> QED
    BY <2>2, <2>3, <2>4 DEF TypeOK
<1>2. \A r : ~Pending(r)
  BY EmptySeq DEF Init, Pending
<1>3. \A q \in Quicks : LinkBegun(q) /\ LinkEnds(q)
  BY <1>2, ProcNames DEF Init, LinkBegun, LinkEnds
<1>4. BegunInOrder /\ InstalledIsNewest /\ ClosersKnowAll /\ NoStrayConnector
  BY ProcNames DEF Init, BegunInOrder, InstalledIsNewest, ClosersKnowAll, NoStrayConnector
<1> QED
  BY <1>1, <1>3, <1>4 DEF IInv, Main

\* Every step keeps the invariant.
LEMMA StepInv == IInv /\ [Next]_vars => IInv'
<1> SUFFICES ASSUME TypeOK, Main, [Next]_vars PROVE TypeOK' /\ Main'
  BY DEF IInv
<1>1. BegunInOrder /\ InstalledIsNewest /\ ClosersKnowAll /\ \A q \in Quicks : LinkOK(q)
  BY DEF Main, LinkOK
<1>2. TypeOK' /\ BegunInOrder' /\ InstalledIsNewest' /\ ClosersKnowAll'
  BY <1>1, StepType, StepOrder, StepClosers
<1>3. \A q \in Quicks : LinkOK(q)'
  BY <1>1, StepLinks
<1> QED
  BY <1>2, <1>3 DEF Main, LinkOK

\* The invariant holds throughout.
THEOREM SetupInvariant == Spec => []IInv
BY Starts, StepInv, PTL DEF Spec

\* The variables keep their types, whatever the loop, the goroutines of the
\* tunnels and of the links, and the exit do in whatever order.
THEOREM SetupTypeCorrect == Spec => []TypeOK
<1>1. IInv => TypeOK
  BY DEF IInv
<1> QED
  BY <1>1, SetupInvariant, PTL

\* Re-verifications, reloads, pauses and resumes, however they overlap with the
\* goroutines of ensureTunnel, leave no connector that runs and is neither
\* installed nor about to be settled.  A post channel that drops the closure of
\* a goroutine would leave one, so the channel is assumed not to be full.
THEOREM NoConnectorIsStray ==
  ASSUME "full" \notin Env
  PROVE  Spec => []NoStrayConnector
<1>1. IInv /\ NoStrayConnector /\ [Next]_vars => NoStrayConnector'
  BY StepNoStray DEF IInv, Main
<1> QED
  BY <1>1, Starts, StepInv, PTL DEF Spec

\* The process of a quick link is one the user still sees, or is being killed:
\* stopQuick and a link that could not be opened leave no process behind.
THEOREM LinksStayListed == Spec => []LinksAreListed
<1>1. ASSUME IInv, NEW q \in Quicks, process[Link(q)]
      PROVE  life[Link(q)] = "stopped" \/ entry[q] \in {"starting", "opened"}
  <2>1. LinkBegun(q) /\ LinkEnds(q) /\ entry[q] \in {"none", "starting", "opened", "failed", "removed"}
    BY <1>1 DEF IInv, Main, TypeOK, TaskTypes
  <2> QED
    BY <1>1, <2>1 DEF LinkBegun, LinkEnds
<1>2. IInv => LinksAreListed
  BY <1>1 DEF LinksAreListed
<1> QED
  BY <1>2, SetupInvariant, PTL

\* Until they have run, the closers know every connector and link that was
\* started and not stopped, but for one whose goroutine is between sup.Start
\* and its registration: Shutdown then stops all the others.
THEOREM ClosersKnow == Spec => []ClosersKnowAll
<1>1. IInv => ClosersKnowAll
  BY DEF IInv, Main
<1> QED
  BY <1>1, SetupInvariant, PTL

\* Every connector and every link keeps, step by step and until the exit, the
\* promise of Connector: it starts once, its processes come one at a time and
\* only while it was started and not stopped, and what is stopped stays so.
THEOREM ConnectorsKeepTheirPromise == Spec => ConnectorsKeepPromise
<1>1. ASSUME IInv, [Next]_vars
      PROVE  phase' # "down" => \A p \in Procs : [Conn(p)!Next]_<<life[p], process[p]>>
  BY <1>1, StepConnectors DEF IInv
<1>2. IInv /\ [Next]_vars =>
        [phase' # "down" => \A p \in Procs : [Conn(p)!Next]_<<life[p], process[p]>>]_vars
  BY <1>1
<1> QED
  BY <1>2, SetupInvariant, PTL DEF Spec, ConnectorsKeepPromise
=============================================================================
