--------------------------- MODULE SettingsProofs ---------------------------
(***************************************************************************)
(* Whatever the programs do to each other's copies, a change is lost only  *)
(* by overwriting, and the panel agrees with the file it was told of: for  *)
(* any hostnames, tokens, number of commands, capacity of the post channel *)
(* and everything in Env, with no assumption about who interrupts whom.    *)
(***************************************************************************)
EXTENDS Settings, SequenceTheorems, TLAPS

-----------------------------------------------------------------------------
(* The inductive invariant.                                                *)

\* The panel's list and token are the file's, or it is about to be told.
ListKnown ==
  app # "off" /\ "list" \notin behind =>
    \/ panel.routes = file.routes /\ panel.token = file.token
    \/ app = "up" /\ \E i \in DOMAIN posts : posts[i].kind = "reload"
    \/ \E c \in Invocations : cmd[c].at = "notify"

\* The panel still means to delete what it was asked to.
OwedIsQueued == app # "off" => wish.pending \subseteq panel.pending

\* The panel's pause is the file's, where a launch restores it.
FlagIsKnown ==
  app # "off" =>
    /\ panel.restore = file.restore
    /\ file.restore => "paused" \in behind \/ panel.paused = file.paused

Kept == ~lossy => NothingIsLost /\ OwedIsQueued /\ FlagIsKnown

IInv == TypeOK /\ ListKnown /\ Kept

-----------------------------------------------------------------------------
(* Types.                                                                  *)

Kinds == {"reload", "verified", "unverified", "saved", "toggle", "pause", "resume"}

Wish == [token : Tokens \cup {NoToken}, routes : SUBSET Hosts, pending : SUBSET Hosts]

PostsType == posts \in Seq(Post) /\ Len(posts) <= PostCap

HistoryType == wish \in Wish /\ behind \subseteq {"list", "paused"} /\ lossy \in BOOLEAN

\* A closure that is posted joins those that wait, unless the channel is full.
LEMMA DispatchStep ==
  ASSUME PostsType, NEW kind \in Kinds, NEW token \in Tokens \cup {NoToken},
         Dispatch(kind, token)
  PROVE  /\ PostsType'
         /\ \A i \in DOMAIN posts : i \in DOMAIN posts' /\ posts'[i] = posts[i]
         /\ posts' = posts \/ \E i \in DOMAIN posts' : posts'[i].kind = kind
<1> DEFINE p == [kind |-> kind, token |-> token]
<1>1. p \in Post /\ p.kind = kind
  BY DEF Post, Kinds
<1> HIDE DEF p
<1>2. posts \in Seq(Post) /\ Len(posts) \in Nat /\ Len(posts) <= PostCap
  BY DEF PostsType
<1>3. CASE Len(posts) < PostCap
  <2>1. posts' = Append(posts, p)
    BY <1>3 DEF Dispatch, p
  <2>2. /\ posts' \in Seq(Post) /\ Len(posts') = Len(posts) + 1
        /\ \A i \in 1..Len(posts) : posts'[i] = posts[i]
        /\ posts'[Len(posts) + 1] = p
    BY <1>1, <1>2, <2>1, AppendProperties
  <2>3. PostsType'
    BY <1>2, <1>3, <2>2, SettingsAssumption DEF PostsType
  <2>4. DOMAIN posts' = 1..(Len(posts) + 1) /\ DOMAIN posts = 1..Len(posts)
    BY <1>2, <2>2
  <2>5. Len(posts) + 1 \in DOMAIN posts' /\ \A i \in DOMAIN posts : i \in DOMAIN posts'
    BY <1>2, <2>4
  <2>. QED  BY <1>1, <2>2, <2>3, <2>4, <2>5
<1>4. CASE ~(Len(posts) < PostCap)
  <2>1. posts' = posts
    BY <1>4 DEF Dispatch
  <2>. QED  BY <2>1 DEF PostsType
<1>. QED  BY <1>3, <1>4

LEMMA RunStep ==
  ASSUME PostsType, NEW kind, Run(kind)
  PROVE  /\ PostsType' /\ Head(posts) \in Post
         /\ posts # <<>> /\ Head(posts) = posts[1]
         /\ \A i \in DOMAIN posts : i # 1 => i - 1 \in DOMAIN posts' /\ posts'[i - 1] = posts[i]
<1>1. posts \in Seq(Post) /\ posts # <<>> /\ posts' = Tail(posts) /\ Len(posts) <= PostCap
  BY DEF PostsType, Run
<1>2. /\ posts' \in Seq(Post) /\ Len(posts') = Len(posts) - 1 /\ Len(posts) \in Nat
      /\ \A i \in 1..Len(posts') : posts'[i] = posts[i + 1]
  BY <1>1, HeadTailProperties
<1>3. Head(posts) \in Post /\ Head(posts) = posts[1]
  BY <1>1, HeadTailProperties
<1>4. DOMAIN posts' = 1..Len(posts') /\ DOMAIN posts = 1..Len(posts)
  BY <1>1, <1>2
<1>5. ASSUME NEW i \in DOMAIN posts, i # 1
      PROVE  i - 1 \in DOMAIN posts' /\ posts'[i - 1] = posts[i]
  <2>1. i \in Nat /\ i - 1 \in 1..Len(posts') /\ (i - 1) + 1 = i
    BY <1>2, <1>4, <1>5
  <2>. QED  BY <1>2, <1>4, <2>1
<1>6. PostsType'
  BY <1>1, <1>2, SettingsAssumption DEF PostsType
<1>. QED  BY <1>1, <1>3, <1>5, <1>6

LEMMA ConfigFacts ==
  /\ Empty \in Config /\ Idle \in Invocation /\ Notifying \in Invocation
  /\ Idle.at = "idle" /\ Idle.op = "none"
  /\ Notifying.at = "notify" /\ Notifying.op = "none"
BY DEF Empty, Config, Idle, Notifying, Invocation

\* What a load returns is a configuration, and if it is not the file's it lacks
\* only the token and the pending deletions.
LEMMA LoadsType ==
  ASSUME file \in Config, NEW k \in Loads
  PROVE  k \in Config
BY DEF Loads, Config

\* What a command makes of a configuration is one.
LEMMA WithType ==
  ASSUME NEW k \in Config, NEW op \in Ops \cup {"none"},
         NEW arg \in Hosts \cup Tokens \cup {NoToken},
         op \in {"add", "rm"} => arg \in Hosts, op = "login" => arg \in Tokens,
         NEW routes \in Lists(op, arg, k.routes)
  PROVE  routes \in SUBSET Hosts /\ With(k, op, arg, routes) \in Config
<1>1. routes \in SUBSET Hosts
  <2>1. Changed(op, arg, k.routes) \in SUBSET Hosts
    BY DEF Changed, Config
  <2>. QED  BY <2>1 DEF Lists
<1>2. (op = "pause") \in BOOLEAN
  OBVIOUS
<1>. QED  BY <1>1, <1>2 DEF With, Config

\* A save leaves a configuration, and the history in its type.
LEMMA SaveType ==
  ASSUME TypeOK, NEW p \in Config, SaveConfig(p)
  PROVE  file' \in Config /\ behind' \subseteq {"list", "paused"} /\ lossy' \in BOOLEAN
<1>1. file' \in Config /\ behind' \subseteq {"list", "paused"}
  BY DEF SaveConfig, TypeOK
<1>2. lossy' \in BOOLEAN
  <2>1. UpToDate \in BOOLEAN
    BY DEF UpToDate
  <2>. QED  BY Zenon, <2>1 DEF SaveConfig, TypeOK
<1>. QED  BY <1>1, <1>2

LEMMA AskedType ==
  ASSUME NEW w \in Wish, Asked(w)
  PROVE  wish' \in Wish
BY DEF Asked, Nothing, Wish

LEMMA TypeStep ==
  ASSUME TypeOK, [Next]_vars
  PROVE  TypeOK'
<1>. USE DEF TypeOK, Wish
<1>a. PostsType
  BY DEF PostsType
<1>b. Unverified \in [on : BOOLEAN, held : Tokens \cup {NoToken}]
  BY DEF Unverified
<1>c. \A t \in Tokens \cup {NoToken} : Verifying(t) \in [on : BOOLEAN, held : Tokens \cup {NoToken}]
  BY DEF Verifying
<1>d. UNCHANGED cmd => CmdType'
  BY DEF CmdType
<1>e. \A k : \A known : known \subseteq {"list", "paused"} => Missed(k, known) \subseteq {"list", "paused"}
  BY DEF Missed
<1>1. CASE UNCHANGED vars
  BY <1>1, <1>d DEF vars, history
<1>2. CASE Launch
  <2>1. HistoryType' /\ panel' \in Config /\ verify' \in [on : BOOLEAN, held : Tokens \cup {NoToken}]
    <3>1. ASSUME NEW k \in Loads,
                 panel' = [k EXCEPT !.paused = k.restore => k.paused],
                 verify' = Verifying(k.token),
                 behind' = Missed(k, {}), lossy' = (lossy \/ k # file)
          PROVE  HistoryType' /\ panel' \in Config
                 /\ verify' \in [on : BOOLEAN, held : Tokens \cup {NoToken}]
      <4>1. k \in Config /\ k.token \in Tokens \cup {NoToken}
        BY LoadsType DEF Config
      <4>2. (k.restore => k.paused) \in BOOLEAN
        BY Zenon
      <4>3. panel' \in Config
        BY <3>1, <4>1, <4>2 DEF Config
      <4>4. lossy' \in BOOLEAN
        BY Zenon, <3>1
      <4>5. behind' \subseteq {"list", "paused"}
        BY <3>1, <1>e
      <4>. QED  BY <1>2, <1>c, <3>1, <4>1, <4>3, <4>4, <4>5 DEF Launch, HistoryType
    <3>2. CASE panel' = Empty /\ verify' = Unverified /\ behind' = {"list", "paused"} /\ lossy' = TRUE
      BY <1>2, <1>b, <3>2, ConfigFacts DEF Launch, HistoryType
    <3>. QED  BY <1>2, <3>1, <3>2 DEF Launch
  <2>. QED  BY <1>2, <1>d, <2>1 DEF Launch, HistoryType
<1>3. CASE Serve
  BY <1>3, <1>d DEF Serve, history
<1>4. CASE Gone
  <2>1. <<>> \in Seq(Post) /\ Len(<<>>) <= PostCap
    BY SettingsAssumption
  <2>. QED  BY <1>4, <1>d, <1>b, <2>1, ConfigFacts DEF Gone, history
<1>5. CASE Verified
  <2>1. PICK kind \in {"verified", "unverified"} : Dispatch(kind, verify.held)
    BY <1>5 DEF Verified
  <2>2. verify.held \in Tokens \cup {NoToken}
    OBVIOUS
  <2>3. PostsType'
    BY <1>a, <2>1, <2>2, DispatchStep DEF Kinds
  <2>. QED  BY <1>5, <1>d, <2>3 DEF Verified, PostsType, history
<1>6. CASE MenuToggle
  <2>1. PostsType'
    BY <1>6, <1>a, DispatchStep DEF MenuToggle, Kinds
  <2>. QED  BY <1>6, <1>d, <2>1 DEF MenuToggle, PostsType, history
<1>7. CASE RunReload
  <2>1. PostsType'
    BY <1>7, <1>a, RunStep DEF RunReload
  <2>2. panel' \in Config /\ behind' \subseteq {"list", "paused"}
    <3>1. ASSUME NEW k \in Loads,
                 panel' = [panel EXCEPT !.token = k.token, !.routes = k.routes],
                 behind' = Missed(k, behind \ {"list"})
          PROVE  panel' \in Config /\ behind' \subseteq {"list", "paused"}
      <4>1. k \in Config
        BY LoadsType
      <4>2. panel' \in Config
        BY <3>1, <4>1 DEF Config
      <4>. QED  BY <3>1, <4>2, <1>e
    <3>2. CASE UNCHANGED panel /\ behind' = behind \cup {"list"}
      BY <3>2
    <3>. QED  BY <1>7, <3>1, <3>2 DEF RunReload
  <2>. QED  BY <1>7, <1>d, <2>1, <2>2 DEF RunReload, PostsType
<1>8. CASE RunVerified
  <2>1. PostsType' /\ Head(posts) \in Post
    BY <1>8, <1>a, RunStep DEF RunVerified
  <2>2. Head(posts).token \in Tokens \cup {NoToken}
    BY <2>1 DEF Post
  <2>3. panel' \in Config
    BY <1>8, <2>2 DEF RunVerified, Config
  <2>4. file' \in Config /\ behind' \subseteq {"list", "paused"} /\ lossy' \in BOOLEAN
    BY <1>8, <2>3, SaveType DEF RunVerified
  <2>5. wish' \in Wish
    <3>1. [wish EXCEPT !.token = Head(posts).token] \in Wish
      BY <2>2
    <3>. QED  BY <1>8, <3>1, AskedType DEF RunVerified
  <2>. QED  BY <1>8, <1>d, <1>b, <2>1, <2>3, <2>4, <2>5 DEF RunVerified, PostsType
<1>9. CASE RunUnverified
  <2>1. PostsType'
    BY <1>9, <1>a, RunStep DEF RunUnverified
  <2>. QED  BY <1>9, <1>d, <1>b, <2>1 DEF RunUnverified, PostsType, history
<1>10. CASE RunSaved
  <2>1. PostsType'
    BY <1>10, <1>a, RunStep DEF RunSaved
  <2>2. file' \in Config /\ behind' \subseteq {"list", "paused"} /\ lossy' \in BOOLEAN
    BY <1>10, SaveType DEF RunSaved
  <2>. QED  BY <1>10, <1>d, <2>1, <2>2 DEF RunSaved, PostsType
<1>11. CASE RunPause
  <2>1. PICK kind \in {"toggle", "pause", "resume"} : Run(kind) /\ SetDisabled(Ordered(kind))
    BY <1>11 DEF RunPause
  <2>2. PostsType'
    BY <1>a, <2>1, RunStep
  <2>3. Ordered(kind) \in BOOLEAN
    BY Zenon DEF Ordered
  <2>4. panel' \in Config
    BY <2>1, <2>3 DEF SetDisabled, Config
  <2>5. file' \in Config /\ behind' \subseteq {"list", "paused"} /\ lossy' \in BOOLEAN
    <3>1. CASE panel.paused = Ordered(kind)
      BY <2>1, <3>1 DEF SetDisabled
    <3>2. CASE panel.paused # Ordered(kind)
      BY <2>1, <2>4, <3>2, SaveType DEF SetDisabled
    <3>. QED  BY <3>1, <3>2
  <2>. QED  BY <1>11, <1>d, <2>2, <2>4, <2>5 DEF RunPause, PostsType
<1>12. ASSUME NEW h \in Hosts, PopJob(h) PROVE TypeOK'
  <2>1. PostsType'
    BY <1>12, <1>a, DispatchStep DEF PopJob, Kinds
  <2>2. panel' \in Config
    BY <1>12 DEF PopJob, Config
  <2>3. wish' \in Wish
    <3>1. [wish EXCEPT !.pending = @ \ {h}] \in Wish
      OBVIOUS
    <3>. QED  BY <1>12, <3>1, AskedType DEF PopJob
  <2>. QED  BY <1>12, <1>d, <2>1, <2>2, <2>3 DEF PopJob, PostsType
<1>13. ASSUME NEW h \in Hosts, AddRow(h) PROVE TypeOK'
  <2>1. panel' \in Config
    BY <1>13 DEF AddRow, Config
  <2>2. file' \in Config /\ behind' \subseteq {"list", "paused"} /\ lossy' \in BOOLEAN
    BY <1>13, <2>1, SaveType DEF AddRow
  <2>3. wish' \in Wish
    <3>1. [wish EXCEPT !.routes = @ \cup {h}] \in Wish
      OBVIOUS
    <3>. QED  BY <1>13, <3>1, AskedType DEF AddRow
  <2>. QED  BY <1>13, <1>d, <2>1, <2>2, <2>3 DEF AddRow, Input
<1>14. ASSUME NEW h \in Hosts, DeleteRow(h) PROVE TypeOK'
  <2>1. panel' \in Config
    BY <1>14 DEF DeleteRow, Config
  <2>2. file' \in Config /\ behind' \subseteq {"list", "paused"} /\ lossy' \in BOOLEAN
    BY <1>14, <2>1, SaveType DEF DeleteRow
  <2>3. wish' \in Wish
    <3>1. [wish EXCEPT !.routes = @ \ {h}, !.pending = @ \cup {h}] \in Wish
      OBVIOUS
    <3>. QED  BY <1>14, <3>1, AskedType DEF DeleteRow
  <2>. QED  BY <1>14, <1>d, <2>1, <2>2, <2>3 DEF DeleteRow, Input
<1>15. CASE ToggleRestoreLastState
  <2>1. panel' \in Config
    <3>1. (~panel.restore) \in BOOLEAN
      BY Zenon
    <3>. QED  BY <1>15, <3>1 DEF ToggleRestoreLastState, Config
  <2>2. file' \in Config /\ behind' \subseteq {"list", "paused"} /\ lossy' \in BOOLEAN
    BY <1>15, <2>1, SaveType DEF ToggleRestoreLastState
  <2>. QED  BY <1>15, <1>d, <2>1, <2>2 DEF ToggleRestoreLastState, Input
<1>16. ASSUME NEW t \in Tokens, PasteToken(t) PROVE TypeOK'
  BY <1>16, <1>d, <1>c DEF PasteToken, Input, history
<1>17. ASSUME NEW c \in Invocations, NEW i \in Invocation, cmd' = [cmd EXCEPT ![c] = i],
              i.op \in {"add", "rm"} => i.arg \in Hosts, i.op = "login" => i.arg \in Tokens,
              i.at = "discover" => i.op \in {"pause", "resume"}
       PROVE  CmdType'
  BY <1>17 DEF CmdType
<1>18. ASSUME NEW c \in Invocations, Begin(c) PROVE TypeOK'
  <2>1. PICK op \in Ops : \E arg \in Args(op) :
          cmd' = [cmd EXCEPT ![c] =
                 [at |-> IF op \in {"pause", "resume"} THEN "discover" ELSE "load",
                  op |-> op, arg |-> arg, copy |-> Empty]]
    BY <1>18 DEF Begin
  <2>2. PICK arg \in Args(op) :
          cmd' = [cmd EXCEPT ![c] =
                 [at |-> IF op \in {"pause", "resume"} THEN "discover" ELSE "load",
                  op |-> op, arg |-> arg, copy |-> Empty]]
    BY <2>1
  <2> DEFINE i == [at |-> IF op \in {"pause", "resume"} THEN "discover" ELSE "load",
                   op |-> op, arg |-> arg, copy |-> Empty]
  <2>3. /\ op \in {"add", "rm"} => arg \in Hosts
        /\ op = "login" => arg \in Tokens
        /\ arg \in Hosts \cup Tokens \cup {NoToken}
    BY <2>2 DEF Args
  <2>4. i \in Invocation /\ i.op = op /\ i.arg = arg /\ (i.at = "discover" => op \in {"pause", "resume"})
    BY <2>3, ConfigFacts DEF Invocation
  <2>5. cmd' = [cmd EXCEPT ![c] = i]
    BY <2>2
  <2> HIDE DEF i
  <2>6. CmdType'
    BY <2>3, <2>4, <2>5, <1>17
  <2>. QED  BY <1>18, <2>6 DEF Begin, history
<1>19. ASSUME NEW c \in Invocations, End(c) PROVE CmdType'
  <2>1. Idle.op \notin {"add", "rm", "login"} /\ Idle.at # "discover"
    BY ConfigFacts
  <2>. QED  BY <1>19, <1>17, <2>1, ConfigFacts DEF End
<1>20. ASSUME NEW c \in Invocations, NEW at \in {"load", "save"},
              NEW copy \in Config, Set(c, at, copy)
       PROVE  CmdType'
  <2> DEFINE i == [cmd[c] EXCEPT !.at = at, !.copy = copy]
  <2>1. cmd[c] \in Invocation
    BY DEF CmdType
  <2>2. /\ i \in Invocation /\ i.at = at
        /\ i.op = cmd[c].op /\ i.arg = cmd[c].arg
    BY <2>1 DEF Invocation
  <2>3. cmd' = [cmd EXCEPT ![c] = i]
    BY <1>20 DEF Set
  <2> HIDE DEF i
  <2>. QED  BY <2>2, <2>3 DEF CmdType
<1>21. ASSUME NEW c \in Invocations, Order(c) PROVE TypeOK'
  <2>1. CASE app = "up"
    <3>1. cmd[c].op \in Kinds
      BY <1>21 DEF Order, CmdType, Kinds
    <3>2. PostsType'
      BY <1>21, <1>a, <2>1, <3>1, DispatchStep DEF Order
    <3>. QED  BY <1>21, <1>19, <2>1, <3>2 DEF Order, PostsType, history
  <2>2. CASE app # "up"
    BY <1>21, <1>20, <2>2, ConfigFacts DEF Order, history
  <2>. QED  BY <2>1, <2>2
<1>22. ASSUME NEW c \in Invocations, Load(c) PROVE TypeOK'
  <2>1. End(c) \/ \E k \in Loads : Set(c, "save", k)
    BY <1>22 DEF Load
  <2>2. CmdType'
    BY <1>19, <1>20, <2>1, LoadsType
  <2>. QED  BY <1>22, <2>2 DEF Load, history
<1>23. ASSUME NEW c \in Invocations, Fails(c) PROVE TypeOK'
  BY <1>23, <1>19 DEF Fails, history
<1>24. ASSUME NEW c \in Invocations, Save(c) PROVE TypeOK'
  <2> DEFINE op == cmd[c].op
             arg == cmd[c].arg
             copy == cmd[c].copy
  <2>1. PICK routes \in Lists(op, arg, copy.routes) :
          /\ file' = With(copy, op, arg, routes)
          /\ Asked(Asks(op, arg, routes))
    BY <1>24 DEF Save
  <2>2. /\ op \in Ops \cup {"none"} /\ copy \in Config
        /\ arg \in Hosts \cup Tokens \cup {NoToken}
        /\ op \in {"add", "rm"} => arg \in Hosts
        /\ op = "login" => arg \in Tokens
    <3>1. /\ cmd[c] \in Invocation
          /\ op \in {"add", "rm"} => arg \in Hosts
          /\ op = "login" => arg \in Tokens
      BY DEF CmdType
    <3>. QED  BY <3>1 DEF Invocation
  <2>3. file' \in Config /\ routes \in SUBSET Hosts
    <3> HIDE DEF op, arg, copy
    <3>. QED  BY <2>1, <2>2, WithType
  <2>4. wish' \in Wish
    <3>1. Changed(op, arg, wish.routes) \in SUBSET Hosts
      BY <2>2 DEF Changed
    <3>2. Asks(op, arg, routes) \in Wish
      BY <2>2, <2>3, <3>1 DEF Asks
    <3>. QED  BY <2>1, <3>2, AskedType
  <2>5. lossy' \in BOOLEAN
    BY Zenon, <1>24 DEF Save
  <2>6. behind' \subseteq {"list", "paused"}
    BY <1>24 DEF Save, Silent
  <2>7. CASE op \in Notifies
    <3>1. CmdType'
      BY <1>24, <2>7, <1>17, ConfigFacts DEF Save
    <3>. QED  BY <1>24, <2>3, <2>4, <2>5, <2>6, <3>1 DEF Save
  <2>8. CASE op \notin Notifies
    <3>1. CmdType'
      BY <1>24, <2>8, <1>19 DEF Save
    <3>. QED  BY <1>24, <2>3, <2>4, <2>5, <2>6, <3>1 DEF Save
  <2>. QED  BY <2>7, <2>8
<1>25. ASSUME NEW c \in Invocations, Notify(c) PROVE TypeOK'
  <2>1. PostsType'
    <3>1. CASE app = "up"
      BY <1>25, <3>1, <1>a, DispatchStep DEF Notify, Kinds
    <3>2. CASE app # "up"
      BY <1>25, <3>2, <1>a DEF Notify, PostsType
    <3>. QED  BY <3>1, <3>2
  <2>. QED  BY <1>25, <1>19, <2>1 DEF Notify, PostsType
<1>. QED
  BY <1>1, <1>2, <1>3, <1>4, <1>5, <1>6, <1>7, <1>8, <1>9, <1>10, <1>11, <1>12, <1>13,
     <1>14, <1>15, <1>16, <1>18, <1>21, <1>22, <1>23, <1>24, <1>25
     DEF Next, RunPost, Command

-----------------------------------------------------------------------------
(* The invariant is kept.                                                  *)

ReloadWaits == \E i \in DOMAIN posts : posts[i].kind = "reload"

\* A closure that is posted leaves a waiting reload waiting ...
LEMMA DispatchKeepsReload ==
  ASSUME TypeOK, NEW kind \in Kinds, NEW token \in Tokens \cup {NoToken},
         Dispatch(kind, token)
  PROVE  ReloadWaits => ReloadWaits'
<1>1. PostsType
  BY DEF TypeOK, PostsType
<1>. QED  BY <1>1, DispatchStep DEF ReloadWaits

\* ... and so does any other that runs.
LEMMA RunKeepsReload ==
  ASSUME TypeOK, NEW kind, kind # "reload", Run(kind)
  PROVE  ReloadWaits => ReloadWaits'
<1>1. PostsType /\ posts # <<>> /\ posts[1].kind # "reload"
  <2>1. PostsType
    BY DEF TypeOK, PostsType
  <2>. QED  BY <2>1, RunStep DEF Run
<1>2. ASSUME NEW i \in DOMAIN posts, posts[i].kind = "reload"
      PROVE  ReloadWaits'
  <2>1. i # 1
    BY <1>1, <1>2
  <2>2. i - 1 \in DOMAIN posts' /\ posts'[i - 1] = posts[i]
    BY <1>1, <2>1, RunStep
  <2>. QED  BY <1>2, <2>2 DEF ReloadWaits
<1>. QED  BY <1>2 DEF ReloadWaits

\* A step that saves, loads and notifies nothing.
LEMMA Undisturbed ==
  ASSUME IInv, UNCHANGED <<file, app, panel, wish, behind, lossy>>,
         ReloadWaits => ReloadWaits',
         \A c \in Invocations : cmd[c].at = "notify" => cmd'[c].at = "notify"
  PROVE  ListKnown' /\ Kept'
<1>1. ListKnown'
  BY DEF IInv, ListKnown, ReloadWaits
<1>2. Kept'
  BY DEF IInv, Kept, NothingIsLost, OwedIsQueued, FlagIsKnown
<1>. QED  BY <1>1, <1>2

\* What holds after the panel saved its copy, and asked for no more than that.
LEMMA AfterSave ==
  ASSUME IInv, app # "off", UNCHANGED app, SaveConfig(panel'), NEW w, Asked(w),
         /\ panel.routes = wish.routes => panel'.routes = w.routes
         /\ panel.token = wish.token => panel'.token = w.token
         /\ wish.pending \subseteq panel.pending => w.pending \subseteq panel'.pending
  PROVE  ListKnown' /\ Kept'
<1>1. ListKnown'
  BY DEF SaveConfig, ListKnown
<1>2. ASSUME ~lossy'
      PROVE  NothingIsLost' /\ OwedIsQueued' /\ FlagIsKnown'
  <2>1. ~lossy /\ UpToDate /\ file' = panel'
    BY <1>2 DEF SaveConfig
  <2>2. NothingIsLost /\ OwedIsQueued /\ wish' = w
    BY <2>1 DEF IInv, Kept, Asked
  <2>3. w.routes = panel'.routes /\ w.token = panel'.token /\ w.pending \subseteq panel'.pending
    BY <2>1, <2>2 DEF NothingIsLost, OwedIsQueued, UpToDate
  <2>. QED  BY <2>1, <2>2, <2>3 DEF NothingIsLost, OwedIsQueued, FlagIsKnown
<1>. QED  BY <1>1, <1>2 DEF Kept

LEMMA SavingSteps ==
  ASSUME IInv, RunVerified \/ RunSaved \/ RunPause \/ ToggleRestoreLastState
               \/ \E h \in Hosts : AddRow(h) \/ DeleteRow(h)
  PROVE  ListKnown' /\ Kept'
<1>a. TypeOK /\ panel \in Config /\ wish \in Wish
  BY DEF IInv, TypeOK, Wish
<1>b. UNCHANGED wish => Asked(wish) \/ lossy
  BY DEF Asked
<1>1. CASE RunVerified
  <2> DEFINE w == [wish EXCEPT !.token = Head(posts).token]
  <2>1. /\ app # "off" /\ UNCHANGED app /\ SaveConfig(panel') /\ Asked(w)
    BY <1>1 DEF RunVerified, Run
  <2>2. /\ panel'.routes = panel.routes /\ panel'.pending = panel.pending
        /\ panel'.token = Head(posts).token
        /\ w.routes = wish.routes /\ w.pending = wish.pending /\ w.token = Head(posts).token
    BY <1>1, <1>a DEF RunVerified, Config, Wish
  <2> HIDE DEF w
  <2>. QED  BY <2>1, <2>2, AfterSave
<1>2. ASSUME app # "off", UNCHANGED <<app, wish>>, SaveConfig(panel'),
             panel'.routes = panel.routes, panel'.token = panel.token,
             panel'.pending = panel.pending
      PROVE  ListKnown' /\ Kept'
  <2>1. CASE ~lossy
    BY <1>2, <1>b, <2>1, AfterSave
  <2>2. CASE lossy
    <3>1. lossy'
      BY Zenon, <1>2, <2>2 DEF SaveConfig
    <3>. QED  BY <1>2, <3>1 DEF SaveConfig, ListKnown, Kept
  <2>. QED  BY <2>1, <2>2
<1>3. CASE RunSaved
  BY <1>2, <1>3 DEF RunSaved, Run
<1>4. CASE RunPause
  <2>1. PICK kind \in {"toggle", "pause", "resume"} : Run(kind) /\ SetDisabled(Ordered(kind))
    BY <1>4 DEF RunPause
  <2>2. /\ app # "off" /\ UNCHANGED <<app, cmd, wish>>
        /\ panel'.routes = panel.routes /\ panel'.token = panel.token
        /\ panel'.pending = panel.pending /\ panel'.restore = panel.restore
        /\ panel'.paused = Ordered(kind)
    BY <1>4, <2>1, <1>a DEF RunPause, Run, SetDisabled, Config
  <2>3. CASE panel.paused # Ordered(kind)
    BY <1>2, <2>1, <2>2, <2>3 DEF SetDisabled
  <2>4. CASE panel.paused = Ordered(kind)
    <3>1. UNCHANGED <<file, behind, lossy>>
      BY <2>1, <2>4 DEF SetDisabled
    <3>2. panel' = panel
      BY <2>1, <2>4, <1>a DEF SetDisabled, Config
    <3>3. ReloadWaits => ReloadWaits'
      BY <1>a, <2>1, RunKeepsReload
    <3>. QED  BY <2>2, <3>1, <3>2, <3>3, Undisturbed
  <2>. QED  BY <2>3, <2>4
<1>5. CASE ToggleRestoreLastState
  <2>1. /\ panel'.routes = panel.routes /\ panel'.token = panel.token
        /\ panel'.pending = panel.pending
    BY <1>5, <1>a DEF ToggleRestoreLastState, Config
  <2>. QED  BY <1>2, <1>5, <2>1 DEF ToggleRestoreLastState, Input
<1>6. ASSUME NEW h \in Hosts, AddRow(h) PROVE ListKnown' /\ Kept'
  <2> DEFINE w == [wish EXCEPT !.routes = @ \cup {h}]
  <2>1. app # "off" /\ UNCHANGED app /\ SaveConfig(panel') /\ Asked(w)
    BY <1>6 DEF AddRow, Input
  <2>2. /\ panel'.routes = panel.routes \cup {h} /\ panel'.pending = panel.pending
        /\ panel'.token = panel.token
        /\ w.routes = wish.routes \cup {h} /\ w.pending = wish.pending /\ w.token = wish.token
    BY <1>6, <1>a DEF AddRow, Config, Wish
  <2> HIDE DEF w
  <2>. QED  BY <2>1, <2>2, AfterSave
<1>7. ASSUME NEW h \in Hosts, DeleteRow(h) PROVE ListKnown' /\ Kept'
  <2> DEFINE w == [wish EXCEPT !.routes = @ \ {h}, !.pending = @ \cup {h}]
  <2>1. app # "off" /\ UNCHANGED app /\ SaveConfig(panel') /\ Asked(w)
    BY <1>7 DEF DeleteRow, Input
  <2>2. /\ panel'.routes = panel.routes \ {h} /\ panel'.pending = panel.pending \cup {h}
        /\ panel'.token = panel.token
        /\ w.routes = wish.routes \ {h} /\ w.pending = wish.pending \cup {h}
        /\ w.token = wish.token
    BY <1>7, <1>a DEF DeleteRow, Config, Wish
  <2> HIDE DEF w
  <2>. QED  BY <2>1, <2>2, AfterSave
<1>. QED  BY <1>1, <1>3, <1>4, <1>5, <1>6, <1>7

LEMMA TraySteps ==
  ASSUME IInv, Launch \/ Serve \/ Gone \/ Verified \/ MenuToggle \/ RunReload \/ RunUnverified
               \/ (\E h \in Hosts : PopJob(h)) \/ \E t \in Tokens : PasteToken(t)
  PROVE  ListKnown' /\ Kept'
<1>a. TypeOK /\ panel \in Config /\ file \in Config /\ wish \in Wish
      /\ verify.held \in Tokens \cup {NoToken}
  BY DEF IInv, TypeOK, Wish
<1>b. \A k \in Loads : k # file => "list" \in Missed(k, {}) /\ "list" \in Missed(k, behind \ {"list"})
  BY DEF Missed
<1>1. CASE Launch
  <2>1. ASSUME NEW k \in Loads,
               panel' = [k EXCEPT !.paused = k.restore => k.paused],
               behind' = Missed(k, {}), lossy' = (lossy \/ k # file)
        PROVE  ListKnown' /\ Kept'
    <3>1. k \in Config /\ file' = file /\ wish' = wish
      BY <1>a, <1>1, LoadsType DEF Launch
    <3>2. /\ panel'.routes = k.routes /\ panel'.token = k.token /\ panel'.pending = k.pending
          /\ panel'.restore = k.restore
      BY <2>1, <3>1 DEF Config
    <3>3. k.restore => panel'.paused = k.paused
      BY <2>1, <3>1 DEF Config
    <3>4. ListKnown'
      BY <1>b, <2>1, <3>1, <3>2 DEF ListKnown
    <3>5. ASSUME ~lossy' PROVE NothingIsLost' /\ OwedIsQueued' /\ FlagIsKnown'
      <4>1. ~lossy /\ k = file
        BY <2>1, <3>5
      <4>2. NothingIsLost
        BY <4>1 DEF IInv, Kept
      <4>. QED  BY <3>1, <3>2, <3>3, <4>1, <4>2 DEF NothingIsLost, OwedIsQueued, FlagIsKnown
    <3>. QED  BY <3>4, <3>5 DEF Kept
  <2>2. CASE behind' = {"list", "paused"} /\ lossy' = TRUE
    BY <2>2 DEF ListKnown, Kept
  <2>. QED  BY <1>1, <2>1, <2>2 DEF Launch
<1>2. CASE Serve
  BY <1>2 DEF Serve, history, IInv, ListKnown, Kept, NothingIsLost, OwedIsQueued, FlagIsKnown
<1>3. CASE Gone
  BY <1>3 DEF Gone, history, IInv, ListKnown, Kept, NothingIsLost, OwedIsQueued, FlagIsKnown
<1>4. CASE Verified
  <2>1. ReloadWaits => ReloadWaits'
    BY <1>4, <1>a, DispatchKeepsReload DEF Verified, Kinds
  <2>. QED  BY <1>4, <2>1, Undisturbed DEF Verified, history
<1>5. CASE MenuToggle
  <2>1. ReloadWaits => ReloadWaits'
    BY <1>5, <1>a, DispatchKeepsReload DEF MenuToggle, Kinds
  <2>. QED  BY <1>5, <2>1, Undisturbed DEF MenuToggle, history
<1>6. CASE RunReload
  <2>0. UNCHANGED <<file, app, cmd, wish, lossy>> /\ app = "up"
    BY <1>6 DEF RunReload, Run
  <2>1. ASSUME NEW k \in Loads,
               panel' = [panel EXCEPT !.token = k.token, !.routes = k.routes],
               behind' = Missed(k, behind \ {"list"})
        PROVE  ListKnown' /\ Kept'
    <3>1. /\ panel'.routes = k.routes /\ panel'.token = k.token /\ panel'.pending = panel.pending
          /\ panel'.restore = panel.restore /\ panel'.paused = panel.paused
      BY <2>1, <1>a DEF Config
    <3>2. "paused" \in behind => "paused" \in behind'
      BY <2>1 DEF Missed
    <3>3. ListKnown'
      BY <1>b, <2>0, <2>1, <3>1 DEF ListKnown
    <3>4. Kept'
      BY <2>0, <3>1, <3>2 DEF IInv, Kept, NothingIsLost, OwedIsQueued, FlagIsKnown
    <3>. QED  BY <3>3, <3>4
  <2>2. CASE UNCHANGED panel /\ behind' = behind \cup {"list"}
    BY <2>0, <2>2 DEF IInv, ListKnown, Kept, NothingIsLost, OwedIsQueued, FlagIsKnown
  <2>. QED  BY <1>6, <2>1, <2>2 DEF RunReload
<1>7. CASE RunUnverified
  <2>1. ReloadWaits => ReloadWaits'
    BY <1>7, <1>a, RunKeepsReload DEF RunUnverified
  <2>. QED  BY <1>7, <2>1, Undisturbed DEF RunUnverified, history
<1>8. ASSUME NEW h \in Hosts, PopJob(h) PROVE ListKnown' /\ Kept'
  <2>1. ReloadWaits => ReloadWaits'
    BY <1>8, <1>a, DispatchKeepsReload DEF PopJob, Kinds
  <2>2. app # "off" /\ UNCHANGED <<file, app, cmd, behind, lossy>>
    BY <1>8 DEF PopJob
  <2>3. /\ panel'.routes = panel.routes /\ panel'.token = panel.token
        /\ panel'.paused = panel.paused /\ panel'.restore = panel.restore
        /\ panel'.pending = panel.pending \ {h}
    BY <1>8, <1>a DEF PopJob, Config
  <2>4. ListKnown'
    BY <2>1, <2>2, <2>3 DEF IInv, ListKnown, ReloadWaits
  <2>5. CASE ~lossy
    <3>1. /\ wish'.routes = wish.routes /\ wish'.token = wish.token
          /\ wish'.pending = wish.pending \ {h}
      BY <1>8, <1>a, <2>5 DEF PopJob, Asked, Wish
    <3>. QED  BY <2>2, <2>3, <2>4, <2>5, <3>1
              DEF IInv, Kept, NothingIsLost, OwedIsQueued, FlagIsKnown
  <2>6. CASE lossy
    BY <2>2, <2>4, <2>6 DEF Kept
  <2>. QED  BY <2>5, <2>6
<1>9. ASSUME NEW t \in Tokens, PasteToken(t) PROVE ListKnown' /\ Kept'
  <2>1. UNCHANGED <<file, app, panel, posts, cmd, wish, behind, lossy>>
    BY <1>9 DEF PasteToken, Input, history
  <2>. QED  BY <2>1, Undisturbed DEF ReloadWaits
<1>. QED  BY <1>1, <1>2, <1>3, <1>4, <1>5, <1>6, <1>7, <1>8, <1>9

LEMMA CommandSteps ==
  ASSUME IInv, NEW c \in Invocations, Command(c)
  PROVE  ListKnown' /\ Kept'
<1>a. /\ TypeOK /\ file \in Config /\ panel \in Config /\ PostsType /\ wish \in Wish
      /\ cmd \in [Invocations -> Invocation] /\ cmd[c] \in Invocation
      /\ cmd[c].op \in {"add", "rm"} => cmd[c].arg \in Hosts
      /\ cmd[c].op = "login" => cmd[c].arg \in Tokens
      /\ cmd[c].at = "discover" => cmd[c].op \in {"pause", "resume"}
  BY DEF IInv, TypeOK, PostsType, CmdType, Wish
<1>1. ASSUME cmd[c].at # "notify", \A d \in Invocations : d # c => cmd'[d] = cmd[d],
             UNCHANGED <<file, app, panel, wish, behind, lossy>>, ReloadWaits => ReloadWaits'
      PROVE  ListKnown' /\ Kept'
  BY <1>1, Undisturbed
<1>2. /\ End(c) => \A d \in Invocations : d # c => cmd'[d] = cmd[d]
      /\ \A at, copy : Set(c, at, copy) => \A d \in Invocations : d # c => cmd'[d] = cmd[d]
  BY <1>a DEF End, Set
<1>3. CASE Begin(c)
  <2>1. \A d \in Invocations : d # c => cmd'[d] = cmd[d]
    BY <1>3, <1>a DEF Begin
  <2>. QED  BY <1>1, <1>3, <2>1 DEF Begin, history, ReloadWaits
<1>4. CASE Order(c)
  <2>1. /\ cmd[c].at = "discover" /\ cmd[c].op \in Kinds
        /\ UNCHANGED <<file, app, panel, wish, behind, lossy>>
        /\ Dispatch(cmd[c].op, NoToken) \/ UNCHANGED posts
        /\ \A d \in Invocations : d # c => cmd'[d] = cmd[d]
    BY <1>4, <1>a, <1>2 DEF Order, Kinds, history
  <2>2. ReloadWaits => ReloadWaits'
    BY <1>a, <2>1, DispatchKeepsReload DEF ReloadWaits
  <2>. QED  BY <1>1, <2>1, <2>2
<1>5. CASE Load(c) \/ Fails(c)
  <2>1. /\ cmd[c].at # "notify"
        /\ UNCHANGED <<file, app, panel, posts, wish, behind, lossy>>
        /\ \A d \in Invocations : d # c => cmd'[d] = cmd[d]
    BY <1>5, <1>2 DEF Load, Fails, history
  <2>. QED  BY <1>1, <2>1 DEF ReloadWaits
<1>6. CASE Save(c)
  <2> DEFINE op == cmd[c].op
             arg == cmd[c].arg
             copy == cmd[c].copy
  <2>1. PICK routes \in Lists(op, arg, copy.routes) :
          /\ file' = With(copy, op, arg, routes)
          /\ Asked(Asks(op, arg, routes))
    BY <1>6 DEF Save
  <2>2. /\ cmd[c].at = "save" /\ UNCHANGED <<app, panel, posts>>
        /\ behind' = behind \cup Silent(op) /\ lossy' = (lossy \/ copy # file)
    BY <1>6 DEF Save
  <2>3. ListKnown'
    <3>1. CASE op \in Notifies
      <4>1. cmd'[c].at = "notify"
        BY <1>6, <1>a, <3>1, ConfigFacts DEF Save
      <4>. QED  BY <4>1 DEF ListKnown
    <3>2. CASE op \notin Notifies
      <4>1. \A d \in Invocations : cmd[d].at = "notify" => cmd'[d].at = "notify"
        BY <1>6, <3>2, <2>2, <1>2 DEF Save
      <4>2. "list" \notin behind' => /\ "list" \notin behind
                                      /\ file'.routes = file.routes /\ file'.token = file.token
        BY <2>2, <3>2 DEF Silent
      <4>. QED  BY <2>2, <4>1, <4>2 DEF IInv, ListKnown
    <3>. QED  BY <3>1, <3>2
  <2>4. ASSUME ~lossy' PROVE NothingIsLost' /\ OwedIsQueued' /\ FlagIsKnown'
    <3>1. ~lossy /\ copy = file
      BY <2>2, <2>4
    <3>2. NothingIsLost /\ OwedIsQueued /\ FlagIsKnown /\ wish' = Asks(op, arg, routes)
      BY <2>1, <3>1 DEF IInv, Kept, Asked
    <3>3. /\ file' = With(file, op, arg, routes)
          /\ file'.routes = routes /\ file'.pending = file.pending /\ file'.restore = file.restore
          /\ file'.token = (IF op = "login" THEN arg ELSE file.token)
      BY <2>1, <3>1, <1>a DEF With, Config
    <3>4. /\ wish'.routes = (IF op \in {"purge", "reconcile"} THEN routes
                             ELSE Changed(op, arg, wish.routes))
          /\ wish'.token = (IF op = "login" THEN arg ELSE wish.token)
          /\ wish'.pending = wish.pending
      BY <3>2, <1>a DEF Asks, Wish
    <3>5. op \notin {"purge", "reconcile"} => routes = Changed(op, arg, file.routes)
      BY <2>1, <3>1 DEF Lists
    <3>6. NothingIsLost'
      BY <3>2, <3>3, <3>4, <3>5 DEF NothingIsLost
    <3>7. OwedIsQueued'
      BY <2>2, <3>2, <3>4 DEF OwedIsQueued
    <3>8. FlagIsKnown'
      <4>1. file'.paused = file.paused \/ "paused" \in behind'
        BY <2>2 DEF Silent
      <4>. QED  BY <2>2, <3>2, <3>3, <4>1 DEF FlagIsKnown
    <3>. QED  BY <3>6, <3>7, <3>8
  <2>. QED  BY <2>3, <2>4 DEF Kept
<1>7. CASE Notify(c)
  <2>1. /\ UNCHANGED <<file, app, panel, wish, lossy>>
        /\ behind' = IF posts' = posts THEN behind \cup {"list"} ELSE behind
        /\ \A d \in Invocations : d # c => cmd'[d] = cmd[d]
    BY <1>7, <1>2 DEF Notify
  <2>2. CASE posts' = posts
    BY <2>1, <2>2 DEF IInv, ListKnown, Kept, NothingIsLost, OwedIsQueued, FlagIsKnown
  <2>3. CASE posts' # posts
    <3>1. app = "up" /\ Dispatch("reload", NoToken)
      BY <1>7, <2>3 DEF Notify
    <3>2. ReloadWaits'
      BY <1>a, <2>3, <3>1, DispatchStep DEF Kinds, ReloadWaits
    <3>3. ListKnown'
      BY <2>1, <3>1, <3>2 DEF ListKnown, ReloadWaits
    <3>. QED  BY <2>1, <2>3, <3>3 DEF IInv, Kept, NothingIsLost, OwedIsQueued, FlagIsKnown
  <2>. QED  BY <2>2, <2>3
<1>. QED  BY <1>3, <1>4, <1>5, <1>6, <1>7 DEF Command

-----------------------------------------------------------------------------
(* The theorems.                                                           *)

LEMMA IInvStep ==
  ASSUME IInv, [Next]_vars
  PROVE  IInv'
<1>1. TypeOK'
  BY TypeStep DEF IInv
<1>2. ListKnown' /\ Kept'
  <2>1. CASE UNCHANGED vars
    BY <2>1, Undisturbed DEF vars, history, ReloadWaits
  <2>2. CASE Next
    BY <2>2, SavingSteps, TraySteps, CommandSteps DEF Next, RunPost
  <2>. QED  BY <2>1, <2>2
<1>. QED  BY <1>1, <1>2 DEF IInv

LEMMA IInvInit ==
  ASSUME Init
  PROVE  IInv
<1>1. TypeOK
  <2>1. <<>> \in Seq(Post) /\ Len(<<>>) <= PostCap
    BY SettingsAssumption
  <2>2. Unverified \in [on : BOOLEAN, held : Tokens \cup {NoToken}]
    BY DEF Unverified
  <2>3. CmdType
    BY ConfigFacts DEF Init, CmdType
  <2>. QED  BY <2>1, <2>2, <2>3, ConfigFacts DEF Init, TypeOK, Nothing
<1>2. ListKnown /\ Kept
  BY DEF Init, Empty, Nothing, ListKnown, Kept, NothingIsLost, OwedIsQueued, FlagIsKnown
<1>. QED  BY <1>1, <1>2 DEF IInv

\* However the programs interrupt each other, config.json loses a route, a token
\* or a deletion that was asked for only to a write from a copy it had moved on
\* from, or to a launch or a save that failed.
THEOREM LostOnlyToStaleCopies == Spec => []LostOnlyByOverwriting
<1>1. Init => IInv
  BY IInvInit
<1>2. IInv /\ [Next]_vars => IInv'
  BY IInvStep
<1>3. IInv => LostOnlyByOverwriting
  BY DEF IInv, Kept, LostOnlyByOverwriting
<1>. QED  BY <1>1, <1>2, <1>3, PTL DEF Spec

\* At rest the panel shows what the file says, unless the file's last change is
\* one that nobody told it of.
THEOREM PanelAgreesUnlessUntold == Spec => []AgreeAtRest
<1>1. Init => IInv
  BY IInvInit
<1>2. IInv /\ [Next]_vars => IInv'
  BY IInvStep
<1>3. IInv => AgreeAtRest
  <2>1. posts = <<>> => DOMAIN posts = {}
    OBVIOUS
  <2>. QED  BY <2>1 DEF IInv, AgreeAtRest, ListKnown
<1>. QED  BY <1>1, <1>2, <1>3, PTL DEF Spec

\* The pause that a relaunch restores is the one the panel shows.
THEOREM PauseIsRestored == Spec => []PauseIsKept
<1>1. Init => IInv
  BY IInvInit
<1>2. IInv /\ [Next]_vars => IInv'
  BY IInvStep
<1>3. IInv => PauseIsKept
  BY DEF IInv, Kept, FlagIsKnown, PauseIsKept
<1>. QED  BY <1>1, <1>2, <1>3, PTL DEF Spec

\* Every variable stays in its type.
THEOREM SettingsTypeCorrect == Spec => []TypeOK
<1>1. Init => IInv
  BY IInvInit
<1>2. IInv /\ [Next]_vars => IInv'
  BY IInvStep
<1>3. IInv => TypeOK
  BY DEF IInv
<1>. QED  BY <1>1, <1>2, <1>3, PTL DEF Spec
=============================================================================
