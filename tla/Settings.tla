------------------------------ MODULE Settings ------------------------------
(***************************************************************************)
(* One config.json and everybody who writes it: the tray's panel, which    *)
(* reads it at launch and writes its own copy of everything on each        *)
(* change, and the commands of the terminal, each of which loads the file, *)
(* changes its copy, saves it and asks a running panel to load it again.   *)
(*                                                                         *)
(* The panel changes its copy on the Gio loop only: in the closures posted *)
(* to it and in a frame's input, which follows them.  What the commands    *)
(* and the panel do at Cloudflare is RoutePanel's; here it may fail.       *)
(*                                                                         *)
(* Nothing keeps the programs from interrupting each other, and the model  *)
(* does not either: the properties name what a change may fall victim to.  *)
(***************************************************************************)
EXTENDS Naturals, Sequences

CONSTANTS
  Hosts,        \* hostnames
  Tokens,       \* API tokens Cloudflare accepts
  NoToken,      \* the empty token
  Invocations,  \* commands that may be under way at once
  Ops,          \* what the commands may be
  PostCap,      \* capacity of the post channel (32 in the code)
  Env           \* what may happen beside

ASSUME SettingsAssumption ==
  /\ PostCap \in Nat \ {0} /\ NoToken \notin Tokens
  /\ Ops \subseteq {"add", "rm", "login", "reconcile", "purge", "pause", "resume"}
  \* The tray is started; the file is locked when it is read, or when the panel
  \* replaces it; the token in it was protected for another Windows account.
  /\ Env \subseteq {"tray", "unreadable", "locked", "foreign"}

VARIABLES
  file,    \* config.json
  app,     \* the tray: "off", "launch" before its IPC server, "up"
  panel,   \* the panel's copy
  zones,   \* the panel has a verified token's zones
  posts,   \* the post channel
  verify,  \* p.verifying, and the token its goroutine holds, or NoToken
  cmd,     \* the commands: their place, order and copy
  wish,    \* history: what the changes, one after another, ask for
  behind,  \* history: what of the file, its list or its pause, the panel was
           \* not told of, or could not read or write
  lossy    \* history: a program wrote a copy of what the file no longer said,
           \* or a launch or a save failed

history == <<wish, behind, lossy>>
vars == <<file, app, panel, zones, posts, verify, cmd, history>>

Config ==
  [token : Tokens \cup {NoToken}, routes : SUBSET Hosts, paused : BOOLEAN,
   restore : BOOLEAN, pending : SUBSET Hosts]

Post ==
  [kind : {"reload", "verified", "unverified", "saved", "toggle", "pause", "resume"},
   token : Tokens \cup {NoToken}]

Invocation ==
  [at : {"idle", "discover", "load", "save", "notify"}, op : Ops \cup {"none"},
   arg : Hosts \cup Tokens \cup {NoToken}, copy : Config]

Empty ==
  [token |-> NoToken, routes |-> {}, paused |-> FALSE, restore |-> FALSE,
   pending |-> {}]

Unverified == [on |-> FALSE, held |-> NoToken]

Notifying == [at |-> "notify", op |-> "none", arg |-> NoToken, copy |-> Empty]

Idle == [at |-> "idle", op |-> "none", arg |-> NoToken, copy |-> Empty]

Nothing == [token |-> NoToken, routes |-> {}, pending |-> {}]

\* The changes now ask for w; they are no longer kept once lossy.
Asked(w) == wish' = IF lossy THEN Nothing ELSE w

Init ==
  /\ file = Empty
  /\ app = "off" /\ panel = Empty /\ zones = FALSE
  /\ posts = <<>> /\ verify = Unverified
  /\ cmd = [c \in Invocations |-> Idle]
  /\ wish = Nothing
  /\ behind = {} /\ lossy = FALSE

-----------------------------------------------------------------------------
(* Reading and writing.                                                    *)

\* dispatch of a closure that may hold a token.
Dispatch(kind, token) ==
  posts' = IF Len(posts) < PostCap
           THEN Append(posts, [kind |-> kind, token |-> token]) ELSE posts

\* What config.Load makes of the file.  If the token cannot be decrypted, the
\* pending deletions are left out with it.
Loads ==
  {k \in {file, [file EXCEPT !.token = NoToken, !.pending = {}]} :
     k = file \/ ("foreign" \in Env /\ file.token # NoToken)}

\* A reader that got k misses the rest of the list.
Missed(k, known) == IF k = file THEN known ELSE known \cup {"list"}

\* Or it fails: the file cannot be read, or not be parsed.
LoadFails == "unreadable" \in Env

\* What the panel is about to change is what the file says; the worker may have
\* popped deletions since.
UpToDate ==
  /\ panel.token = file.token /\ panel.routes = file.routes
  /\ panel.pending \subseteq file.pending

\* saveConfig of the copy p.  A failed save leaves the file as it was.
SaveConfig(p) ==
  \/ /\ file' = p
     /\ behind' = {} /\ lossy' = (lossy \/ ~UpToDate)
  \/ /\ "locked" \in Env /\ UNCHANGED file
     /\ behind' = {"list", "paused"} /\ lossy' = TRUE

-----------------------------------------------------------------------------
(* The tray starts and ends.                                               *)

\* startVerify.
Verifying(t) == [on |-> t # NoToken, held |-> t]

\* restore: routes are off unless the last state is to be restored.  Without a
\* file it returns at once, and the panel begins with nothing.
Launch ==
  /\ app = "off" /\ "tray" \in Env
  /\ app' = "launch"
  /\ \/ \E k \in Loads :
          /\ panel' = [k EXCEPT !.paused = k.restore => k.paused]
          /\ verify' = Verifying(k.token)
          /\ behind' = Missed(k, {}) /\ lossy' = (lossy \/ k # file)
     \/ /\ LoadFails
        /\ panel' = Empty /\ verify' = Unverified
        /\ behind' = {"list", "paused"} /\ lossy' = TRUE
  /\ UNCHANGED <<file, zones, posts, cmd, wish>>

\* The IPC server answers, and the Gio loop draws.
Serve ==
  /\ app = "launch" /\ app' = "up"
  /\ UNCHANGED <<file, panel, zones, posts, verify, cmd, history>>

\* The user quits, which saves nothing, or the process dies.
Gone ==
  /\ app # "off" /\ app' = "off"
  /\ panel' = Empty /\ zones' = FALSE /\ posts' = <<>> /\ verify' = Unverified
  /\ UNCHANGED <<file, cmd, history>>

-----------------------------------------------------------------------------
(* The panel's goroutines and its menu.                                    *)

\* startVerify's goroutine ends; Cloudflare may be out of reach.  If the
\* channel is full nobody hears of it.
Verified ==
  /\ verify.held # NoToken
  /\ \E kind \in {"verified", "unverified"} :
       Dispatch(kind, verify.held)
  /\ verify' = [verify EXCEPT !.held = NoToken]
  /\ UNCHANGED <<file, app, panel, zones, cmd, history>>

\* The deletion worker is done with a job.
PopJob(h) ==
  /\ app # "off" /\ h \in panel.pending
  /\ panel' = [panel EXCEPT !.pending = @ \ {h}]
  /\ Asked([wish EXCEPT !.pending = @ \ {h}])
  /\ Dispatch("saved", NoToken)
  /\ UNCHANGED <<file, app, zones, verify, cmd, behind, lossy>>

\* Enable or Disable Routes in the tray's menu.
MenuToggle ==
  /\ app = "up"
  /\ Dispatch("toggle", NoToken)
  /\ UNCHANGED <<file, app, panel, zones, verify, cmd, history>>

-----------------------------------------------------------------------------
(* The posted closures, on the Gio loop.                                   *)

Run(kind) ==
  /\ app = "up" /\ posts # <<>> /\ Head(posts).kind = kind
  /\ posts' = Tail(posts)

\* ReloadFromDisk: the token and the routes, as the file has them when the
\* closure runs.
RunReload ==
  /\ Run("reload")
  /\ \/ \E k \in Loads :
          /\ panel' = [panel EXCEPT !.token = k.token, !.routes = k.routes]
          /\ behind' = Missed(k, behind \ {"list"})
     \/ LoadFails /\ UNCHANGED panel /\ behind' = behind \cup {"list"}
  /\ UNCHANGED <<file, app, zones, verify, cmd, wish, lossy>>

RunVerified ==
  /\ Run("verified")
  /\ panel' = [panel EXCEPT !.token = Head(posts).token]
  /\ zones' = TRUE /\ verify' = Unverified
  /\ Asked([wish EXCEPT !.token = Head(posts).token])
  /\ SaveConfig(panel')
  /\ UNCHANGED <<app, cmd>>

RunUnverified ==
  /\ Run("unverified")
  /\ verify' = Unverified
  /\ UNCHANGED <<file, app, panel, zones, cmd, history>>

RunSaved ==
  /\ Run("saved")
  /\ SaveConfig(panel)
  /\ UNCHANGED <<app, panel, zones, verify, cmd, wish>>

\* Mutant of SetDisabled: the pause is left to the next save.
SetDisabledUnsaved(off) ==
  /\ panel' = [panel EXCEPT !.paused = off]
  /\ UNCHANGED <<file, behind, lossy>>

\* setDisabled.
SetDisabled(off) ==
  /\ panel' = [panel EXCEPT !.paused = off]
  /\ IF panel.paused = off THEN UNCHANGED <<file, behind, lossy>> ELSE SaveConfig(panel')

\* What the menu's closure makes of the pause, and an order's.
Ordered(kind) == IF kind = "toggle" THEN ~panel.paused ELSE kind = "pause"

RunPause ==
  /\ \E kind \in {"toggle", "pause", "resume"} :
       Run(kind) /\ SetDisabled(Ordered(kind))
  /\ UNCHANGED <<app, zones, verify, cmd, wish>>

RunPost == RunReload \/ RunVerified \/ RunUnverified \/ RunSaved \/ RunPause

-----------------------------------------------------------------------------
(* A frame's input.                                                        *)

Input ==
  /\ app = "up" /\ posts = <<>>
  /\ UNCHANGED <<app, zones, posts, cmd>>

\* buildRoute accepts a hostname that has no row.
AddRow(h) ==
  /\ Input
  /\ panel.token # NoToken /\ zones /\ h \notin panel.routes
  /\ panel' = [panel EXCEPT !.routes = @ \cup {h}]
  /\ Asked([wish EXCEPT !.routes = @ \cup {h}])
  /\ SaveConfig(panel')
  /\ UNCHANGED verify

\* Mutant of DeleteRow: the worker is left to save, once it is done.
DeleteRowUnsaved(h) ==
  /\ Input
  /\ h \in panel.routes
  /\ panel' = [panel EXCEPT !.routes = @ \ {h}, !.pending = @ \cup {h}]
  /\ Asked([wish EXCEPT !.routes = @ \ {h}, !.pending = @ \cup {h}])
  /\ UNCHANGED <<file, verify, behind, lossy>>

\* deleteRoute.
DeleteRow(h) ==
  /\ Input
  /\ h \in panel.routes
  /\ panel' = [panel EXCEPT !.routes = @ \ {h}, !.pending = @ \cup {h}]
  /\ Asked([wish EXCEPT !.routes = @ \ {h}, !.pending = @ \cup {h}])
  /\ SaveConfig(panel')
  /\ UNCHANGED verify

ToggleRestoreLastState ==
  /\ Input
  /\ panel' = [panel EXCEPT !.restore = ~@]
  /\ SaveConfig(panel')
  /\ UNCHANGED <<verify, wish>>

\* startVerify of a token that was pasted.
PasteToken(t) ==
  /\ Input /\ ~verify.on
  /\ verify' = Verifying(t)
  /\ UNCHANGED <<file, panel, history>>

-----------------------------------------------------------------------------
(* A command of the terminal.                                              *)

Set(c, at, copy) == cmd' = [cmd EXCEPT ![c] = [@ EXCEPT !.at = at, !.copy = copy]]

End(c) == cmd' = [cmd EXCEPT ![c] = Idle]

Args(op) ==
  IF op = "login" THEN Tokens ELSE IF op \in {"add", "rm"} THEN Hosts ELSE {NoToken}

Begin(c) ==
  /\ cmd[c].at = "idle"
  /\ \E op \in Ops : \E arg \in Args(op) :
       cmd' = [cmd EXCEPT ![c] =
                 [at |-> IF op \in {"pause", "resume"} THEN "discover" ELSE "load",
                  op |-> op, arg |-> arg, copy |-> Empty]]
  /\ UNCHANGED <<file, app, panel, zones, posts, verify, history>>

\* pause and resume: a running panel is told to, and may do it later; else the
\* command edits the file itself.
Order(c) ==
  /\ cmd[c].at = "discover"
  /\ IF app = "up"
     THEN Dispatch(cmd[c].op, NoToken) /\ End(c)
     ELSE Set(c, "load", Empty) /\ UNCHANGED posts
  /\ UNCHANGED <<file, app, panel, zones, verify, history>>

\* open and the checks of the list.  An error ends the command.
Accepts(c, k) ==
  /\ cmd[c].op \in {"add", "rm", "reconcile", "purge"} => k.token # NoToken
  /\ cmd[c].op = "add" => cmd[c].arg \notin k.routes
  /\ cmd[c].op = "rm" => cmd[c].arg \in k.routes
  /\ cmd[c].op = "purge" => k.routes # {}

Load(c) ==
  /\ cmd[c].at = "load"
  /\ \/ \E k \in Loads : IF Accepts(c, k) THEN Set(c, "save", k) ELSE End(c)
     \/ LoadFails /\ End(c)
  /\ UNCHANGED <<file, app, panel, zones, posts, verify, history>>

\* The user answers no, a call to Cloudflare fails, or the file cannot be
\* replaced.
Fails(c) ==
  /\ cmd[c].at = "save"
  /\ End(c)
  /\ UNCHANGED <<file, app, panel, zones, posts, verify, history>>

Changed(op, arg, routes) ==
  IF op = "add" THEN routes \cup {arg}
  ELSE IF op = "rm" THEN routes \ {arg} ELSE routes

\* The lists a command may make of the given one.  uninstall --routes-only
\* empties it; a reconciliation drops and adopts routes as Cloudflare has them.
Lists(op, arg, routes) ==
  IF op = "purge" THEN {{}}
  ELSE IF op = "reconcile" THEN SUBSET Hosts
  ELSE {Changed(op, arg, routes)}

\* The configuration a command writes, given what it loaded and the new list.
With(k, op, arg, routes) ==
  [k EXCEPT !.routes = routes,
            !.token = IF op = "login" THEN arg ELSE @,
            !.paused = IF op \in {"pause", "resume"} THEN op = "pause" ELSE @]

\* What is asked for, once it is carried out.
Asks(op, arg, routes) ==
  [wish EXCEPT !.routes = IF op \in {"purge", "reconcile"} THEN routes
                          ELSE Changed(op, arg, @),
               !.token = IF op = "login" THEN arg ELSE @]

Notifies == {"add", "rm", "login"}

\* What a command's save has changed and a panel does not learn of.
Silent(op) ==
  {part \in {"list", "paused"} :
     IF part = "paused" THEN file.paused # file'.paused
     ELSE /\ op \notin Notifies
          /\ <<file.token, file.routes>> # <<file'.token, file'.routes>>}

\* Mutant of Save: the panel is not told.
SaveQuietly(c) ==
  LET op == cmd[c].op  arg == cmd[c].arg  copy == cmd[c].copy IN
  /\ cmd[c].at = "save"
  /\ \E routes \in Lists(op, arg, copy.routes) :
       /\ file' = With(copy, op, arg, routes)
       /\ Asked(Asks(op, arg, routes))
  /\ End(c)
  /\ behind' = behind \cup Silent(op)
  /\ lossy' = (lossy \/ copy # file)
  /\ UNCHANGED <<app, panel, zones, posts, verify>>

\* A command that is no route or token change ends without telling the panel.
Save(c) ==
  LET op == cmd[c].op  arg == cmd[c].arg  copy == cmd[c].copy IN
  /\ cmd[c].at = "save"
  /\ \E routes \in Lists(op, arg, copy.routes) :
       /\ file' = With(copy, op, arg, routes)
       /\ Asked(Asks(op, arg, routes))
  /\ IF op \in Notifies THEN cmd' = [cmd EXCEPT ![c] = Notifying] ELSE End(c)
  /\ behind' = behind \cup Silent(op)
  /\ lossy' = (lossy \/ copy # file)
  /\ UNCHANGED <<app, panel, zones, posts, verify>>

\* notifyTrayReload: Discover, then Reload.  Nobody may answer, or the panel
\* drop the closure; the command does not learn of either.
Notify(c) ==
  /\ cmd[c].at = "notify"
  /\ IF app = "up" THEN Dispatch("reload", NoToken) ELSE UNCHANGED posts
  /\ behind' = IF posts' = posts THEN behind \cup {"list"} ELSE behind
  /\ End(c)
  /\ UNCHANGED <<file, app, panel, zones, verify, wish, lossy>>

Command(c) == Begin(c) \/ Order(c) \/ Load(c) \/ Fails(c) \/ Save(c) \/ Notify(c)

Next ==
  \/ Launch \/ Serve \/ Gone
  \/ Verified \/ MenuToggle \/ RunPost
  \/ \E h \in Hosts : PopJob(h) \/ AddRow(h) \/ DeleteRow(h)
  \/ ToggleRestoreLastState
  \/ \E t \in Tokens : PasteToken(t)
  \/ \E c \in Invocations : Command(c)

Spec == Init /\ [][Next]_vars

-----------------------------------------------------------------------------
CmdType ==
  /\ cmd \in [Invocations -> Invocation]
  /\ \A c \in Invocations :
       /\ cmd[c].op \in {"add", "rm"} => cmd[c].arg \in Hosts
       /\ cmd[c].op = "login" => cmd[c].arg \in Tokens
       /\ cmd[c].at = "discover" => cmd[c].op \in {"pause", "resume"}

TypeOK ==
  /\ file \in Config /\ panel \in Config
  /\ app \in {"off", "launch", "up"} /\ zones \in BOOLEAN
  /\ posts \in Seq(Post) /\ Len(posts) <= PostCap
  /\ CmdType
  /\ verify \in [on : BOOLEAN, held : Tokens \cup {NoToken}]
  /\ wish \in [token : Tokens \cup {NoToken}, routes : SUBSET Hosts, pending : SUBSET Hosts]
  /\ behind \subseteq {"list", "paused"} /\ lossy \in BOOLEAN

\* Nothing is lost: the file lists the routes, and holds the token, that the
\* changes made so far leave, whichever program made each of them, and every
\* deletion that the panel was asked for and has not carried out.
NothingIsLost ==
  /\ file.routes = wish.routes /\ file.token = wish.token
  /\ wish.pending \subseteq file.pending

\* However the panel and the commands interrupt each other, a change is lost
\* only by a write from a copy that the file had moved on from, or by a launch
\* or a save that failed: not by a reload, a pause, a pop or an end between two
\* of them.
LostOnlyByOverwriting == lossy \/ NothingIsLost

\* When no command is about to tell the panel and no closure waits, the panel
\* shows and serves the list and the token of the file, whoever wrote it and
\* however many wrote at once - but after a change it was not told of, or a
\* load or save that failed, until its next save or reload.
AgreeAtRest ==
  app = "up" /\ posts = <<>> /\ (\A c \in Invocations : cmd[c].at # "notify")
  => "list" \in behind \/ (panel.routes = file.routes /\ panel.token = file.token)

\* With "restore last state" on, the pause that a relaunch brings back is the one
\* the panel shows: through reloads, stale orders, pops and relaunches, whoever
\* toggled, and unless a write from an older copy or a failed save intervened,
\* or a pause or resume in the terminal that did not find the starting tray.
PauseIsKept ==
  app # "off" /\ file.restore
  => lossy \/ "paused" \in behind \/ panel.paused = file.paused

\* What docs/USAGE.md:149 says of the commands, "automatically synchronize in
\* real time with the running tray UI".  The commands that tell nobody
\* (commands.go:473, uninstall_windows.go:111) violate it.
CommandsSynchronize ==
  app = "up" /\ posts = <<>> /\ (\A c \in Invocations : cmd[c].at = "idle")
  => panel.routes = file.routes /\ panel.token = file.token

\* What `quickflare pause` prints (commands.go:119), "Routes paused.": the order
\* that was answered is carried out.  A full channel drops it, and a process
\* that ends before its next frame forgets it.
OrdersAreKept ==
  [][/\ \A c \in Invocations : Order(c) /\ app = "up" => posts' # posts
     /\ app' = "off" => \A i \in DOMAIN posts : posts[i].kind \notin {"pause", "resume"}]_vars
=============================================================================
